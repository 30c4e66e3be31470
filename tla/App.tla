-------------------------------- MODULE App ---------------------------------
(***************************************************************************)
(* src/app/main.c and src/app/osk.c: the program around the SSH client.    *)
(* The configuration file and menu, the on-screen keyboard with its use of *)
(* the display, the way to a connection (Wlan is a part of it), and the    *)
(* input line that client.c asks for.                                      *)
(*                                                                         *)
(* External: the user, who holds buttons down and types; the OSK utility;  *)
(* the display and GU library, of which the two frame buffers are kept:    *)
(* "base", which the debug screen writes, and "second"; the network, whose *)
(* calls succeed or fail.  The SSH session itself is Client's; here it     *)
(* asks for input and, at some point, returns.                             *)
(***************************************************************************)
EXTENDS Wlan, FiniteSets

CONSTANTS
  ConfigFiles,  \* contents the configuration file may have: words per field
  Texts,        \* what the user may enter for a field
  Lengths,      \* lengths of the lines the user may enter in a session
  ChunkSize,    \* size of the buffer in_line is given: 256 in client.c
  MaxLines,     \* bound: lines entered in a session
  MaxHeld       \* bound: buttons held at once

ASSUME AppAssumption ==
  /\ Lengths \subseteq Nat /\ ChunkSize \in Nat \ {0}
  /\ MaxLines \in Nat /\ MaxHeld \in Nat

VARIABLES
  at,       \* where main stands
  file,     \* the configuration file
  cfg,      \* cfg_host, cfg_user, cfg_cmd, as words
  edited,   \* fields changed in the menu since
  sel,      \* the field selected
  pad,      \* buttons held
  sample,   \* pad as menu_run read it before it opened the OSK
  old,      \* and in the one before
  caller,   \* who runs the OSK
  dialog,   \* the OSK utility's status
  disp,     \* the buffer GU takes for the displayed one
  shown,    \* the buffer that is displayed
  sock,     \* the socket
  pending,  \* characters in_line has yet to hand out
  entered,  \* history: characters entered, with their newlines
  handed,   \* history: characters handed out
  lines,    \* lines entered
  cb        \* was the exit callback's thread created?

menu   == <<file, cfg, edited, sel, sample, old>>
screen == <<disp, shown>>
input  == <<pending, entered, handed, lines>>
net    == <<wlan, seen, sock>>
vars   == <<at, menu, pad, caller, dialog, screen, net, input, cb>>

-----------------------------------------------------------------------------
(* Configuration and menu. *)

F_COUNT == 5
Fields == <<"host", "port", "user", "pass", "cmd">>
Kept == {"host", "user", "cmd"}   \* port and password make no difference here

Buttons == {"UP", "DOWN", "CROSS", "START", "HOME"}   \* START: or TRIANGLE

\* load_config: sscanf's %s takes one word, and a key without one is no entry.
FirstWord(words) == IF words = <<>> THEN <<>> ELSE <<Head(words)>>
load_config(contents) == [f \in Kept |-> FirstWord(contents[f])]

\* main up to menu_run; the swap that settles the display has been made.
Init ==
  /\ at = "menu"
  /\ file \in ConfigFiles /\ cfg = load_config(file) /\ edited = {}
  /\ sel = 0 /\ pad = {} /\ sample = {} /\ old = {}
  /\ caller = "none" /\ dialog = "NONE"
  /\ disp = "base" /\ shown = "base"
  /\ WlanInit /\ sock = "none"
  /\ pending = <<>> /\ entered = <<>> /\ handed = <<>> /\ lines = 0
  /\ cb \in BOOLEAN

User ==
  /\ at # "exited"
  /\ \E b \in Buttons :
       pad' = IF b \in pad THEN pad \ {b} ELSE pad \cup {b}
  /\ Cardinality(pad') <= MaxHeld
  /\ UNCHANGED <<at, menu, caller, dialog, screen, net, input, cb>>

\* The end of a round: START connects unless a field is missing.
EndRound(buttons, config) ==
  /\ at' = IF "START" \in buttons \ old /\ config["host"] # <<>> /\ config["user"] # <<>>
             THEN "init_net" ELSE "menu"
  /\ old' = buttons

\* Slip: the selection runs off the list.
Moved_NoWrap ==
  sel + (IF "UP" \in pad \ old THEN -1 ELSE 0) + (IF "DOWN" \in pad \ old THEN 1 ELSE 0)

Moved ==
  (sel + (IF "UP" \in pad \ old THEN F_COUNT - 1 ELSE 0)
       + (IF "DOWN" \in pad \ old THEN 1 ELSE 0)) % F_COUNT

\* Slip: HOME is left to the exit callback.
MenuHome_Callback == FALSE

MenuHome ==
  /\ at = "menu" /\ "HOME" \in pad
  /\ at' = "exited"
  /\ UNCHANGED <<menu, pad, caller, dialog, screen, net, input, cb>>

MenuRound ==
  /\ at = "menu" /\ "HOME" \notin pad
  /\ sel' = Moved
  /\ IF "CROSS" \in pad \ old
       THEN /\ at' = "osk" /\ caller' = "menu" /\ dialog' = "START"
            /\ sample' = pad
            /\ UNCHANGED old
       ELSE EndRound(pad, cfg) /\ UNCHANGED <<sample, caller, dialog>>
  /\ UNCHANGED <<file, cfg, edited, pad, screen, net, input, cb>>

-----------------------------------------------------------------------------
(* osk_input: one GU frame after the other until the utility is gone. *)

Other(buffer) == IF buffer = "base" THEN "second" ELSE "base"

\* sceGuSwapBuffers
Swap == disp' = Other(disp) /\ shown' = disp'

\* Where the utility may stand after a frame that found it in this status;
\* finding it in QUIT, the program asks it to shut down.
Onward ==
  [START |-> {"INIT"}, INIT |-> {"INIT", "VISIBLE"}, VISIBLE |-> {"VISIBLE", "QUIT"},
   QUIT |-> {"FINISHED"}, FINISHED |-> {"FINISHED", "NONE"}]

OskFrame ==
  /\ at = "osk" /\ dialog # "NONE"
  /\ Swap
  /\ dialog' \in Onward[dialog]
  /\ UNCHANGED <<at, menu, pad, caller, net, input, cb>>

\* How osk_input returns: the utility would not start, or a last frame found it
\* gone.
OskEnds ==
  /\ at = "osk"
  /\ \/ dialog = "START" /\ UNCHANGED disp
     \/ dialog = "NONE" /\ disp' = Other(disp)
  /\ dialog' = "NONE" /\ caller' = "none"

\* What is displayed when it does: without a frame there was no swap.
LastShown == IF dialog = "START" THEN shown ELSE disp'

\* Slip: the display stays where the last frame left it.
MenuEdited_NoRestore ==
  /\ OskEnds /\ caller = "menu"
  /\ \/ UNCHANGED <<cfg, edited>>
     \/ /\ dialog = "NONE"
        /\ \E text \in Texts : LET f == Fields[sel + 1] IN
             IF f \in Kept
               THEN cfg' = [cfg EXCEPT ![f] = text] /\ edited' = edited \cup {f}
               ELSE UNCHANGED <<cfg, edited>>
  /\ shown' = LastShown
  /\ EndRound(sample, cfg') /\ sample' = {}
  /\ UNCHANGED <<file, sel, pad, net, input, cb>>

\* Back in menu_run: the field changes unless the user cancelled, the display
\* is pointed at the debug screen again (osk_restore_debug_display), and the
\* round ends with the buttons read at its start.
MenuEdited ==
  /\ OskEnds /\ caller = "menu"
  /\ \/ UNCHANGED <<cfg, edited>>
     \/ /\ dialog = "NONE"
        /\ \E text \in Texts : LET f == Fields[sel + 1] IN
             IF f \in Kept
               THEN cfg' = [cfg EXCEPT ![f] = text] /\ edited' = edited \cup {f}
               ELSE UNCHANGED <<cfg, edited>>
  /\ shown' = "base"
  /\ EndRound(sample, cfg') /\ sample' = {}
  /\ UNCHANGED <<file, sel, pad, net, input, cb>>

-----------------------------------------------------------------------------
(* To the session and back. *)

Elsewhere == <<menu, pad, caller, dialog, screen, input, cb>>

\* Modules and libraries, in order; the first that fails ends it.
InitNet ==
  /\ at = "init_net"
  /\ at' \in {"wlan", "hold"}
  /\ UNCHANGED <<Elsewhere, net>>

apctl_connect ==
  /\ at = "wlan" /\ wlan.at # "done"
  /\ WlanStep
  /\ at' = IF wlan'.at # "done" THEN "wlan" ELSE IF wlan'.rc = 0 THEN "connect" ELSE "hold"
  /\ UNCHANGED <<Elsewhere, sock>>

Connect ==
  /\ at = "connect"
  /\ \/ at' = "handshake" /\ sock' = "open"
     \/ at' = "hold" /\ UNCHANGED sock
  /\ UNCHANGED <<Elsewhere, wlan, seen>>

\* Slip: nothing is closed when the handshake fails.
Handshake_NoClose ==
  /\ at = "handshake"
  /\ at' \in {"session", "hold"}
  /\ UNCHANGED <<Elsewhere, net>>

Handshake ==
  /\ at = "handshake"
  /\ \/ at' = "session" /\ UNCHANGED sock
     \/ at' = "hold" /\ sock' = "closed"
  /\ UNCHANGED <<Elsewhere, wlan, seen>>

\* sshe_client_run returns; what it returned decides the last message only.
SessionReturns ==
  /\ at = "session"
  /\ at' = "hold" /\ sock' = "closed"
  /\ UNCHANGED <<Elsewhere, wlan, seen>>

\* Slip: the last screen leaves HOME to the exit callback.
Hold_Callback == FALSE

\* hold: until HOME.
Hold ==
  /\ at = "hold" /\ "HOME" \in pad
  /\ at' = "exited"
  /\ UNCHANGED <<Elsewhere, net>>

\* The callback thread, whatever main is doing.
exit_callback ==
  /\ cb /\ "HOME" \in pad /\ at # "exited"
  /\ at' = "exited"
  /\ UNCHANGED <<Elsewhere, net>>

-----------------------------------------------------------------------------
(* in_line, which the pump of an interactive shell calls on every turn.    *)

Shell == at = "session" /\ cfg["cmd"] = <<>>

Fits(chars) == IF Len(chars) < ChunkSize THEN chars ELSE SubSeq(chars, 1, ChunkSize)

\* The caller gets what fits; the rest stays.
HandOut(chars) ==
  /\ handed' = handed \o Fits(chars)
  /\ pending' = IF Len(chars) <= ChunkSize THEN <<>>
                ELSE SubSeq(chars, ChunkSize + 1, Len(chars))

InLineRest ==
  /\ Shell /\ pending # <<>>
  /\ HandOut(pending)
  /\ UNCHANGED <<at, menu, pad, caller, dialog, screen, net, entered, lines, cb>>

InLineOsk ==
  /\ Shell /\ pending = <<>> /\ "CROSS" \in pad /\ lines < MaxLines
  /\ at' = "osk" /\ caller' = "session" /\ dialog' = "START"
  /\ UNCHANGED <<menu, pad, screen, net, input, cb>>

\* The k-th line as characters told apart, the newline last.
Line(k, len) == [i \in 1 .. len + 1 |-> <<k, i>>]

\* Back in in_line: a line that is not empty is handed out at once.  The display
\* stays where the last frame left it.
LineTyped ==
  /\ OskEnds /\ caller = "session"
  /\ shown' = LastShown
  /\ at' = "session"
  /\ \/ UNCHANGED input
     \/ /\ dialog = "NONE"
        /\ \E len \in Lengths \ {0} :
             /\ HandOut(Line(lines + 1, len))
             /\ entered' = entered \o Line(lines + 1, len)
        /\ lines' = lines + 1
  /\ UNCHANGED <<menu, pad, net, cb>>

-----------------------------------------------------------------------------
Program ==
  \/ MenuHome \/ MenuRound \/ OskFrame \/ MenuEdited
  \/ InitNet \/ apctl_connect \/ Connect \/ Handshake
  \/ Hold
  \/ InLineRest \/ InLineOsk \/ LineTyped

Next == Program \/ User \/ SessionReturns \/ exit_callback

Spec == Init /\ [][Next]_vars

\* main's loops run; the callback thread runs if it exists.  Nobody makes the
\* user act or the session end.
Fairness ==
  /\ WF_vars(MenuHome) /\ WF_vars(MenuEdited) /\ WF_vars(LineTyped) /\ WF_vars(Hold)
  /\ WF_vars(exit_callback)
FairSpec == Spec /\ Fairness

-----------------------------------------------------------------------------
(* Correctness. *)

Words == Texts \cup {FirstWord(w[f]) : w \in ConfigFiles, f \in Kept}

TypeOK ==
  /\ WlanTypeOK
  /\ at \in {"menu", "osk", "init_net", "wlan", "connect", "handshake", "session",
             "hold", "exited"}
  /\ file \in ConfigFiles /\ cfg \in [Kept -> Words] /\ edited \subseteq Kept
  /\ sel \in 0 .. F_COUNT - 1
  /\ pad \subseteq Buttons /\ sample \subseteq Buttons /\ old \subseteq Buttons
  /\ caller \in {"none", "menu", "session"}
  /\ dialog \in {"NONE", "START", "INIT", "VISIBLE", "QUIT", "FINISHED"}
  /\ disp \in {"base", "second"} /\ shown \in {"base", "second"}
  /\ sock \in {"none", "open", "closed"}
  /\ lines \in 0 .. MaxLines /\ cb \in BOOLEAN

\* However many frames the dialog took and however often fields were edited, the
\* user sees what main prints from the menu to the handshake (main.c 396, osk.c
\* 133-140).
MenuVisible ==
  at \in {"menu", "init_net", "wlan", "connect", "handshake"} => shown = "base"

\* osk.h: "After the OSK closes, point the display back at the debug screen": so
\* in a session too, remote output is visible after a line was entered.
SessionVisible == at = "session" => shown = "base"

\* Every way out of main after the socket was opened closes it, HOME apart
\* (main.c 450-484).
SocketClosed == at = "hold" => sock # "open"

\* README, PSP usage: the command in pspssh.cfg is the one that is run.
CommandAsConfigured ==
  at = "session" /\ "cmd" \notin edited => cfg["cmd"] = file["cmd"]

\* main.c 10, "HOME always exits": holding HOME down ends the program.  Without the
\* callback thread it does so from the menu and the last screen, also when they are
\* reached later; only a dialog, the network or a session may then keep main for
\* ever (main.c 102-105, 120-122, 368).
Busy == {"osk", "init_net", "wlan", "connect", "handshake", "session"}
HomeExits ==
  <>[]("HOME" \in pad) => <>(at = "exited") \/ (~cb /\ <>[](at \in Busy))
=============================================================================
