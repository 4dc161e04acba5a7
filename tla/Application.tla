----------------------------- MODULE Application -----------------------------
(***************************************************************************)
(* A program around one object of the library, as the examples write it,   *)
(* with the console and the closing signal of ConsoleConfig               *)
(* (console_config.cpp): the main function, and the handler that runs in a  *)
(* thread of its own on Windows and, elsewhere, in the middle of whatever   *)
(* the main thread does.  What the calls of the object do is in the        *)
(* modules of the object: here they take its mutex and return.             *)
(***************************************************************************)
EXTENDS Naturals

CONSTANTS
  Builds,       \* which of the two implementations of ConsoleConfig
  Programs,     \* which of the four mains
  MaxPresses    \* bound: how often Ctrl+C is pressed

ASSUME ApplicationAssumption ==
  /\ Builds \subseteq {"windows", "posix"}
  /\ Programs \subseteq {"server", "client", "publisher", "subscriber"}
  /\ MaxPresses \in Nat

VARIABLES
  build, program,
  pc,           \* where main is
  console,      \* the terminal: whether it takes lines, whether it shows the cursor
  saved,        \* orig_in_mode_ and orig_cursor_info_, or orig_termios_
  installed,    \* whether the handler is
  callback,     \* exit_callback_
  closeFlag,    \* close_flag_
  mtx, objMtx,  \* who holds ConsoleConfig's mutex, and the object's
  object,       \* the object of the library
  pending,      \* signals whose handler has not ended
  hpc,          \* where the handler is
  presses,      \* how often the user has pressed Ctrl+C
  late,         \* history: this handler began after main's last restoreConsole
  missed        \* history: main was about to wait for what had just happened

settings == <<console, saved, installed>>
signals == <<closeFlag, pending, hpc, presses, late>>
vars == <<build, program, pc, settings, callback, mtx, objMtx, object, signals, missed>>

Interactive == program \in {"client", "publisher"}
Original == [lines |-> TRUE, cursor |-> TRUE]
Configuring == {"store", "install", "input", "cursor"}
Waiting == {"wait", "checked", "asleep", "woken"}
Over == {"ended", "killed", "aborted"}
Place == {"store", "install", "input", "cursor", "object", "assign", "assigned",
          "starting", "started", "failed", "restoreFirst", "enter",
          "wait", "checked", "asleep", "woken",
          "loop", "menu", "reading", "interrupted", "calling", "called",
          "stopping", "stopped", "restore", "destroy", "finish",
          "ended", "killed", "aborted"}

Init ==
  /\ build \in Builds /\ program \in Programs
  /\ pc = "store"
  /\ console = Original /\ saved = Original /\ installed = FALSE
  /\ callback = "none" /\ object = "none"
  /\ mtx = "none" /\ objMtx = "none"
  /\ closeFlag = FALSE /\ pending = 0 /\ hpc = "idle" /\ presses = 0
  /\ late = FALSE /\ missed = FALSE

(* The handler of the other build interrupts main until it ends.           *)
At(p) == pc = p /\ (build = "windows" \/ hpc = "idle") /\ hpc # "crashed"
Go(p) == pc' = p
-----------------------------------------------------------------------------
(* ConsoleConfig, as main calls it. *)

(* Mutant: the handler is installed last on Windows, too.                  *)
FollowingInstallLast(p) ==
  CASE p = "store" -> "cursor" [] p = "cursor" -> "input"
    [] p = "input" -> "install" [] OTHER -> "object"

(* The order of configureConsole, which differs between the builds.        *)
Following(p) ==
  IF build = "windows"
  THEN CASE p = "store" -> "install" [] p = "install" -> "input"
         [] p = "input" -> "cursor" [] OTHER -> "object"
  ELSE CASE p = "store" -> "cursor" [] p = "cursor" -> "input"
         [] p = "input" -> "install" [] OTHER -> "object"

(* A server and a subscriber hide the cursor and take no lines.            *)
ConfigureConsole ==
  \E p \in Configuring :
    /\ At(p) /\ Go(Following(p))
    /\ p = "store" => mtx = "none"
    /\ mtx' = IF Following(p) = "object" THEN "none" ELSE "main"
    /\ saved' = IF p = "store" THEN console ELSE saved
    /\ installed' = (installed \/ p = "install")
    /\ console' = CASE p = "input" -> [console EXCEPT !.lines = Interactive]
                    [] p = "cursor" -> [console EXCEPT !.cursor = Interactive]
                    [] OTHER -> console
    /\ UNCHANGED <<build, program, callback, objMtx, object, signals, missed>>

(* The assignment of a function object takes more than one step.           *)
SetExitCallback ==
  /\ \/ At("assign") /\ mtx = "none" /\ Go("assigned") /\ callback' = "torn" /\ mtx' = "main"
     \/ At("assigned") /\ Go("starting") /\ callback' = "set" /\ mtx' = "none"
  /\ UNCHANGED <<build, program, settings, objMtx, object, signals, missed>>

(* tcsetattr does not bring the cursor back.                               *)
Restored == [lines |-> saved.lines,
             cursor |-> IF build = "windows" THEN saved.cursor ELSE console.cursor]

RestoreConsole ==
  /\ \/ At("restoreFirst") /\ Go("enter")
     \/ At("restore") /\ Go("destroy")
  /\ mtx = "none"
  /\ console' = Restored
  /\ UNCHANGED <<build, program, saved, installed, callback, mtx, objMtx, object, signals, missed>>

(* The predicate is read, and then the wait begins: nothing keeps the      *)
(* handler, which does not take cv_mtx_, from coming in between.           *)
WaitForClose ==
  /\ \/ At("wait") /\ Go(IF ~closeFlag THEN "checked" ELSE IF Interactive THEN "restore" ELSE "stopping")
     \/ At("checked") /\ Go("asleep")
     \/ At("woken") /\ Go("wait")
  /\ UNCHANGED <<build, program, settings, callback, mtx, objMtx, object, signals, missed>>

SpuriousWake ==
  /\ At("asleep") /\ Go("woken")
  /\ UNCHANGED <<build, program, settings, callback, mtx, objMtx, object, signals, missed>>
-----------------------------------------------------------------------------
(* The mains. *)

(* Nothing catches what the constructor throws.                            *)
Construct ==
  /\ At("object")
  /\ \/ object' = "made" /\ Go(IF Interactive THEN "assign" ELSE "starting")
     \/ UNCHANGED object /\ Go("aborted")
  /\ UNCHANGED <<build, program, settings, callback, mtx, objMtx, signals, missed>>

(* startServer, startClient...; a call takes the object's mutex.           *)
Start ==
  /\ \/ At("starting") /\ objMtx = "none" /\ objMtx' = "main" /\ Go("started") /\ UNCHANGED object
     \/ At("started") /\ objMtx' = "none" /\ object' = "working"
        /\ Go(IF Interactive THEN "loop" ELSE "wait")
     \/ At("started") /\ objMtx' = "none" /\ UNCHANGED object /\ Go("failed")
  /\ UNCHANGED <<build, program, settings, callback, mtx, signals, missed>>

(* What follows a failed start differs.                                    *)
Failed ==
  /\ \/ At("failed") /\ Go(IF program = "server" THEN "restoreFirst" ELSE "enter")
     \/ At("enter") /\ Go(IF Interactive THEN "restore" ELSE "destroy")
  /\ UNCHANGED <<build, program, settings, callback, mtx, objMtx, object, signals, missed>>

(* The condition of the loop, and then the menu before the line is read.   *)
Loop ==
  /\ \/ At("loop") /\ Go(IF closeFlag THEN "restore" ELSE "menu")
     \/ At("menu") /\ Go("reading")
  /\ UNCHANGED <<build, program, settings, callback, mtx, objMtx, object, signals, missed>>

(* A line that parseCommand does not understand calls nothing.             *)
Parsed == {"calling", "loop"}

(* The user types exit, an auto_alive line, a command, or the end of file: *)
(* whatever calls of the object a line makes are one call here.            *)
Read ==
  /\ At("reading")
  /\ \/ Go("stopping")
     \/ program = "client" /\ pc' \in Parsed
     \/ pc' \in IF closeFlag THEN {"wait"} ELSE Parsed
     \/ Go("wait")
  /\ UNCHANGED <<build, program, settings, callback, mtx, objMtx, object, signals, missed>>

(* The closing signal ends the read as the end of file does.               *)
EndRead ==
  /\ At("interrupted") /\ Go("wait")
  /\ UNCHANGED <<build, program, settings, callback, mtx, objMtx, object, signals, missed>>

Call ==
  /\ \/ At("calling") /\ objMtx = "none" /\ objMtx' = "main" /\ Go("called")
     \/ At("called") /\ objMtx' = "none" /\ Go("loop")
  /\ UNCHANGED <<build, program, settings, callback, mtx, object, signals, missed>>

(* stopServer, stopClient...: nothing if the flag says it does not work.   *)
Stop ==
  /\ \/ At("stopping") /\ object # "working" /\ Go("restore") /\ UNCHANGED <<objMtx, object>>
     \/ At("stopping") /\ object = "working" /\ objMtx = "none" /\ objMtx' = "main"
        /\ Go("stopped") /\ UNCHANGED object
     \/ At("stopped") /\ objMtx' = "none" /\ object' = "idle" /\ Go("restore")
  /\ UNCHANGED <<build, program, settings, callback, mtx, signals, missed>>

(* The object goes when main returns.                                      *)
Destroy ==
  /\ At("destroy") /\ Go("finish")
  /\ object' = "gone"
  /\ UNCHANGED <<build, program, settings, callback, mtx, objMtx, signals, missed>>

(* The destructor of ConsoleConfig, which is static.                       *)
Finish ==
  /\ At("finish") /\ mtx = "none" /\ Go("ended")
  /\ console' = Restored
  /\ UNCHANGED <<build, program, saved, installed, callback, mtx, objMtx, object, signals, missed>>
-----------------------------------------------------------------------------
(* The signal and its handler. *)

(* Without a handler the signal ends the process.  Windows makes a thread  *)
(* for each; elsewhere a signal that is pending is not queued again.       *)
Press ==
  /\ presses < MaxPresses /\ pc \notin Over /\ hpc \notin {"crashed", "stuck"}
  /\ presses' = presses + 1
  /\ IF installed
     THEN /\ Go(IF pc = "reading" THEN "interrupted" ELSE pc)
          /\ pending' = IF build = "windows" THEN pending + 1 ELSE 1
     ELSE Go("killed") /\ UNCHANGED pending
  /\ UNCHANGED <<build, program, settings, callback, mtx, objMtx, object,
                 closeFlag, hpc, late, missed>>

(* What the handler finds in exit_callback_.                               *)
Found ==
  CASE callback = "none" -> {"notify"}
    [] callback = "set" -> {"callback"}
    [] callback = "torn" -> {"notify", "callback", "crashed"}

(* Mutant: the handler does not hold the mutex on Windows either.          *)
HandleUnlocked ==
  /\ pending > 0 /\ hpc = "idle" /\ pc \notin Over
  /\ closeFlag' = TRUE
  /\ hpc' \in Found
  /\ late' = (pc \in {"destroy", "finish"})
  /\ missed' = (missed \/ pc \in {"menu", "reading"})
  /\ UNCHANGED <<build, program, pc, settings, callback, mtx, objMtx, object, pending, presses>>

(* Mutant: the handler runs without a signal.                              *)
HandleUnasked ==
  /\ hpc = "idle" /\ pc \notin Over
  /\ IF build = "windows" THEN mtx = "none" /\ mtx' = "handler" ELSE UNCHANGED mtx
  /\ closeFlag' = TRUE
  /\ hpc' \in Found
  /\ late' = (pc \in {"destroy", "finish"})
  /\ missed' = (missed \/ pc \in {"menu", "reading"})
  /\ UNCHANGED <<build, program, pc, settings, callback, objMtx, object, pending, presses>>

Handle ==
  /\ pending > 0 /\ hpc = "idle" /\ pc \notin Over
  /\ IF build = "windows" THEN mtx = "none" /\ mtx' = "handler" ELSE UNCHANGED mtx
  /\ closeFlag' = TRUE
  /\ hpc' \in Found
  /\ late' = (pc \in {"destroy", "finish"})
  /\ missed' = (missed \/ pc \in {"menu", "reading"})
  /\ UNCHANGED <<build, program, pc, settings, callback, objMtx, object, pending, presses>>

(* The exit callback stops the object, if it works.  A handler that        *)
(* interrupts main waits for ever for a mutex that main holds.             *)
RunCallback ==
  /\ hpc = "callback" /\ pc \notin Over
  /\ \/ object = "gone" /\ hpc' = "crashed" /\ UNCHANGED objMtx
     \/ object \notin {"working", "gone"} /\ hpc' = "notify" /\ UNCHANGED objMtx
     \/ object = "working" /\ objMtx = "none" /\ hpc' = "stopping" /\ objMtx' = "handler"
     \/ object = "working" /\ objMtx = "main" /\ build = "posix" /\ hpc' = "stuck" /\ UNCHANGED objMtx
  /\ UNCHANGED <<build, program, pc, settings, callback, mtx, object,
                 closeFlag, pending, presses, late, missed>>

EndCallback ==
  /\ hpc = "stopping" /\ pc \notin Over
  /\ \/ object = "gone" /\ hpc' = "crashed" /\ UNCHANGED <<object, objMtx>>
     \/ object # "gone" /\ hpc' = "notify" /\ object' = "idle" /\ objMtx' = "none"
  /\ UNCHANGED <<build, program, pc, settings, callback, mtx,
                 closeFlag, pending, presses, late, missed>>

(* Mutant: nobody is notified.                                             *)
NotifyNobody ==
  /\ hpc = "notify" /\ pc \notin Over
  /\ hpc' = "idle" /\ pending' = pending - 1
  /\ mtx' = IF build = "windows" THEN "none" ELSE mtx
  /\ UNCHANGED <<build, program, pc, settings, callback, objMtx, object,
                 closeFlag, presses, late, missed>>

Notify ==
  /\ hpc = "notify" /\ pc \notin Over
  /\ hpc' = "idle" /\ pending' = pending - 1
  /\ Go(IF pc = "asleep" THEN "woken" ELSE pc)
  /\ missed' = (missed \/ pc = "checked")
  /\ mtx' = IF build = "windows" THEN "none" ELSE mtx
  /\ UNCHANGED <<build, program, settings, callback, objMtx, object,
                 closeFlag, presses, late>>

Main ==
  \/ ConfigureConsole \/ SetExitCallback \/ RestoreConsole \/ WaitForClose
  \/ Construct \/ Start \/ Failed \/ Loop \/ EndRead \/ Call \/ Stop \/ Destroy \/ Finish

Handler == Handle \/ RunCallback \/ EndCallback \/ Notify

Next == Main \/ Handler \/ Read \/ SpuriousWake \/ Press

(* Threads run, and calls of the object return; the user need not type.    *)
Spec == Init /\ [][Next]_vars /\ WF_vars(Main) /\ WF_vars(Handler)
-----------------------------------------------------------------------------
TypeOK ==
  /\ build \in Builds /\ program \in Programs /\ pc \in Place
  /\ console \in [lines : BOOLEAN, cursor : BOOLEAN]
  /\ saved \in [lines : BOOLEAN, cursor : BOOLEAN]
  /\ callback \in {"none", "torn", "set"}
  /\ object \in {"none", "made", "working", "idle", "gone"}
  /\ mtx \in {"none", "main", "handler"} /\ objMtx \in {"none", "main", "handler"}
  /\ pending \in 0 .. MaxPresses /\ presses \in 0 .. MaxPresses
  /\ hpc \in {"idle", "callback", "stopping", "notify", "stuck", "crashed"}
  /\ installed \in BOOLEAN /\ closeFlag \in BOOLEAN
  /\ late \in BOOLEAN /\ missed \in BOOLEAN

(***************************************************************************)
(* The exit callback has a reference to an object of main, which may leave *)
(* its loop as soon as the flag is set, before the callback has begun.  A  *)
(* callback finds the object gone only if the signal came after main had   *)
(* restored the console: restoreConsole waits for the handler.             *)
(***************************************************************************)
CallbackInTime ==
  hpc \in {"callback", "stopping"} /\ object = "gone" => late

(***************************************************************************)
(* However the program ends by itself, also after a failed start which     *)
(* does not restore the console, the terminal takes lines again, and on    *)
(* Windows all is as before.  There, too, a signal that comes before the   *)
(* handler is installed ends the program before it has changed anything.   *)
(***************************************************************************)
ConsoleRestored ==
  /\ pc = "ended" => console.lines
  /\ pc \in {"ended", "killed"} /\ build = "windows" => console = Original

(***************************************************************************)
(* Once the handler has set the flag the program ends, or asks for Enter   *)
(* after a failed start, unless the handler ran just before a wait that    *)
(* main had decided on (waitForClose and the read of a line), or it cannot  *)
(* end: it interrupted a call of the object, or found the object gone, or   *)
(* exit_callback_ half written.                                            *)
(***************************************************************************)
CloseEnds ==
  closeFlag ~> pc \in Over \cup {"enter"} \/ missed \/ hpc \in {"stuck", "crashed"}
=============================================================================
