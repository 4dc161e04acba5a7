-------------------------- MODULE ApplicationProofs --------------------------
(* That a program restores its console and that its exit callback finds     *)
(* its object, however often the user presses Ctrl+C.                       *)
EXTENDS Application, TLAPS

(* Who holds ConsoleConfig's mutex, which tells where main and the handler  *)
(* of Windows are; and the signals, each of which the user has sent.       *)
Mutex ==
  /\ mtx = "main" => pc \in {"install", "input", "cursor", "assigned", "killed"}
  /\ pc \in {"install", "input", "cursor", "assigned"} => mtx = "main"
  /\ build = "windows" => (mtx = "handler" <=> hpc # "idle")
  /\ build = "posix" => mtx # "handler"
  /\ pending <= presses /\ (hpc # "idle" => pending > 0)

(* What the handler needs for a callback, and when the object is gone.      *)
Reach ==
  /\ pc \notin Configuring \cup {"killed"} \/ (build = "windows" /\ pc \in {"input", "cursor"}) => installed
  /\ callback # "none" \/ pc = "assign" => Interactive
  /\ callback # "none" \/ object # "none" => installed
  /\ callback = "torn" <=> pc = "assigned"
  /\ hpc \in {"callback", "stopping"} => callback # "none"
  /\ hpc \in {"callback", "stopping"} /\ pc \in {"destroy", "finish"} => late
  /\ object = "gone" => pc \in {"finish", "ended"}
  /\ pc = "ended" => hpc \notin {"callback", "stopping"}

(* What was saved is what there was, and Windows installs its handler first. *)
Console ==
  /\ saved = Original
  /\ pc = "store" => console = Original
  /\ build = "windows" /\ (~installed \/ pc \in {"store", "install"}) => console = Original
  /\ build = "windows" => (~installed => pc \in {"store", "install", "killed"})
  /\ pc = "killed" => ~installed

Inv == TypeOK /\ Mutex /\ Reach /\ Console /\ ConsoleRestored
-----------------------------------------------------------------------------
LEMMA TypeStep == TypeOK /\ Mutex /\ [Next]_vars => TypeOK'
<1> SUFFICES ASSUME TypeOK, Mutex, [Next]_vars PROVE TypeOK'
  OBVIOUS
<1> USE ApplicationAssumption DEF TypeOK, Place, Configuring, Waiting, Over, settings, signals
<1>1. CASE ConfigureConsole
  <2> PICK p \in Configuring : ConfigureConsole!(p)
    BY <1>1 DEF ConfigureConsole
  <2>1. pc' = Following(p) /\ Following(p) \in Place
    BY DEF At, Go, Following
  <2>2. console' \in [lines : BOOLEAN, cursor : BOOLEAN] /\ saved' \in [lines : BOOLEAN, cursor : BOOLEAN]
    <3>1. Interactive \in BOOLEAN
      BY DEF Interactive
    <3>2. CASE p = "input"
      <4>1. console' = [console EXCEPT !.lines = Interactive]
        BY <3>2
      <4> QED BY <3>1, <4>1
    <3>3. CASE p = "cursor"
      <4>1. console' = [console EXCEPT !.cursor = Interactive]
        BY <3>3
      <4> QED BY <3>1, <4>1
    <3>4. CASE p \notin {"input", "cursor"}
      BY <3>4
    <3> QED BY <3>2, <3>3, <3>4
  <2>3. installed' \in BOOLEAN /\ mtx' \in {"none", "main", "handler"}
    OBVIOUS
  <2> QED BY <2>1, <2>2, <2>3
<1>2. CASE SetExitCallback
  BY <1>2 DEF SetExitCallback, At, Go
<1>3. CASE RestoreConsole
  BY <1>3 DEF RestoreConsole, At, Go, Restored
<1>4. CASE WaitForClose
  BY <1>4 DEF WaitForClose, At, Go
<1>5. CASE Construct
  BY <1>5 DEF Construct, At, Go
<1>6. CASE Start
  BY <1>6 DEF Start, At, Go
<1>7. CASE Failed
  BY <1>7 DEF Failed, At, Go
<1>8. CASE Loop
  BY <1>8 DEF Loop, At, Go
<1>9. CASE EndRead
  BY <1>9 DEF EndRead, At, Go
<1>10. CASE Call
  BY <1>10 DEF Call, At, Go
<1>11. CASE Stop
  BY <1>11 DEF Stop, At, Go
<1>12. CASE Destroy
  BY <1>12 DEF Destroy, At, Go
<1>13. CASE Finish
  BY <1>13 DEF Finish, At, Go, Restored
<1>14. CASE Handle
  BY <1>14 DEF Handle, Found
<1>15. CASE RunCallback
  BY <1>15 DEF RunCallback
<1>16. CASE EndCallback
  BY <1>16 DEF EndCallback
<1>17. CASE Notify
  BY <1>17 DEF Notify, Go, Mutex
<1>18. CASE Read
  BY <1>18 DEF Read, Parsed, At, Go
<1>19. CASE SpuriousWake
  BY <1>19 DEF SpuriousWake, At, Go
<1>20. CASE Press
  BY <1>20 DEF Press, Go, Mutex
<1>21. CASE UNCHANGED vars
  BY <1>21 DEF vars
<1> QED BY <1>1, <1>2, <1>3, <1>4, <1>5, <1>6, <1>7, <1>8, <1>9, <1>10, <1>11, <1>12, <1>13, <1>14, <1>15, <1>16, <1>17, <1>18, <1>19, <1>20, <1>21 DEF Next, Main, Handler

LEMMA MutexStep == TypeOK /\ Mutex /\ [Next]_vars => Mutex'
<1> SUFFICES ASSUME TypeOK, Mutex, [Next]_vars PROVE Mutex'
  OBVIOUS
<1> USE ApplicationAssumption DEF TypeOK, Mutex, Place, Configuring, Waiting, Over, settings, signals
<1>1. CASE ConfigureConsole
  BY <1>1 DEF ConfigureConsole, At, Go, Following
<1>2. CASE SetExitCallback
  BY <1>2 DEF SetExitCallback, At, Go
<1>3. CASE RestoreConsole
  BY <1>3 DEF RestoreConsole, At, Go, Restored
<1>4. CASE WaitForClose
  BY <1>4 DEF WaitForClose, At, Go
<1>5. CASE Construct
  BY <1>5 DEF Construct, At, Go
<1>6. CASE Start
  BY <1>6 DEF Start, At, Go
<1>7. CASE Failed
  BY <1>7 DEF Failed, At, Go
<1>8. CASE Loop
  BY <1>8 DEF Loop, At, Go
<1>9. CASE EndRead
  BY <1>9 DEF EndRead, At, Go
<1>10. CASE Call
  BY <1>10 DEF Call, At, Go
<1>11. CASE Stop
  BY <1>11 DEF Stop, At, Go
<1>12. CASE Destroy
  BY <1>12 DEF Destroy, At, Go
<1>13. CASE Finish
  BY <1>13 DEF Finish, At, Go, Restored
<1>14. CASE Handle
  BY <1>14 DEF Handle, Found
<1>15. CASE RunCallback
  BY <1>15 DEF RunCallback
<1>16. CASE EndCallback
  BY <1>16 DEF EndCallback
<1>17. CASE Notify
  BY <1>17 DEF Notify, Go
<1>18. CASE Read
  BY <1>18 DEF Read, Parsed, At, Go
<1>19. CASE SpuriousWake
  BY <1>19 DEF SpuriousWake, At, Go
<1>20. CASE Press
  BY <1>20 DEF Press, Go
<1>21. CASE UNCHANGED vars
  BY <1>21 DEF vars
<1> QED BY <1>1, <1>2, <1>3, <1>4, <1>5, <1>6, <1>7, <1>8, <1>9, <1>10, <1>11, <1>12, <1>13, <1>14, <1>15, <1>16, <1>17, <1>18, <1>19, <1>20, <1>21 DEF Next, Main, Handler

LEMMA ReachStep == TypeOK /\ Mutex /\ Reach /\ [Next]_vars => Reach'
<1> SUFFICES ASSUME TypeOK, Mutex, Reach, [Next]_vars PROVE Reach'
  OBVIOUS
<1> USE ApplicationAssumption DEF TypeOK, Mutex, Reach, Interactive, Place, Configuring, Over, settings, signals
<1>1. CASE ConfigureConsole
  BY <1>1 DEF ConfigureConsole, At, Go, Following
<1>2. CASE SetExitCallback
  BY <1>2 DEF SetExitCallback, At, Go
<1>3. CASE RestoreConsole
  BY <1>3 DEF RestoreConsole, At, Go, Restored
<1>4. CASE WaitForClose
  BY <1>4 DEF WaitForClose, At, Go
<1>5. CASE Construct
  BY <1>5 DEF Construct, At, Go
<1>6. CASE Start
  BY <1>6 DEF Start, At, Go
<1>7. CASE Failed
  BY <1>7 DEF Failed, At, Go
<1>8. CASE Loop
  BY <1>8 DEF Loop, At, Go
<1>9. CASE EndRead
  BY <1>9 DEF EndRead, At, Go
<1>10. CASE Call
  BY <1>10 DEF Call, At, Go
<1>11. CASE Stop
  BY <1>11 DEF Stop, At, Go
<1>12. CASE Destroy
  BY <1>12 DEF Destroy, At, Go
<1>13. CASE Finish
  BY <1>13 DEF Finish, At, Go, Restored
<1>14. CASE Handle
  BY <1>14 DEF Handle, Found
<1>15. CASE RunCallback
  BY <1>15 DEF RunCallback
<1>16. CASE EndCallback
  BY <1>16 DEF EndCallback
<1>17. CASE Notify
  BY <1>17 DEF Notify, Go
<1>18. CASE Read
  BY <1>18 DEF Read, Parsed, At, Go
<1>19. CASE SpuriousWake
  BY <1>19 DEF SpuriousWake, At, Go
<1>20. CASE Press
  <2>1. UNCHANGED <<build, program, installed, callback, object, hpc, late>>
    BY <1>20 DEF Press
  <2>2. CASE installed
    <3>1. pc' = IF pc = "reading" THEN "interrupted" ELSE pc
      BY <1>20, <2>2 DEF Press, Go
    <3> QED BY <2>1, <2>2, <3>1
  <2>3. CASE ~installed
    <3>1. pc' = "killed" /\ pc \notin Over
      BY <1>20, <2>3 DEF Press, Go
    <3> QED BY <2>1, <2>3, <3>1
  <2> QED BY <2>2, <2>3
<1>21. CASE UNCHANGED vars
  BY <1>21 DEF vars
<1> QED BY <1>1, <1>2, <1>3, <1>4, <1>5, <1>6, <1>7, <1>8, <1>9, <1>10, <1>11, <1>12, <1>13, <1>14, <1>15, <1>16, <1>17, <1>18, <1>19, <1>20, <1>21 DEF Next, Main, Handler

LEMMA ConsoleStep == TypeOK /\ Console /\ ConsoleRestored /\ [Next]_vars => Console' /\ ConsoleRestored'
<1> SUFFICES ASSUME TypeOK, Console, ConsoleRestored, [Next]_vars PROVE Console' /\ ConsoleRestored'
  OBVIOUS
<1> USE ApplicationAssumption DEF TypeOK, Console, ConsoleRestored, Original, Place, Configuring, settings, signals
<1>1. CASE ConfigureConsole
  BY <1>1 DEF ConfigureConsole, At, Go, Following
<1>2. CASE SetExitCallback
  BY <1>2 DEF SetExitCallback, At, Go
<1>3. CASE RestoreConsole
  BY <1>3 DEF RestoreConsole, At, Go, Restored
<1>4. CASE WaitForClose
  BY <1>4 DEF WaitForClose, At, Go
<1>5. CASE Construct
  BY <1>5 DEF Construct, At, Go
<1>6. CASE Start
  BY <1>6 DEF Start, At, Go
<1>7. CASE Failed
  BY <1>7 DEF Failed, At, Go
<1>8. CASE Loop
  BY <1>8 DEF Loop, At, Go
<1>9. CASE EndRead
  BY <1>9 DEF EndRead, At, Go
<1>10. CASE Call
  BY <1>10 DEF Call, At, Go
<1>11. CASE Stop
  BY <1>11 DEF Stop, At, Go
<1>12. CASE Destroy
  BY <1>12 DEF Destroy, At, Go
<1>13. CASE Finish
  BY <1>13 DEF Finish, At, Go, Restored
<1>14. CASE Handle
  BY <1>14 DEF Handle, Found
<1>15. CASE RunCallback
  BY <1>15 DEF RunCallback
<1>16. CASE EndCallback
  BY <1>16 DEF EndCallback
<1>17. CASE Notify
  BY <1>17 DEF Notify, Go
<1>18. CASE Read
  BY <1>18 DEF Read, Parsed, At, Go
<1>19. CASE SpuriousWake
  BY <1>19 DEF SpuriousWake, At, Go
<1>20. CASE Press
  BY <1>20 DEF Press, Go
<1>21. CASE UNCHANGED vars
  BY <1>21 DEF vars
<1> QED BY <1>1, <1>2, <1>3, <1>4, <1>5, <1>6, <1>7, <1>8, <1>9, <1>10, <1>11, <1>12, <1>13, <1>14, <1>15, <1>16, <1>17, <1>18, <1>19, <1>20, <1>21 DEF Next, Main, Handler
-----------------------------------------------------------------------------
LEMMA InitInv == Init => Inv
<1> SUFFICES ASSUME Init PROVE Inv
  OBVIOUS
<1>1. TypeOK
  <2>1. console \in [lines : BOOLEAN, cursor : BOOLEAN] /\ saved \in [lines : BOOLEAN, cursor : BOOLEAN]
    BY DEF Init, Original
  <2>2. build \in Builds /\ program \in Programs /\ pc \in Place
    BY DEF Init, Place
  <2>3. pending \in 0 .. MaxPresses /\ presses \in 0 .. MaxPresses
    BY ApplicationAssumption DEF Init
  <2> QED BY <2>1, <2>2, <2>3 DEF Init, TypeOK
<1>2. Mutex /\ Reach
  BY ApplicationAssumption DEF Init, Mutex, Reach, Configuring
<1>3. Console /\ ConsoleRestored
  BY DEF Init, Console, ConsoleRestored
<1> QED BY <1>1, <1>2, <1>3 DEF Inv

LEMMA InvStep == Inv /\ [Next]_vars => Inv'
BY TypeStep, MutexStep, ReachStep, ConsoleStep DEF Inv

LEMMA Invariance == Spec => []Inv
BY InitInv, InvStep, PTL DEF Spec

(* Main and the handler leave every variable in its type.                  *)
THEOREM TypeCorrect == Spec => []TypeOK
<1>1. Inv => TypeOK
  BY DEF Inv
<1> QED BY Invariance, <1>1, PTL

(* An exit callback finds the object gone only after main restored the      *)
(* console, with any number of signals and on both systems.                *)
THEOREM CallbackFindsObject == Spec => []CallbackInTime
<1>1. Inv => CallbackInTime
  BY DEF Inv, Reach, CallbackInTime
<1> QED BY Invariance, <1>1, PTL

(* A program that ends leaves the terminal as ConsoleRestored says.         *)
THEOREM ConsoleIsRestored == Spec => []ConsoleRestored
<1>1. Inv => ConsoleRestored
  BY DEF Inv
<1> QED BY Invariance, <1>1, PTL
-----------------------------------------------------------------------------
(* What is left to wait for once the flag is set: main asleep with the flag *)
(* set is main that the running handler still has to notify, and main at a *)
(* line that it began to read before the flag was set; the rest is missed.  *)
WakeUps ==
  /\ closeFlag /\ pc \in {"checked", "asleep"} => hpc # "idle" \/ missed
  /\ closeFlag /\ pc \in {"menu", "reading"} => missed

(* Who holds the object's mutex.                                            *)
ObjectMutex ==
  /\ objMtx = "main" <=> pc \in {"started", "called", "stopped"}
  /\ hpc = "stopping" => objMtx = "handler"
  /\ objMtx = "handler" => hpc \in {"stopping", "crashed"}
  /\ hpc = "stuck" => build = "posix" /\ objMtx = "main"

LEMMA WakeUpsStep == TypeOK /\ WakeUps /\ [Next]_vars => WakeUps'
<1> SUFFICES ASSUME TypeOK, WakeUps, [Next]_vars PROVE WakeUps'
  OBVIOUS
<1> USE DEF WakeUps, TypeOK, Place, Configuring, Over, settings, signals
<1>1. CASE ConfigureConsole
  BY <1>1 DEF ConfigureConsole, At, Go, Following
<1>2. CASE SetExitCallback
  BY <1>2 DEF SetExitCallback, At, Go
<1>3. CASE RestoreConsole
  BY <1>3 DEF RestoreConsole, At, Go
<1>4. CASE WaitForClose
  BY <1>4 DEF WaitForClose, At, Go
<1>5. CASE Construct
  BY <1>5 DEF Construct, At, Go
<1>6. CASE Start
  BY <1>6 DEF Start, At, Go
<1>7. CASE Failed
  BY <1>7 DEF Failed, At, Go
<1>8. CASE Loop
  BY <1>8 DEF Loop, At, Go
<1>9. CASE EndRead
  BY <1>9 DEF EndRead, At, Go
<1>10. CASE Call
  BY <1>10 DEF Call, At, Go
<1>11. CASE Stop
  BY <1>11 DEF Stop, At, Go
<1>12. CASE Destroy
  BY <1>12 DEF Destroy, At, Go
<1>13. CASE Finish
  BY <1>13 DEF Finish, At, Go
<1>14. CASE Handle
  BY <1>14 DEF Handle, Found
<1>15. CASE RunCallback
  BY <1>15 DEF RunCallback
<1>16. CASE EndCallback
  BY <1>16 DEF EndCallback
<1>17. CASE Notify
  BY <1>17 DEF Notify, Go
<1>18. CASE Read
  BY <1>18 DEF Read, Parsed, At, Go
<1>19. CASE SpuriousWake
  BY <1>19 DEF SpuriousWake, At, Go
<1>20. CASE Press
  BY <1>20 DEF Press, Go
<1>21. CASE UNCHANGED vars
  BY <1>21 DEF vars
<1> QED BY <1>1, <1>2, <1>3, <1>4, <1>5, <1>6, <1>7, <1>8, <1>9, <1>10, <1>11, <1>12, <1>13, <1>14, <1>15, <1>16, <1>17, <1>18, <1>19, <1>20, <1>21 DEF Next, Main, Handler

LEMMA ObjectMutexStep == TypeOK /\ Mutex /\ Reach /\ ObjectMutex /\ [Next]_vars => ObjectMutex'
<1> SUFFICES ASSUME TypeOK, Mutex, Reach, ObjectMutex, [Next]_vars PROVE ObjectMutex'
  OBVIOUS
<1> USE DEF ObjectMutex, Mutex, Reach, TypeOK, Place, Configuring, Over, settings, signals
<1>1. CASE ConfigureConsole
  BY <1>1 DEF ConfigureConsole, At, Go, Following
<1>2. CASE SetExitCallback
  BY <1>2 DEF SetExitCallback, At, Go
<1>3. CASE RestoreConsole
  BY <1>3 DEF RestoreConsole, At, Go
<1>4. CASE WaitForClose
  BY <1>4 DEF WaitForClose, At, Go
<1>5. CASE Construct
  BY <1>5 DEF Construct, At, Go
<1>6. CASE Start
  BY <1>6 DEF Start, At, Go
<1>7. CASE Failed
  BY <1>7 DEF Failed, At, Go
<1>8. CASE Loop
  BY <1>8 DEF Loop, At, Go
<1>9. CASE EndRead
  BY <1>9 DEF EndRead, At, Go
<1>10. CASE Call
  BY <1>10 DEF Call, At, Go
<1>11. CASE Stop
  BY <1>11 DEF Stop, At, Go
<1>12. CASE Destroy
  BY <1>12 DEF Destroy, At, Go
<1>13. CASE Finish
  BY <1>13 DEF Finish, At, Go
<1>14. CASE Handle
  BY <1>14 DEF Handle, Found
<1>15. CASE RunCallback
  BY <1>15 DEF RunCallback
<1>16. CASE EndCallback
  BY <1>16 DEF EndCallback
<1>17. CASE Notify
  BY <1>17 DEF Notify, Go
<1>18. CASE Read
  BY <1>18 DEF Read, Parsed, At, Go
<1>19. CASE SpuriousWake
  BY <1>19 DEF SpuriousWake, At, Go
<1>20. CASE Press
  BY <1>20 DEF Press, Go
<1>21. CASE UNCHANGED vars
  BY <1>21 DEF vars
<1> QED BY <1>1, <1>2, <1>3, <1>4, <1>5, <1>6, <1>7, <1>8, <1>9, <1>10, <1>11, <1>12, <1>13, <1>14, <1>15, <1>16, <1>17, <1>18, <1>19, <1>20, <1>21 DEF Next, Main, Handler

(* What a handler that crashed had found.                                   *)
CrashedOn ==
  hpc = "crashed" => \/ build = "posix" /\ callback = "torn"
                     \/ object = "gone" /\ late

LEMMA CrashedOnStep == TypeOK /\ Mutex /\ Reach /\ CrashedOn /\ [Next]_vars => CrashedOn'
<1> SUFFICES ASSUME TypeOK, Mutex, Reach, CrashedOn, [Next]_vars PROVE CrashedOn'
  OBVIOUS
<1> USE ApplicationAssumption DEF CrashedOn, Mutex, Reach, TypeOK, Place, Configuring, Over, settings, signals
<1>1. CASE ConfigureConsole
  BY <1>1 DEF ConfigureConsole, At, Go, Following
<1>2. CASE SetExitCallback
  BY <1>2 DEF SetExitCallback, At, Go
<1>3. CASE RestoreConsole
  BY <1>3 DEF RestoreConsole, At, Go
<1>4. CASE WaitForClose
  BY <1>4 DEF WaitForClose, At, Go
<1>5. CASE Construct
  BY <1>5 DEF Construct, At, Go
<1>6. CASE Start
  BY <1>6 DEF Start, At, Go
<1>7. CASE Failed
  BY <1>7 DEF Failed, At, Go
<1>8. CASE Loop
  BY <1>8 DEF Loop, At, Go
<1>9. CASE EndRead
  BY <1>9 DEF EndRead, At, Go
<1>10. CASE Call
  BY <1>10 DEF Call, At, Go
<1>11. CASE Stop
  BY <1>11 DEF Stop, At, Go
<1>12. CASE Destroy
  BY <1>12 DEF Destroy, At, Go
<1>13. CASE Finish
  BY <1>13 DEF Finish, At, Go
<1>14. CASE Handle
  BY <1>14 DEF Handle, Found
<1>15. CASE RunCallback
  BY <1>15 DEF RunCallback
<1>16. CASE EndCallback
  BY <1>16 DEF EndCallback
<1>17. CASE Notify
  BY <1>17 DEF Notify, Go
<1>18. CASE Read
  BY <1>18 DEF Read, Parsed, At, Go
<1>19. CASE SpuriousWake
  BY <1>19 DEF SpuriousWake, At, Go
<1>20. CASE Press
  BY <1>20 DEF Press, Go
<1>21. CASE UNCHANGED vars
  BY <1>21 DEF vars
<1> QED BY <1>1, <1>2, <1>3, <1>4, <1>5, <1>6, <1>7, <1>8, <1>9, <1>10, <1>11, <1>12, <1>13, <1>14, <1>15, <1>16, <1>17, <1>18, <1>19, <1>20, <1>21 DEF Next, Main, Handler

LEMMA HandlerInvariance == Spec => [](Inv /\ WakeUps /\ ObjectMutex /\ CrashedOn)
<1>1. Init => WakeUps /\ ObjectMutex /\ CrashedOn
  BY DEF Init, WakeUps, ObjectMutex, CrashedOn
<1>2. Inv /\ WakeUps /\ ObjectMutex /\ CrashedOn /\ [Next]_vars => (Inv /\ WakeUps /\ ObjectMutex /\ CrashedOn)'
  BY InvStep, WakeUpsStep, ObjectMutexStep, CrashedOnStep DEF Inv
<1> QED BY InitInv, <1>1, <1>2, PTL DEF Spec

(* The two ways of a handler never to end, as CloseEnds lists them: it      *)
(* interrupted a call of the object, or it called what was half written or  *)
(* gone.  Neither happens on Windows before main restored the console.      *)
HandlerEnds ==
  /\ hpc = "stuck" => build = "posix" /\ pc \in {"started", "called", "stopped"}
  /\ hpc = "crashed" => \/ build = "posix" /\ pc = "assigned"
                        \/ object = "gone" /\ late

(* Of the two mutexes main never holds one while it waits for the other, so *)
(* a handler of Windows, which holds ConsoleConfig's and waits for the      *)
(* object's, waits for a call that ends by itself.                          *)
NoCircularWait ==
  /\ mtx = "main" => objMtx # "main" /\ pc \notin {"starting", "calling", "stopping"}
  /\ objMtx = "main" => mtx # "main" /\ pc \in {"started", "called", "stopped"}
  /\ objMtx = "handler" => hpc \in {"stopping", "crashed"}

(* Once the flag is set main sleeps only while a handler runs that still    *)
(* has to notify it, or a line is read only that was begun before: for any *)
(* number of signals no wakeup is lost but those that missed records.       *)
THEOREM CloseIsNoticed == Spec => []WakeUps
BY HandlerInvariance, PTL

(* A handler is stuck or crashed only for the reasons that CloseEnds lists. *)
THEOREM HandlerIsStuckOrCrashed == Spec => []HandlerEnds
<1>1. Inv /\ ObjectMutex /\ CrashedOn => HandlerEnds
  BY DEF Inv, Reach, ObjectMutex, CrashedOn, HandlerEnds
<1> QED BY HandlerInvariance, <1>1, PTL

(* The console's mutex and the object's are never waited for in a circle.   *)
THEOREM MutexesInOrder == Spec => []NoCircularWait
<1>1. Inv /\ ObjectMutex => NoCircularWait
  BY DEF Inv, Mutex, ObjectMutex, NoCircularWait, Configuring
<1> QED BY HandlerInvariance, <1>1, PTL
=============================================================================
