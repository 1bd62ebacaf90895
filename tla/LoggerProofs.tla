---------------------------- MODULE LoggerProofs -----------------------------
(* Proofs about the logger: its types, and, for a scheduler that is Prompt,   *)
(* that of all the threads that notice the end of an interval one rotates,    *)
(* so that no file is renamed over another and every line is where it should  *)
(* be.  The clock may run for ever so long and any number of threads log.     *)
EXTENDS Logger, TLAPS

-----------------------------------------------------------------------------
(* Division by a number that is not 0. *)
LEMMA DivBounds ==
    ASSUME NEW a \in Nat, NEW b \in Nat \ {0}
    PROVE  /\ a \div b \in Nat
           /\ b * (a \div b) <= a
           /\ a < b * (a \div b) + b
  <1>1. /\ a = (b * (a \div b)) + (a % b)
        /\ a % b \in 0 .. b - 1
        /\ a \div b \in Int
    OBVIOUS
  <1>2. b * (a \div b) \in Int
    BY <1>1
  <1>3. a \div b >= 0
    BY <1>1
  <1> QED
    BY <1>1, <1>2, <1>3

LEMMA MulLess ==
    ASSUME NEW b \in Nat \ {0}, NEW p \in Int, NEW q \in Int, p < q
    PROVE  b * p + b <= b * q
  OBVIOUS

LEMMA DivUnique ==
    ASSUME NEW a \in Nat, NEW b \in Nat \ {0}, NEW q \in Int, b * q <= a, a < b * q + b
    PROVE  a \div b = q
  <1> DEFINE p == a \div b
  <1>1. p \in Nat /\ b * p <= a /\ a < b * p + b
    BY DivBounds
  <1> HIDE DEF p
  <1>2. b * p \in Int /\ b * q \in Int
    BY <1>1
  <1>3. (p < q => b * p + b <= b * q) /\ (q < p => b * q + b <= b * p)
    BY <1>1, MulLess
  <1> QED
    BY <1>1, <1>2, <1>3 DEF p

LEMMA DivMonotone ==
    ASSUME NEW a \in Nat, NEW c \in Nat, NEW b \in Nat \ {0}, a <= c
    PROVE  a \div b <= c \div b
  <1> DEFINE p == a \div b
             q == c \div b
  <1>1. p \in Nat /\ b * p <= a /\ q \in Nat /\ c < b * q + b
    BY DivBounds
  <1> HIDE DEF p, q
  <1>2. b * p \in Int /\ b * q \in Int
    BY <1>1
  <1>3. q < p => b * q + b <= b * p
    BY <1>1, MulLess
  <1> QED
    BY <1>1, <1>2, <1>3 DEF p, q

(* The interval of a time; a later time is not of an earlier interval. *)
LEMMA DayMonotone ==
    ASSUME NEW a \in Nat, NEW c \in Nat, a <= c
    PROVE  Day(a) \in Nat /\ Day(c) \in Nat /\ Day(a) <= Day(c)
  BY LoggerAssumption, DivBounds, DivMonotone DEF Day

(* The minute in a rotated file's name is of the same interval as the time. *)
LEMMA DayOfMinute ==
    ASSUME NEW a \in Nat
    PROVE  a \div Minute \in Nat /\ Day((a \div Minute) * Minute) = Day(a)
  <1> DEFINE m == a \div Minute
             q == Day(a)
             k == Interval \div Minute
  <1>1. Minute \in Nat \ {0} /\ Interval \in Nat \ {0} /\ Interval % Minute = 0
    BY LoggerAssumption
  <1>2. m \in Nat /\ Minute * m <= a /\ a < Minute * m + Minute
    BY <1>1, DivBounds
  <1>3. q \in Nat /\ Interval * q <= a /\ a < Interval * q + Interval
    BY <1>1, DivBounds DEF Day
  <1>4. k \in Nat /\ Interval = Minute * k
    BY <1>1
  <1> HIDE DEF m, q, k
  <1>5. k * q \in Int /\ Minute * (k * q) = Interval * q
    BY <1>1, <1>3, <1>4
  <1>6. Minute * m \in Nat /\ Interval * q \in Int
    BY <1>1, <1>2, <1>3
  <1>7. m < k * q => Minute * m + Minute <= Minute * (k * q)
    BY <1>1, <1>2, <1>5, MulLess
  <1>8. ~ (m < k * q)
    BY <1>1, <1>2, <1>3, <1>5, <1>6, <1>7
  <1>9. Minute * (k * q) <= Minute * m
    <2>1. k * q < m => Minute * (k * q) + Minute <= Minute * m
      BY <1>1, <1>2, <1>5, MulLess
    <2> QED
      BY <1>1, <1>2, <1>5, <1>6, <1>8, <2>1
  <1>10. Interval * q <= Minute * m /\ Minute * m < Interval * q + Interval
    BY <1>1, <1>2, <1>3, <1>5, <1>6, <1>9
  <1>11. (Minute * m) \div Interval = q
    BY <1>1, <1>3, <1>6, <1>10, DivUnique
  <1>12. m * Minute = Minute * m
    BY <1>1, <1>2
  <1> QED
    BY <1>2, <1>11, <1>12 DEF Day, m, q

-----------------------------------------------------------------------------
\* Types.

Label == {"idle", "compare", "store", "write"} \cup Rotating

LEMMA TimeFacts ==
    ASSUME TypeOK
    PROVE  /\ clock \in Nat /\ clock <= ClockMax /\ ClockMax \in Nat
           /\ lastRotate \in Nat /\ lastRotate <= clock
           /\ realRotate \in Nat /\ realRotate <= clock
           /\ \A t \in Thread : /\ now[t] \in Nat /\ now[t] <= clock
                                /\ old[t] \in Nat /\ old[t] <= clock
  BY LoggerAssumption DEF TypeOK

(* A rotated file's name is a name, and is not the one it had. *)
LEMMA RotatedNameType ==
    ASSUME TypeOK, NEW t \in Thread, filename \in FileName
    PROVE  /\ RotatedName(t) \in Name /\ RotatedName(t) # filename
           /\ now[t] \div Minute \in 0 .. ClockMax \div Minute
  <1>1. now[t] \in Nat /\ ClockMax \in Nat /\ now[t] <= ClockMax /\ Minute \in Nat \ {0}
    BY TimeFacts, LoggerAssumption
  <1>2. now[t] \div Minute \in Nat /\ ClockMax \div Minute \in Nat
        /\ now[t] \div Minute <= ClockMax \div Minute
    BY <1>1, DivBounds, DivMonotone
  <1>3. now[t] \div Minute \in 0 .. ClockMax \div Minute
    BY <1>2
  <1>4. RotatedName(t) \in FileName \X (0 .. ClockMax \div Minute)
    BY <1>3 DEF RotatedName
  <1> QED
    BY <1>3, <1>4, LoggerAssumption DEF RotatedName, Name

(* What setFileName and open() do to the names. *)
LEMMA CreateEffect ==
    ASSUME TypeOK, NEW n \in Name, Create(n)
    PROVE  /\ made' \in Nat /\ made' \in {made, made + 1}
           /\ names' \in [Name -> 0 .. made']
           /\ names'[n] \in 1 .. made'
           /\ \A x \in Name : x # n => names'[x] = names[x]
           /\ names[n] = NoFile => made' = made + 1 /\ names'[n] = made + 1
           /\ names[n] # NoFile => made' = made /\ names' = names
  <1>1. made \in Nat /\ names \in [Name -> 0 .. made]
    BY DEF TypeOK
  <1>2. CASE names[n] = NoFile
    BY <1>1, <1>2 DEF Create, NoFile
  <1>3. CASE names[n] # NoFile
    BY <1>1, <1>3 DEF Create, NoFile
  <1> QED
    BY <1>2, <1>3

(* Whoever is in maybeRotate has found a file to rotate. *)
Named == \A t \in Thread : pc[t] \notin {"idle", "write"} => filename \in FileName

TypeInv == TypeOK /\ Named

LEMMA TypeInit == Init => TypeInv
  <1> SUFFICES ASSUME Init PROVE TypeInv
    OBVIOUS
  <1>1. ClockMax \in Nat /\ CrashMax \in Nat
    BY LoggerAssumption
  <1>2. DOMAIN lines = 1 .. 0
    BY DEF Init
  <1> QED
    BY <1>1, <1>2 DEF Init, Idle, TypeInv, TypeOK, Named, NoFile, Name

LEMMA NamedNext == TypeInv /\ [Next]_loggerVars => Named'
  <1> SUFFICES ASSUME TypeInv, [Next]_loggerVars PROVE Named'
    OBVIOUS
  <1>1. /\ filename \in FileName \cup {NoName}
        /\ pc \in [Thread -> Label]
        /\ \A t \in Thread : pc[t] \notin {"idle", "write"} => filename \in FileName
    BY DEF TypeInv, TypeOK, Label, Named
  <1>2. CASE Tick
    BY <1>1, <1>2 DEF Tick, logger, thread, Named
  <1>3. CASE Restart
    BY <1>1, <1>3 DEF Restart, Named
  <1>4. ASSUME NEW n \in FileName, SetFileName(n) PROVE Named'
    BY <1>1, <1>4 DEF SetFileName, thread, Named
  <1>5. ASSUME NEW t \in Thread, Time(t) PROVE Named'
    BY <1>1, <1>5 DEF Time, Goto, logger, Named
  <1>6. ASSUME NEW t \in Thread,
               \/ Compare(t) \/ Store(t) \/ Exchange(t) \/ Check(t) \/ Rename(t)
               \/ RenameFails(t) \/ Open(t) \/ OpenFails(t) \/ Dup2(t) \/ WriteLine(t)
        PROVE Named'
    <2>1. filename' = filename
      BY <1>6 DEF Compare, Store, Exchange, Check, Rename, RenameFails, Open, OpenFails, Dup2,
                  WriteLine, logger
    <2>2. /\ \E l : pc' = [pc EXCEPT ![t] = l]
          /\ pc[t] = "write" => pc'[t] = "idle"
          /\ pc[t] # "idle"
      BY <1>1, <1>6 DEF Compare, Store, Exchange, Check, Decide, Rename, RenameFails, Open, OpenFails,
                  Dup2, WriteLine, Goto
    <2> QED
      BY <1>1, <2>1, <2>2 DEF Named
  <1>7. CASE UNCHANGED loggerVars
    BY <1>1, <1>7 DEF loggerVars, logger, thread, Named
  <1> QED
    BY <1>2, <1>3, <1>4, <1>5, <1>6, <1>7 DEF Next

LEMMA TypeNext == TypeInv /\ [Next]_loggerVars => TypeInv'
  <1> SUFFICES ASSUME TypeInv, [Next]_loggerVars PROVE TypeOK'
    BY NamedNext DEF TypeInv
  <1> USE DEF TypeInv
  <1>1. /\ clock \in 0 .. ClockMax /\ crashes \in 0 .. CrashMax /\ disk \in Disks
        /\ lastRotate \in 0 .. clock /\ realRotate \in 0 .. clock
        /\ made \in Nat /\ DOMAIN lines = 1 .. made
        /\ fd \in 0 .. made /\ filename \in FileName \cup {NoName}
        /\ names \in [Name -> 0 .. made]
        /\ \A i \in 1 .. made : lines[i] \subseteq Day(0) .. Day(clock)
        /\ pc \in [Thread -> Label]
        /\ now \in [Thread -> 0 .. clock] /\ old \in [Thread -> 0 .. clock]
        /\ opened \in [Thread -> 0 .. made] /\ since \in Day(0) .. Day(clock)
    BY DEF TypeOK, Label
  <1>2. /\ clock \in Nat /\ ClockMax \in Nat /\ CrashMax \in Nat
        /\ \A t \in Thread : now[t] \in Nat
    BY TimeFacts, LoggerAssumption
  <1>3. Day(0) \in Nat /\ Day(clock) \in Nat /\ Day(0) <= Day(clock)
    BY <1>2, DayMonotone
  <1>4. 0 \in 0 .. clock /\ clock \in 0 .. clock
    BY <1>2
  <1>5. CASE Tick
    <2>1. /\ clock < ClockMax /\ clock' = clock + 1
          /\ UNCHANGED <<crashes, disk, lastRotate, realRotate, fd, filename, names, made, lines,
                         pc, now, old, opened, since>>
      BY <1>5 DEF Tick, logger, files, thread
    <2>2. Day(clock') \in Nat /\ Day(clock) <= Day(clock')
      BY <1>2, <2>1, DayMonotone
    <2>3. Day(0) .. Day(clock) \subseteq Day(0) .. Day(clock') /\ 0 .. clock \subseteq 0 .. clock'
      BY <1>2, <1>3, <2>1, <2>2
    <2>4. clock' \in 0 .. ClockMax
      BY <1>1, <1>2, <2>1
    <2>5. \A i \in 1 .. made : lines[i] \subseteq Day(0) .. Day(clock')
      BY <1>1, <2>3
    <2>6. now \in [Thread -> 0 .. clock'] /\ old \in [Thread -> 0 .. clock']
      BY <1>1, <2>3
    <2> QED
      BY <1>1, <2>1, <2>3, <2>4, <2>5, <2>6 DEF TypeOK, Label, Day
  <1>6. CASE Restart
    <2>1. /\ crashes < CrashMax /\ crashes' = crashes + 1
          /\ lastRotate' = clock /\ realRotate' = clock /\ fd' = NoFile /\ filename' = NoName
          /\ pc' = [t \in Thread |-> "idle"] /\ opened' = [t \in Thread |-> NoFile]
          /\ now' = [t \in Thread |-> 0] /\ old' = [t \in Thread |-> 0]
          /\ UNCHANGED <<clock, disk, names, made, lines, since>>
      BY <1>6 DEF Restart, files
    <2>2. crashes' \in 0 .. CrashMax
      BY <1>1, <1>2, <2>1
    <2> QED
      BY <1>1, <1>2, <1>4, <2>1, <2>2 DEF TypeOK, NoFile
  <1>7. ASSUME NEW n \in FileName, SetFileName(n) PROVE TypeOK'
    <2>1. /\ Create(n) /\ n \in Name
          /\ fd' = names'[n] /\ filename' = n
          /\ lines' = [i \in 1 .. made' |-> IF i \in 1 .. made THEN lines[i] ELSE {}]
          /\ since' = Day(realRotate)
          /\ UNCHANGED <<lastRotate, realRotate, clock, crashes, disk, pc, now, old, opened>>
      BY <1>7 DEF SetFileName, Name, world, thread
    <2>2. /\ made' \in Nat /\ made' \in {made, made + 1}
          /\ names' \in [Name -> 0 .. made'] /\ names'[n] \in 1 .. made'
      BY <2>1, CreateEffect
    <2>3. 0 .. made \subseteq 0 .. made' /\ 1 .. made' \subseteq 0 .. made'
      BY <1>1, <2>2
    <2>4. /\ DOMAIN lines' = 1 .. made'
          /\ \A i \in 1 .. made' : lines'[i] \subseteq Day(0) .. Day(clock)
      BY <1>1, <2>1
    <2>5. opened \in [Thread -> 0 .. made']
      BY <1>1, <2>3
    <2>6. since' \in Day(0) .. Day(clock)
      <3>1. realRotate \in Nat /\ 0 \in Nat /\ 0 <= realRotate /\ realRotate <= clock
        BY <1>1, <1>2
      <3>2. Day(realRotate) \in Nat /\ Day(0) <= Day(realRotate) /\ Day(realRotate) <= Day(clock)
        BY <1>2, <3>1, DayMonotone
      <3> QED
        BY <1>3, <2>1, <3>2
    <2> QED
      BY <1>1, <1>4, <2>1, <2>2, <2>3, <2>4, <2>5, <2>6 DEF TypeOK, Label
  <1>8. ASSUME NEW t \in Thread, Time(t) \/ Compare(t) \/ Store(t) \/ Exchange(t) \/ Check(t)
        PROVE TypeOK'
    <2>1. pc' \in [Thread -> Label]
      BY <1>1, <1>8 DEF Time, Compare, Store, Exchange, Check, Decide, Goto, Label, Rotating
    <2>2. now' \in [Thread -> 0 .. clock] /\ old' \in [Thread -> 0 .. clock]
      BY <1>1, <1>4, <1>8 DEF Time, Compare, Store, Exchange, Check, logger, thread
    <2>3. lastRotate' \in 0 .. clock /\ realRotate' \in 0 .. clock
      BY <1>1, <1>8 DEF Time, Compare, Store, Exchange, Check, logger, thread
    <2>4. UNCHANGED <<clock, crashes, disk, fd, filename, names, made, lines, opened, since>>
      BY <1>8 DEF Time, Compare, Store, Exchange, Check, logger, files, world
    <2> QED
      BY <1>1, <2>1, <2>2, <2>3, <2>4 DEF TypeOK, Label
  <1>9. ASSUME NEW t \in Thread, RenameFails(t) \/ OpenFails(t) \/ Dup2(t) PROVE TypeOK'
    <2>1. pc' \in [Thread -> Label]
      BY <1>1, <1>9 DEF RenameFails, OpenFails, Dup2, Goto, Label
    <2>2. fd' \in 0 .. made /\ opened' \in [Thread -> 0 .. made]
      BY <1>1, <1>9 DEF RenameFails, OpenFails, Dup2, logger, NoFile
    <2>3. UNCHANGED <<clock, crashes, disk, lastRotate, realRotate, filename, names, made, lines,
                      now, old, since>>
      BY <1>9 DEF RenameFails, OpenFails, Dup2, logger, files, world
    <2> QED
      BY <1>1, <2>1, <2>2, <2>3 DEF TypeOK, Label
  <1>10. ASSUME NEW t \in Thread, Rename(t) PROVE TypeOK'
    <2>1. /\ names' = [names EXCEPT ![RotatedName(t)] = names[filename], ![filename] = NoFile]
          /\ pc' = [pc EXCEPT ![t] = "open"]
          /\ names[filename] # NoFile
          /\ UNCHANGED <<now, old, opened, lastRotate, realRotate, fd, filename, made, lines,
                         clock, crashes, disk, since>>
      BY <1>10 DEF Rename, Goto, logger, world
    <2>2. pc' \in [Thread -> Label]
      BY <1>1, <2>1 DEF Label, Rotating
    <2>3. names' \in [Name -> 0 .. made]
      <3>1. filename \in Name
        BY <1>10 DEF Rename, Named, Name
      <3> QED
        BY <1>1, <2>1, <3>1 DEF NoFile
    <2> QED
      BY <1>1, <2>1, <2>2, <2>3 DEF TypeOK, Label
  <1>11. ASSUME NEW t \in Thread, Open(t) PROVE TypeOK'
    <2>1. /\ Create(filename) /\ filename \in Name
          /\ lines' = [i \in 1 .. made' |-> IF i \in 1 .. made THEN lines[i] ELSE {}]
          /\ opened' = [opened EXCEPT ![t] = names'[filename]]
          /\ pc' = [pc EXCEPT ![t] = "dup2"]
          /\ UNCHANGED <<now, old, lastRotate, realRotate, fd, filename, clock, crashes, disk, since>>
      BY <1>11 DEF Open, Goto, Named, Name, logger, world
    <2>2. /\ made' \in Nat /\ made' \in {made, made + 1}
          /\ names' \in [Name -> 0 .. made'] /\ names'[filename] \in 1 .. made'
      BY <2>1, CreateEffect
    <2>3. 0 .. made \subseteq 0 .. made' /\ 1 .. made' \subseteq 0 .. made'
      BY <1>1, <2>2
    <2>4. /\ DOMAIN lines' = 1 .. made'
          /\ \A i \in 1 .. made' : lines'[i] \subseteq Day(0) .. Day(clock)
      BY <1>1, <2>1
    <2>5. opened' \in [Thread -> 0 .. made'] /\ fd' \in 0 .. made'
      BY <1>1, <2>1, <2>2, <2>3
    <2>6. pc' \in [Thread -> Label]
      BY <1>1, <2>1 DEF Label, Rotating
    <2> QED
      BY <1>1, <2>1, <2>2, <2>4, <2>5, <2>6 DEF TypeOK, Label
  <1>12. ASSUME NEW t \in Thread, WriteLine(t) PROVE TypeOK'
    <2>1. /\ lines' = IF fd = NoFile THEN lines
                      ELSE [lines EXCEPT ![fd] = @ \cup {Day(clock)}]
          /\ pc' = [pc EXCEPT ![t] = "idle"]
          /\ now' = [now EXCEPT ![t] = 0] /\ old' = [old EXCEPT ![t] = 0]
          /\ UNCHANGED <<opened, lastRotate, realRotate, fd, filename, names, made,
                         clock, crashes, disk, since>>
      BY <1>12 DEF WriteLine, Goto, logger, world
    <2>2. pc' \in [Thread -> Label]
      BY <1>1, <2>1 DEF Label
    <2>3. now' \in [Thread -> 0 .. clock] /\ old' \in [Thread -> 0 .. clock]
      BY <1>1, <1>4, <2>1
    <2>4. /\ DOMAIN lines' = 1 .. made
          /\ \A i \in 1 .. made : lines'[i] = lines[i] \/ lines'[i] = lines[i] \cup {Day(clock)}
      BY <1>1, <2>1
    <2>5. Day(clock) \in Day(0) .. Day(clock)
      BY <1>3
    <2>6. \A i \in 1 .. made : lines'[i] \subseteq Day(0) .. Day(clock)
      BY <1>1, <2>4, <2>5
    <2> QED
      BY <1>1, <2>1, <2>2, <2>3, <2>4, <2>6 DEF TypeOK, Label
  <1>13. CASE UNCHANGED loggerVars
    BY <1>1, <1>13 DEF loggerVars, world, logger, files, thread, TypeOK, Label
  <1> QED
    BY <1>5, <1>6, <1>7, <1>8, <1>9, <1>10, <1>11, <1>12, <1>13 DEF Next

(* Every variable has its type, whatever the threads and the disk do; that    *)
(* whoever rotates has a file to rotate is part of the argument.              *)
LEMMA TypesAlways == Spec => []TypeInv
  <1> QED
    BY TypeInit, TypeNext, PTL DEF Spec

THEOREM LoggerTypeCorrect == Spec => []TypeOK
  <1>1. TypeInv => TypeOK
    BY DEF TypeInv
  <1> QED
    BY TypesAlways, <1>1, PTL

-----------------------------------------------------------------------------
\* The rotation, for a Prompt scheduler.

(* The threads in maybeRotate are all in the interval of the clock, and have  *)
(* left its times behind; one that has exchanged an older time for its own    *)
(* rotates.                                                                   *)
Winner(t) == pc[t] \in {"check", "rename", "open", "dup2"} /\ Day(old[t]) # Day(now[t])

OfToday(t) ==
    /\ pc[t] \notin {"idle", "write"} => Day(now[t]) = Day(clock)
    /\ pc[t] \in Rotating => Day(lastRotate) = Day(clock)
    /\ pc[t] \in Rotating \ {"exchange"} => Day(realRotate) = Day(clock)
    /\ pc[t] \in {"rename", "open", "dup2"} => Winner(t)

Exchanged == (\A t \in Thread : pc[t] # "exchange") => Day(lastRotate) <= Day(realRotate)

OneWinner == \A t, u \in Thread : Winner(t) /\ Winner(u) => t = u

Race == Exchanged /\ OneWinner /\ \A t \in Thread : OfToday(t)

ThreadStep(t) == \/ Time(t) \/ Compare(t) \/ Store(t) \/ Exchange(t) \/ Check(t)
                 \/ Rename(t) \/ RenameFails(t) \/ Open(t) \/ OpenFails(t)
                 \/ Dup2(t) \/ WriteLine(t)

(* What no step of a thread touches. *)
LEMMA OthersKept ==
    ASSUME TypeOK, NEW t \in Thread, ThreadStep(t)
    PROVE  /\ UNCHANGED <<clock, crashes, disk, filename, since>>
           /\ pc' \in [Thread -> Label]
           /\ \A u \in Thread : u # t => /\ pc'[u] = pc[u] /\ now'[u] = now[u]
                                         /\ old'[u] = old[u] /\ opened'[u] = opened[u]
  <1>1. /\ pc \in [Thread -> Label]
        /\ now \in [Thread -> 0 .. clock] /\ old \in [Thread -> 0 .. clock]
        /\ opened \in [Thread -> 0 .. made]
    BY DEF TypeOK, Label
  <1>2. UNCHANGED <<clock, crashes, disk, filename, since>>
    BY DEF ThreadStep, Time, Compare, Store, Exchange, Check, Rename, RenameFails, Open, OpenFails,
           Dup2, WriteLine, logger, world
  <1>3. \E l \in Label : pc' = [pc EXCEPT ![t] = l]
    BY DEF ThreadStep, Time, Compare, Store, Exchange, Check, Decide, Rename, RenameFails, Open,
           OpenFails, Dup2, WriteLine, Goto, Label, Rotating
  <1>4. \A u \in Thread : u # t => now'[u] = now[u] /\ old'[u] = old[u] /\ opened'[u] = opened[u]
    BY <1>1 DEF ThreadStep, Time, Compare, Store, Exchange, Check, Rename, RenameFails, Open,
                OpenFails, Dup2, WriteLine, thread
  <1> QED
    BY <1>1, <1>2, <1>3, <1>4

(* Nobody gets to rotate but by the exchange. *)
LEMMA WinnersKept ==
    ASSUME TypeOK, Race, NEW t \in Thread, ThreadStep(t)
    PROVE  \A u \in Thread : Winner(u)' =>
              Winner(u) \/ (u = t /\ Exchange(t) /\ Day(realRotate) # Day(clock))
  <1>1. pc \in [Thread -> Label] /\ now \in [Thread -> 0 .. clock] /\ old \in [Thread -> 0 .. clock]
    BY DEF TypeOK, Label
  <1>2. ASSUME NEW u \in Thread, u # t, Winner(u)' PROVE Winner(u)
    BY <1>2, OthersKept DEF Winner
  <1>3. ASSUME Winner(t)' PROVE Winner(t) \/ (Exchange(t) /\ Day(realRotate) # Day(clock))
    <2>1. CASE Exchange(t)
      <3>1. old'[t] = realRotate /\ now'[t] = now[t] /\ Day(now[t]) = Day(clock)
        BY <1>1, <2>1 DEF Exchange, Race, OfToday
      <3> QED
        BY <1>3, <2>1, <3>1 DEF Winner
    <2>2. CASE Check(t) \/ Rename(t) \/ Open(t)
      BY <1>3, <2>2 DEF Check, Rename, Open, Race, OfToday, Winner
    <2>3. CASE Time(t) \/ Compare(t) \/ Store(t) \/ RenameFails(t) \/ OpenFails(t) \/ Dup2(t) \/ WriteLine(t)
      <3>1. pc'[t] \in {"idle", "compare", "store", "exchange", "write"}
        BY <1>1, <2>3 DEF Time, Compare, Store, RenameFails, OpenFails, Dup2, WriteLine, Goto
      <3> QED
        BY <1>3, <3>1 DEF Winner
    <2> QED
      BY <2>1, <2>2, <2>3 DEF ThreadStep
  <1> QED
    BY <1>2, <1>3

LEMMA RaceInit == Init => Race
  <1>1. Day(0) <= Day(0)
    BY DayMonotone
  <1> QED
    BY <1>1 DEF Init, Idle, Race, Exchanged, OneWinner, OfToday, Winner, Rotating

(* The last value that somebody checks is of the interval of the clock. *)
LEMMA CheckGoesOn ==
    ASSUME TypeOK, Race, NEW t \in Thread, Check(t)
    PROVE  pc'[t] = IF Winner(t) THEN "rename" ELSE "write"
  <1>1. pc \in [Thread -> Label] /\ pc[t] = "check"
    BY DEF TypeOK, Label, Check
  <1>2. Day(now[t]) = Day(clock) /\ Day(lastRotate) = Day(clock)
    BY <1>1 DEF Race, OfToday, Rotating
  <1>3. PICK last \in {lastRotate, now[t]} : Decide(t, last)
    BY DEF Check
  <1>4. Day(last) = Day(now[t])
    BY <1>2, <1>3
  <1> QED
    BY <1>1, <1>3, <1>4 DEF Decide, Goto, SameInterval, Winner

LEMMA RaceThread ==
    ASSUME TypeInv, Race, NEW t \in Thread, ThreadStep(t)
    PROVE  Race'
  <1> USE DEF TypeInv
  <1>1. /\ pc \in [Thread -> Label] /\ pc' \in [Thread -> Label] /\ clock' = clock
        /\ now \in [Thread -> 0 .. clock] /\ old \in [Thread -> 0 .. clock]
        /\ \A u \in Thread : u # t => pc'[u] = pc[u] /\ now'[u] = now[u] /\ old'[u] = old[u]
    BY OthersKept DEF TypeOK, Label
  <1>2. /\ clock \in Nat /\ lastRotate \in Nat /\ realRotate \in Nat
        /\ lastRotate <= clock /\ realRotate <= clock
    BY TimeFacts
  <1>3. /\ Day(clock) \in Nat /\ Day(lastRotate) \in Nat /\ Day(realRotate) \in Nat
        /\ Day(lastRotate) <= Day(clock) /\ Day(realRotate) <= Day(clock)
    BY <1>2, DayMonotone
  <1>4. /\ lastRotate' = lastRotate \/ Day(lastRotate') = Day(clock)
        /\ realRotate' = realRotate \/ Day(realRotate') = Day(clock)
        /\ Exchange(t) => Day(realRotate') = Day(clock) /\ lastRotate' = lastRotate
        /\ Store(t) => Day(lastRotate') = Day(clock) /\ realRotate' = realRotate
        /\ ~ Exchange(t) /\ ~ Store(t) => lastRotate' = lastRotate /\ realRotate' = realRotate
    <2>1. CASE Store(t)
      BY <2>1 DEF Store, Exchange, Race, OfToday
    <2>2. CASE Exchange(t)
      BY <2>2 DEF Store, Exchange, Race, OfToday
    <2>3. CASE ~ Store(t) /\ ~ Exchange(t)
      BY <2>3 DEF ThreadStep, Time, Compare, Check, Rename, RenameFails, Open, OpenFails, Dup2,
                  WriteLine, logger
    <2> QED
      BY <2>1, <2>2, <2>3
  <1>5. Exchanged'
    <2>1. CASE Exchange(t)
      BY <1>3, <1>4, <2>1 DEF Exchanged
    <2>2. CASE Store(t)
      BY <1>1, <2>2 DEF Exchanged, Store, Goto
    <2>3. CASE ~ Store(t) /\ ~ Exchange(t)
      <3>1. pc[t] # "exchange"
        BY <2>3 DEF ThreadStep, Time, Compare, Check, Rename, RenameFails, Open, OpenFails, Dup2,
                    WriteLine
      <3> QED
        BY <1>1, <1>4, <2>3, <3>1 DEF Exchanged, Race
    <2> QED
      BY <2>1, <2>2, <2>3
  <1>6. OneWinner'
    <2> SUFFICES ASSUME NEW u \in Thread, NEW v \in Thread, Winner(u)', Winner(v)' PROVE u = v
      BY DEF OneWinner
    <2>1. CASE Winner(u) /\ Winner(v)
      BY <2>1 DEF Race, OneWinner
    <2>2. CASE Exchange(t) /\ Day(realRotate) # Day(clock)
      <3>1. \A w \in Thread : ~ Winner(w)
        BY <2>2 DEF Race, OfToday, Winner, Rotating
      <3> QED
        BY <3>1, WinnersKept
    <2> QED
      BY <2>1, <2>2, WinnersKept
  <1>7. ASSUME NEW u \in Thread, u # t PROVE OfToday(u)'
    <2>1. OfToday(u)
      BY DEF Race
    <2> QED
      BY <1>1, <1>4, <1>7, <2>1 DEF OfToday, Winner
  <1>8. OfToday(t)'
    <2>1. /\ pc[t] \notin {"idle", "write"} => Day(now[t]) = Day(clock)
          /\ pc[t] \in Rotating => Day(lastRotate) = Day(clock)
          /\ pc[t] \in Rotating \ {"exchange"} => Day(realRotate) = Day(clock)
          /\ pc[t] \in {"rename", "open", "dup2"} => Winner(t)
      BY DEF Race, OfToday
    <2>2. CASE Time(t)
      <3>1. now'[t] = clock /\ pc'[t] \in {"write", "compare"}
        BY <1>1, <2>2 DEF Time, Goto
      <3> QED
        BY <1>1, <3>1 DEF OfToday, Rotating
    <2>3. CASE Compare(t) \/ RenameFails(t) \/ OpenFails(t) \/ Dup2(t) \/ WriteLine(t)
      <3>1. /\ pc'[t] \in {"idle", "store", "write"}
            /\ pc'[t] = "store" => pc[t] = "compare" /\ now'[t] = now[t]
        BY <1>1, <2>3 DEF Compare, RenameFails, OpenFails, Dup2, WriteLine, Goto
      <3> QED
        BY <1>1, <2>1, <3>1 DEF OfToday, Rotating
    <2>4. CASE Store(t)
      <3>1. pc[t] = "store" /\ pc'[t] = "exchange" /\ now'[t] = now[t]
        BY <1>1, <2>4 DEF Store, Goto
      <3> QED
        BY <1>1, <1>4, <2>1, <2>4, <3>1 DEF OfToday
    <2>5. CASE Exchange(t)
      <3>1. pc[t] = "exchange" /\ pc'[t] = "check" /\ now'[t] = now[t]
        BY <1>1, <2>5 DEF Exchange, Goto
      <3> QED
        BY <1>1, <1>4, <2>1, <2>5, <3>1 DEF OfToday, Rotating
    <2>6. CASE Check(t)
      <3>1. /\ pc[t] = "check" /\ now'[t] = now[t] /\ old'[t] = old[t]
            /\ UNCHANGED <<lastRotate, realRotate>>
        BY <2>6 DEF Check, logger
      <3>2. pc'[t] = IF Winner(t) THEN "rename" ELSE "write"
        BY <2>6, CheckGoesOn
      <3> QED
        BY <1>1, <2>1, <3>1, <3>2 DEF OfToday, Winner, Rotating
    <2>7. CASE Rename(t) \/ Open(t)
      <3>1. /\ pc[t] \in {"rename", "open"} /\ pc'[t] \in {"open", "dup2"}
            /\ now'[t] = now[t] /\ old'[t] = old[t]
            /\ UNCHANGED <<lastRotate, realRotate>>
        BY <1>1, <2>7 DEF Rename, Open, Goto, logger
      <3> QED
        BY <1>1, <2>1, <3>1 DEF OfToday, Winner, Rotating
    <2> QED
      BY <2>2, <2>3, <2>4, <2>5, <2>6, <2>7 DEF ThreadStep
  <1> QED
    BY <1>5, <1>6, <1>7, <1>8 DEF Race

LEMMA RaceNext ==
    ASSUME Prompt, TypeInv, Race, [Next]_loggerVars
    PROVE  Race'
  <1>1. CASE Tick
    <2>1. UNCHANGED <<lastRotate, realRotate, pc, now, old>>
      BY <1>1 DEF Tick, logger, thread
    <2>2. /\ clock' = clock + 1
          /\ \A t \in Thread : pc[t] \in {"idle", "write"} \/ Day(clock + 1) = Day(now[t])
      BY <1>1 DEF Tick
    <2>3. \A t \in Thread : pc[t] \notin {"idle", "write"} => Day(clock') = Day(clock)
      BY <2>2 DEF Race, OfToday
    <2>4. ASSUME NEW t \in Thread PROVE OfToday(t)'
      <3>1. OfToday(t)
        BY DEF Race
      <3> QED
        BY <2>1, <2>3, <3>1 DEF OfToday, Winner, Rotating
    <2>5. Exchanged' /\ OneWinner'
      BY <2>1 DEF Race, Exchanged, OneWinner, Winner
    <2> QED
      BY <2>4, <2>5 DEF Race
  <1>2. CASE Restart
    <2>1. /\ pc' = [t \in Thread |-> "idle"]
          /\ lastRotate' = clock /\ realRotate' = clock
      BY <1>2 DEF Restart
    <2>2. Day(clock) <= Day(clock)
      BY TimeFacts, DayMonotone DEF TypeInv
    <2> QED
      BY <2>1, <2>2 DEF Race, Exchanged, OneWinner, OfToday, Winner, Rotating
  <1>3. ASSUME NEW n \in FileName, SetFileName(n) PROVE Race'
    <2>1. UNCHANGED <<clock, lastRotate, realRotate, pc, now, old>>
      BY <1>3 DEF SetFileName, world, thread
    <2> QED
      BY <2>1 DEF Race, Exchanged, OneWinner, OfToday, Winner
  <1>4. CASE UNCHANGED loggerVars
    <2>1. UNCHANGED <<clock, lastRotate, realRotate, pc, now, old>>
      BY <1>4 DEF loggerVars, world, thread, logger
    <2> QED
      BY <2>1 DEF Race, Exchanged, OneWinner, OfToday, Winner
  <1> QED
    BY <1>1, <1>2, <1>3, <1>4, RaceThread DEF Next, ThreadStep

-----------------------------------------------------------------------------
\* The names of the files.

(* No rotated file is of an interval that realRotate_ has not reached, and    *)
(* none of its own before the winner has renamed.                             *)
Undecided == \E t \in Thread : Winner(t) /\ pc[t] \in {"check", "rename"}

Minutes == 0 .. ClockMax \div Minute

Rotated(f, m) == names[<<f, m>>] # NoFile

RotatedBefore ==
    \A f \in FileName, m \in Minutes : Rotated(f, m) =>
        /\ Day(m * Minute) <= Day(realRotate)
        /\ Undecided => Day(m * Minute) # Day(realRotate)

AllNamed == \A i \in 1 .. made : \E n \in Name : names[n] = i

Directory == RotatedBefore /\ AllNamed /\ OneRotation

LEMMA DirectoryInit == Init => Directory
  <1> SUFFICES ASSUME Init PROVE Directory
    OBVIOUS
  <1>1. \A f \in FileName, m \in Minutes : <<f, m>> \in Name
    BY DEF Name, Minutes
  <1>2. \A n \in Name : names[n] = NoFile
    BY DEF Init
  <1>3. made = 0
    BY DEF Init
  <1> QED
    BY <1>1, <1>2, <1>3 DEF Directory, RotatedBefore, Rotated, AllNamed, OneRotation, Minutes

(* A minute's interval is a number. *)
LEMMA MinuteDay ==
    ASSUME NEW m \in Minutes
    PROVE  Day(m * Minute) \in Nat
  <1>1. m \in Nat /\ Minute \in Nat
    BY LoggerAssumption DEF Minutes
  <1>2. m * Minute \in Nat
    BY <1>1
  <1> QED
    BY <1>2, DayMonotone

(* While the rotated files stay, their intervals are over when a new one      *)
(* begins to be rotated.                                                      *)
LEMMA RotatedKept ==
    ASSUME TypeInv, Race, RotatedBefore,
           \A f \in FileName, m \in Minutes : Rotated(f, m)' => Rotated(f, m),
           realRotate' \in Nat, Day(realRotate) <= Day(realRotate'),
           Undecided' => \/ Undecided /\ Day(realRotate') = Day(realRotate)
                         \/ Day(realRotate) # Day(realRotate')
    PROVE  RotatedBefore'
  <1> SUFFICES ASSUME NEW f \in FileName, NEW m \in Minutes, Rotated(f, m)'
               PROVE  /\ Day(m * Minute) <= Day(realRotate')
                      /\ Undecided' => Day(m * Minute) # Day(realRotate')
    BY DEF RotatedBefore
  <1>1. /\ Day(m * Minute) <= Day(realRotate)
        /\ Undecided => Day(m * Minute) # Day(realRotate)
    BY DEF RotatedBefore
  <1>2. Day(m * Minute) \in Nat /\ Day(realRotate) \in Nat /\ Day(realRotate') \in Nat
    BY MinuteDay, TimeFacts, DayMonotone DEF TypeInv
  <1> QED
    BY <1>1, <1>2

(* A file that is opened by a name that is not a rotated one's. *)
LEMMA CreateKeepsRotated ==
    ASSUME TypeOK, NEW n \in FileName, Create(n)
    PROVE  /\ \A f \in FileName, m \in Minutes : names'[<<f, m>>] = names[<<f, m>>]
           /\ AllNamed => AllNamed'
  <1>1. n \in Name /\ \A f \in FileName, m \in Minutes : <<f, m>> \in Name /\ <<f, m>> # n
    BY LoggerAssumption DEF Name, Minutes
  <1>2. /\ made \in Nat /\ made' \in {made, made + 1}
        /\ names'[n] \in 1 .. made'
        /\ \A x \in Name : x # n => names'[x] = names[x]
        /\ names[n] = NoFile => made' = made + 1 /\ names'[n] = made + 1
        /\ names[n] # NoFile => made' = made /\ names' = names
    BY <1>1, CreateEffect DEF TypeOK
  <1>3. ASSUME AllNamed, NEW i \in 1 .. made' PROVE \E x \in Name : names'[x] = i
    <2>1. CASE names[n] # NoFile
      BY <1>2, <1>3, <2>1 DEF AllNamed
    <2>2. CASE names[n] = NoFile /\ i = made + 1
      BY <1>1, <1>2, <2>2
    <2>3. CASE names[n] = NoFile /\ i # made + 1
      <3>1. i \in 1 .. made /\ i # NoFile
        BY <1>2, <1>3, <2>3 DEF NoFile
      <3>2. PICK x \in Name : names[x] = i
        BY <1>3, <3>1 DEF AllNamed
      <3> QED
        BY <1>2, <2>3, <3>1, <3>2
    <2> QED
      BY <2>1, <2>2, <2>3
  <1> QED
    BY <1>1, <1>2, <1>3 DEF AllNamed

(* The winner of an interval renames to a name that nothing has, and there    *)
(* was no rotation in its interval before.                                    *)
LEMMA RenameKeepsDirectory ==
    ASSUME TypeInv, Race, Directory, NEW t \in Thread, Rename(t)
    PROVE  /\ names'[filename] = NoFile
           /\ RotatedBefore' /\ AllNamed' /\ OneRotation'
  <1> DEFINE m0 == now[t] \div Minute
             r  == <<filename, m0>>
  <1>1. filename \in FileName /\ filename \in Name
    BY DEF Rename, TypeInv, Named, Name
  <1>2. r \in Name /\ r # filename /\ m0 \in Minutes
    BY <1>1, RotatedNameType DEF TypeInv, RotatedName, Minutes
  <1>3. /\ names \in [Name -> 0 .. made] /\ pc \in [Thread -> Label]
        /\ pc[t] = "rename" /\ pc' = [pc EXCEPT ![t] = "open"]
        /\ names[filename] # NoFile
        /\ names' = [names EXCEPT ![r] = names[filename], ![filename] = NoFile]
        /\ UNCHANGED <<now, old, realRotate, made>>
    BY DEF Rename, RotatedName, Goto, TypeInv, TypeOK, Label, logger
  <1>4. Winner(t) /\ Undecided
    BY <1>3 DEF Race, OfToday, Undecided
  <1>5. Day(m0 * Minute) = Day(realRotate)
    <2>1. Day(now[t]) = Day(clock) /\ Day(realRotate) = Day(clock)
      BY <1>3 DEF Race, OfToday, Rotating
    <2>2. now[t] \in Nat
      BY TimeFacts DEF TypeInv
    <2> QED
      BY <2>1, <2>2, DayOfMinute
  <1>6. names[r] = NoFile
    BY <1>1, <1>2, <1>4, <1>5 DEF Directory, RotatedBefore, Rotated
  <1> HIDE DEF m0, r
  <1>7. /\ names'[filename] = NoFile /\ names'[r] = names[filename]
        /\ \A x \in Name : x # r /\ x # filename => names'[x] = names[x]
    BY <1>1, <1>2, <1>3
  <1>8. \A f \in FileName, m \in Minutes :
           /\ <<f, m>> \in Name /\ <<f, m>> # filename
           /\ <<f, m>> = r <=> f = filename /\ m = m0
    BY <1>1, LoggerAssumption DEF Name, Minutes, r
  <1>9. ~ Undecided'
    <2> SUFFICES ASSUME NEW u \in Thread, Winner(u)', pc'[u] \in {"check", "rename"} PROVE FALSE
      BY DEF Undecided
    <2>1. u # t
      BY <1>3
    <2>2. Winner(u)
      BY <1>3, <2>1 DEF Winner
    <2> QED
      BY <1>4, <2>1, <2>2 DEF Race, OneWinner
  <1>10. RotatedBefore'
    <2> SUFFICES ASSUME NEW f \in FileName, NEW m \in Minutes, Rotated(f, m)'
                 PROVE  Day(m * Minute) <= Day(realRotate)
      BY <1>3, <1>9 DEF RotatedBefore
    <2>1. CASE <<f, m>> = r
      BY <1>5, <1>8, <2>1, MinuteDay
    <2>2. CASE <<f, m>> # r
      BY <1>7, <1>8, <2>2 DEF Rotated, Directory, RotatedBefore
    <2> QED
      BY <2>1, <2>2
  <1>11. AllNamed'
    <2> SUFFICES ASSUME NEW i \in 1 .. made PROVE \E x \in Name : names'[x] = i
      BY <1>3 DEF AllNamed
    <2>1. PICK x \in Name : names[x] = i
      BY DEF Directory, AllNamed
    <2>2. x # r
      BY <1>6, <2>1 DEF NoFile
    <2> QED
      BY <1>2, <1>7, <2>1, <2>2
  <1>12. OneRotation'
    <2> SUFFICES ASSUME NEW f \in FileName, NEW m1 \in Minutes, NEW m2 \in Minutes,
                        names'[<<f, m1>>] # NoFile, names'[<<f, m2>>] # NoFile,
                        Day(m1 * Minute) = Day(m2 * Minute)
                 PROVE  m1 = m2
      BY DEF OneRotation, Minutes
    <2>1. \A m \in Minutes : names'[<<f, m>>] # NoFile /\ <<f, m>> # r => Rotated(f, m)
      BY <1>7, <1>8 DEF Rotated
    <2>2. \A m \in Minutes : Rotated(f, m) => Day(m * Minute) # Day(m0 * Minute)
      BY <1>4, <1>5 DEF Directory, RotatedBefore
    <2>3. Rotated(f, m1) /\ Rotated(f, m2) => m1 = m2
      BY DEF Directory, OneRotation, Rotated, Minutes
    <2> QED
      BY <1>8, <2>1, <2>2, <2>3
  <1> QED
    BY <1>7, <1>10, <1>11, <1>12

LEMMA DirectoryNext ==
    ASSUME Prompt, TypeInv, Race, Directory, [Next]_loggerVars
    PROVE  Directory'
  <1>1. /\ clock \in Nat /\ lastRotate \in Nat /\ realRotate \in Nat /\ realRotate <= clock
        /\ Day(realRotate) \in Nat /\ Day(clock) \in Nat /\ Day(realRotate) <= Day(clock)
    BY TimeFacts, DayMonotone DEF TypeInv
  <1>2. CASE Restart
    <2>1. /\ realRotate' = clock /\ pc' = [t \in Thread |-> "idle"]
          /\ UNCHANGED <<names, made>>
      BY <1>2 DEF Restart, files
    <2>2. ~ Undecided'
      BY <2>1 DEF Undecided, Winner
    <2>3. RotatedBefore'
      BY <1>1, <2>1, <2>2, RotatedKept DEF Directory, Rotated
    <2> QED
      BY <2>1, <2>3 DEF Directory, AllNamed, OneRotation
  <1>3. ASSUME NEW n \in FileName, SetFileName(n) PROVE Directory'
    <2>1. Create(n) /\ UNCHANGED <<realRotate, pc, now, old>>
      BY <1>3 DEF SetFileName, thread
    <2>2. /\ \A f \in FileName, m \in Minutes : names'[<<f, m>>] = names[<<f, m>>]
          /\ AllNamed'
      BY <2>1, CreateKeepsRotated DEF TypeInv, Directory
    <2>3. (Undecided' <=> Undecided) /\ \A f \in FileName, m \in Minutes : Rotated(f, m)' => Rotated(f, m)
      BY <2>1, <2>2 DEF Undecided, Winner, Rotated
    <2>4. RotatedBefore'
      BY <1>1, <2>1, <2>3, RotatedKept DEF Directory
    <2> QED
      BY <2>2, <2>4 DEF Directory, OneRotation, Minutes
  <1>4. ASSUME NEW t \in Thread, Exchange(t) PROVE Directory'
    <2>1. /\ pc[t] = "exchange" /\ realRotate' = now[t] /\ UNCHANGED <<names, made>>
      BY <1>4 DEF Exchange, files
    <2>2. Day(realRotate') = Day(clock)
      BY <2>1 DEF Race, OfToday
    <2>3. realRotate' \in Nat
      BY <2>1, TimeFacts DEF TypeInv
    <2>4. ASSUME Undecided', Day(realRotate) = Day(clock) PROVE Undecided
      <3>1. PICK u \in Thread : Winner(u)' /\ pc'[u] \in {"check", "rename"}
        BY <2>4 DEF Undecided
      <3>2. Winner(u)
        BY <1>4, <2>4, <3>1, WinnersKept DEF TypeInv, ThreadStep
      <3>3. u # t
        BY <2>1, <3>2 DEF Winner
      <3>4. pc[u] = pc'[u]
        BY <1>4, <3>3, OthersKept DEF TypeInv, ThreadStep
      <3> QED
        BY <3>1, <3>2, <3>4 DEF Undecided
    <2>5. RotatedBefore'
      BY <1>1, <2>1, <2>2, <2>3, <2>4, RotatedKept DEF Directory, Rotated
    <2> QED
      BY <2>1, <2>5 DEF Directory, AllNamed, OneRotation
  <1>5. ASSUME NEW t \in Thread,
               \/ Time(t) \/ Compare(t) \/ Store(t) \/ Check(t) \/ RenameFails(t)
               \/ Open(t) \/ OpenFails(t) \/ Dup2(t) \/ WriteLine(t)
        PROVE Directory'
    <2>1. realRotate' = realRotate /\ ThreadStep(t) /\ ~ Exchange(t)
      BY <1>5 DEF Time, Compare, Store, Check, RenameFails, Open, OpenFails, Dup2, WriteLine, logger,
                  Exchange, ThreadStep
    <2>2. ASSUME Undecided' PROVE Undecided
      <3>1. PICK u \in Thread : Winner(u)' /\ pc'[u] \in {"check", "rename"}
        BY <2>2 DEF Undecided
      <3>2. Winner(u)
        BY <2>1, <3>1, WinnersKept DEF TypeInv
      <3>3. pc[u] \in {"check", "rename"}
        <4>1. pc \in [Thread -> Label]
          BY DEF TypeInv, TypeOK, Label
        <4>2. CASE u = t
          BY <1>5, <3>1, <4>1, <4>2 DEF Time, Compare, Store, Check, RenameFails, Open, OpenFails,
                                        Dup2, WriteLine, Goto
        <4> QED
          BY <2>1, <3>1, <4>2, OthersKept DEF TypeInv
      <3> QED
        BY <3>2, <3>3 DEF Undecided
    <2>3. CASE Open(t)
      <3>1. Create(filename) /\ filename \in FileName
        BY <2>3 DEF Open, TypeInv, Named
      <3>2. /\ \A f \in FileName, m \in Minutes : names'[<<f, m>>] = names[<<f, m>>]
            /\ AllNamed'
        BY <3>1, CreateKeepsRotated DEF TypeInv, Directory
      <3>3. RotatedBefore'
        BY <1>1, <2>1, <2>2, <3>2, RotatedKept DEF Directory, Rotated
      <3> QED
        BY <3>2, <3>3 DEF Directory, OneRotation, Minutes
    <2>4. CASE ~ Open(t)
      <3>1. UNCHANGED <<names, made>>
        BY <1>5, <2>4 DEF Time, Compare, Store, Check, RenameFails, OpenFails, Dup2, WriteLine, files
      <3>2. RotatedBefore'
        BY <1>1, <2>1, <2>2, <3>1, RotatedKept DEF Directory, Rotated
      <3> QED
        BY <3>1, <3>2 DEF Directory, AllNamed, OneRotation
    <2> QED
      BY <2>3, <2>4
  <1>6. CASE Tick \/ UNCHANGED loggerVars
    <2>1. UNCHANGED <<realRotate, names, made, pc, now, old>>
      BY <1>6 DEF Tick, loggerVars, logger, files, thread
    <2>2. Undecided' <=> Undecided
      BY <2>1 DEF Undecided, Winner
    <2>3. RotatedBefore'
      BY <1>1, <2>1, <2>2, RotatedKept DEF Directory, Rotated
    <2> QED
      BY <2>1, <2>3 DEF Directory, AllNamed, OneRotation
  <1> QED
    BY <1>2, <1>3, <1>4, <1>5, <1>6, RenameKeepsDirectory DEF Next, Directory

-----------------------------------------------------------------------------
\* The file that is open.

(* The name given leads to the file that is open, but from rename to dup2.    *)
Between == \E t \in Thread : pc[t] \in {"open", "dup2"}

FdFollows ==
    filename # NoName =>
       /\ filename \in FileName /\ fd # NoFile
       /\ \A t \in Thread : pc[t] = "open" => names[filename] = NoFile
       /\ \A t \in Thread : pc[t] = "dup2" => names[filename] = opened[t] /\ opened[t] # NoFile
       /\ ~ Between => names[filename] \in {fd} \cup IF disk = "failing" THEN {NoFile} ELSE {}

LEMMA FdFollowsNext ==
    ASSUME TypeInv, Race, Directory, FdFollows, [Next]_loggerVars
    PROVE  FdFollows'
  <1>1. /\ names \in [Name -> 0 .. made] /\ pc \in [Thread -> Label]
        /\ opened \in [Thread -> 0 .. made] /\ FileName \subseteq Name
    BY DEF TypeInv, TypeOK, Label, Name
  <1>2. \A t, u \in Thread : pc[t] \in {"rename", "open", "dup2"} /\ pc[u] \in {"rename", "open", "dup2"}
                        => t = u
    BY DEF Race, OfToday, OneWinner
  <1>3. CASE Restart
    BY <1>3 DEF Restart, FdFollows
  <1>4. ASSUME NEW n \in FileName, SetFileName(n) PROVE FdFollows'
    <2>1. /\ pc = [t \in Thread |-> "idle"] /\ UNCHANGED <<pc, disk>>
          /\ Create(n) /\ fd' = names'[n] /\ filename' = n
      BY <1>4 DEF SetFileName, thread, world
    <2>2. names'[n] \in 1 .. made'
      BY <1>1, <2>1, CreateEffect DEF TypeInv
    <2>3. fd' # NoFile
      BY <2>1, <2>2 DEF NoFile
    <2> QED
      BY <2>1, <2>3 DEF FdFollows
  <1>5. ASSUME NEW t \in Thread, Rename(t) PROVE FdFollows'
    <2>1. names'[filename] = NoFile
      BY <1>5, RenameKeepsDirectory
    <2>2. /\ pc[t] = "rename" /\ pc' = [pc EXCEPT ![t] = "open"]
          /\ UNCHANGED <<filename, fd, disk, opened>>
      BY <1>5 DEF Rename, Goto, logger, world
    <2>3. Between' /\ \A u \in Thread : pc'[u] # "dup2"
      BY <1>1, <1>2, <2>2 DEF Between
    <2> QED
      BY <2>1, <2>2, <2>3 DEF FdFollows
  <1>6. ASSUME NEW t \in Thread, Open(t) PROVE FdFollows'
    <2>1. /\ pc[t] = "open" /\ pc' = [pc EXCEPT ![t] = "dup2"]
          /\ Create(filename) /\ filename \in FileName
          /\ opened' = [opened EXCEPT ![t] = names'[filename]]
          /\ UNCHANGED <<filename, fd, disk>>
      BY <1>6 DEF Open, Goto, logger, world, TypeInv, Named
    <2>2. names'[filename] \in 1 .. made'
      BY <1>1, <2>1, CreateEffect DEF TypeInv
    <2>3. names'[filename] # NoFile
      BY <2>2 DEF NoFile
    <2>4. Between' /\ \A u \in Thread : pc'[u] \in {"open", "dup2"} => u = t
      BY <1>1, <1>2, <2>1 DEF Between
    <2>5. pc'[t] = "dup2" /\ opened'[t] = names'[filename]
      BY <1>1, <2>1
    <2> QED
      BY <2>1, <2>3, <2>4, <2>5 DEF FdFollows
  <1>7. ASSUME NEW t \in Thread, OpenFails(t) PROVE FdFollows'
    <2>1. /\ pc[t] = "open" /\ pc' = [pc EXCEPT ![t] = "write"] /\ disk = "failing"
          /\ UNCHANGED <<filename, fd, disk, opened, names>>
      BY <1>7 DEF OpenFails, Goto, logger, world, files
    <2>2. ~ Between' /\ \A u \in Thread : pc'[u] \notin {"open", "dup2"}
      BY <1>1, <1>2, <2>1 DEF Between
    <2> QED
      BY <2>1, <2>2 DEF FdFollows
  <1>8. ASSUME NEW t \in Thread, Dup2(t) PROVE FdFollows'
    <2>1. /\ pc[t] = "dup2" /\ pc' = [pc EXCEPT ![t] = "write"]
          /\ fd' = opened[t] /\ UNCHANGED <<filename, disk, names>>
      BY <1>8 DEF Dup2, Goto, world, files
    <2>2. ~ Between' /\ \A u \in Thread : pc'[u] \notin {"open", "dup2"}
      BY <1>1, <1>2, <2>1 DEF Between
    <2> QED
      BY <2>1, <2>2 DEF FdFollows
  <1>9. ASSUME NEW t \in Thread,
               \/ Time(t) \/ Compare(t) \/ Store(t) \/ Exchange(t) \/ Check(t)
               \/ RenameFails(t) \/ WriteLine(t)
        PROVE FdFollows'
    <2>1. /\ \A u \in Thread : u # t => pc'[u] = pc[u]
          /\ UNCHANGED <<filename, fd, disk, opened, names>>
      BY <1>9, OthersKept DEF ThreadStep, TypeInv, Time, Compare, Store, Exchange, Check,
                              RenameFails, WriteLine, logger, files, world
    <2>2. pc[t] \notin {"open", "dup2"} /\ pc'[t] \notin {"open", "dup2"}
      BY <1>1, <1>9 DEF Time, Compare, Store, Exchange, Check, Decide, RenameFails, WriteLine, Goto
    <2> QED
      BY <2>1, <2>2 DEF FdFollows, Between
  <1>10. CASE Tick \/ UNCHANGED loggerVars
    <2>1. UNCHANGED <<filename, fd, disk, opened, names, pc>>
      BY <1>10 DEF Tick, loggerVars, logger, files, thread, world
    <2> QED
      BY <2>1 DEF FdFollows, Between
  <1> QED
    BY <1>3, <1>4, <1>5, <1>6, <1>7, <1>8, <1>9, <1>10 DEF Next

(* On a sound disk the winner empties the file of older lines, those that     *)
(* setFileName found in it too, and whoever writes has seen a time of its     *)
(* interval in lastRotate_.                                                   *)
LinesOfDay ==
    filename # NoName /\ disk = "sound" =>
       /\ \A t \in Thread : pc[t] = "write" => Day(now[t]) <= Day(lastRotate)
       /\ (\A t \in Thread : ~ Winner(t)) /\ since < Day(realRotate) =>
             \A d \in lines[fd] : d >= Day(realRotate)
       /\ \A t \in Thread : pc[t] = "dup2" => lines[opened[t]] = {} /\ opened[t] # fd

LEMMA LinesOfDayThread ==
    ASSUME TypeInv, Race, FdFollows, LinesOfDay, NEW t \in Thread, ThreadStep(t)
    PROVE  LinesOfDay'
  <1> SUFFICES ASSUME filename # NoName, disk = "sound"
               PROVE  /\ \A u \in Thread : pc'[u] = "write" => Day(now'[u]) <= Day(lastRotate')
                      /\ (\A u \in Thread : ~ Winner(u)') /\ since < Day(realRotate') =>
                            \A d \in lines'[fd'] : d >= Day(realRotate')
                      /\ \A u \in Thread : pc'[u] = "dup2" => lines'[opened'[u]] = {} /\ opened'[u] # fd'
    BY OthersKept DEF LinesOfDay, TypeInv
  <1>1. /\ names \in [Name -> 0 .. made] /\ pc \in [Thread -> Label]
        /\ now \in [Thread -> 0 .. clock] /\ old \in [Thread -> 0 .. clock]
        /\ opened \in [Thread -> 0 .. made] /\ FileName \subseteq Name
        /\ made \in Nat /\ fd \in 0 .. made /\ DOMAIN lines = 1 .. made
        /\ \A i \in 1 .. made : lines[i] \subseteq Day(0) .. Day(clock)
    BY DEF TypeInv, TypeOK, Label, Name
  <1>2. \A v, w \in Thread : pc[v] \in {"rename", "open", "dup2"} /\ pc[w] \in {"rename", "open", "dup2"}
                        => v = w
    BY DEF Race, OfToday, OneWinner
  <1>3. /\ Day(clock) \in Nat /\ Day(lastRotate) \in Nat /\ Day(realRotate) \in Nat
        /\ Day(lastRotate) <= Day(clock) /\ Day(realRotate) <= Day(clock)
        /\ \A u \in Thread : Day(now[u]) \in Nat /\ Day(now[u]) <= Day(clock)
    BY TimeFacts, DayMonotone DEF TypeInv
  <1>4. /\ filename \in FileName /\ fd # NoFile
        /\ \A u \in Thread : pc[u] = "open" => names[filename] = NoFile
        /\ ~ Between => names[filename] = fd
    BY DEF FdFollows
  <1>5. /\ \A u \in Thread : pc[u] = "write" => Day(now[u]) <= Day(lastRotate)
        /\ (\A u \in Thread : ~ Winner(u)) /\ since < Day(realRotate) =>
              \A d \in lines[fd] : d >= Day(realRotate)
        /\ \A u \in Thread : pc[u] = "dup2" => lines[opened[u]] = {} /\ opened[u] # fd
    BY DEF LinesOfDay
  <1>6. /\ \A u \in Thread : u # t => /\ pc'[u] = pc[u] /\ now'[u] = now[u]
                                      /\ old'[u] = old[u] /\ opened'[u] = opened[u]
        /\ pc' \in [Thread -> Label]
    BY OthersKept DEF TypeInv
  <1>7. OfToday(t)
    BY DEF Race
  <1>8. CASE Time(t) \/ Compare(t)
    <2>1. /\ UNCHANGED <<lastRotate, realRotate, fd, lines, opened>>
          /\ pc'[t] \in {"write", "compare", "store"}
          /\ pc[t] \in {"idle", "compare"}
          /\ pc'[t] = "write" => Day(now'[t]) = Day(lastRotate)
      BY <1>1, <1>4, <1>8, LoggerAssumption DEF Time, Compare, SameInterval, Goto, logger, files
    <2>2. \A u \in Thread : Winner(u)' <=> Winner(u)
      BY <1>6, <2>1 DEF Winner
    <2> QED
      BY <1>3, <1>5, <1>6, <2>1, <2>2
  <1>9. CASE Store(t)
    <2>1. /\ UNCHANGED <<realRotate, fd, lines, opened, now, old>>
          /\ pc[t] = "store" /\ pc'[t] = "exchange" /\ lastRotate' = now[t]
      BY <1>1, <1>9 DEF Store, Goto, files
    <2>2. \A u \in Thread : Winner(u)' <=> Winner(u)
      BY <1>6, <2>1 DEF Winner
    <2>3. Day(lastRotate') = Day(clock)
      BY <1>7, <2>1 DEF OfToday
    <2>4. \A u \in Thread : pc'[u] = "write" => Day(now'[u]) <= Day(lastRotate')
      BY <1>3, <2>1, <2>3
    <2> QED
      BY <1>5, <1>6, <2>1, <2>2, <2>4
  <1>10. CASE Exchange(t)
    <2>1. /\ UNCHANGED <<lastRotate, fd, lines, opened, now>>
          /\ pc[t] = "exchange" /\ pc'[t] = "check"
          /\ realRotate' = now[t] /\ old'[t] = realRotate
      BY <1>1, <1>10 DEF Exchange, Goto, files
    <2>2. ASSUME \A u \in Thread : ~ Winner(u)'
          PROVE  Day(realRotate') = Day(realRotate) /\ \A u \in Thread : ~ Winner(u)
      <3>1. Day(old'[t]) = Day(now'[t])
        BY <2>1, <2>2 DEF Winner
      <3>2. \A u \in Thread : u # t => ~ Winner(u)
        BY <1>6, <2>2 DEF Winner
      <3> QED
        BY <2>1, <3>1, <3>2 DEF Winner
    <2> QED
      BY <1>5, <1>6, <2>1, <2>2
  <1>11. CASE Check(t)
    <2>1. /\ UNCHANGED <<lastRotate, realRotate, fd, lines, opened, now, old>>
          /\ pc[t] = "check"
      BY <1>11 DEF Check, logger, files
    <2>2. pc'[t] = IF Winner(t) THEN "rename" ELSE "write"
      BY <1>11, CheckGoesOn DEF TypeInv
    <2>3. \A u \in Thread : Winner(u)' <=> Winner(u)
      BY <1>6, <2>1, <2>2 DEF Winner
    <2>4. Day(now[t]) = Day(lastRotate)
      BY <1>7, <2>1 DEF OfToday, Rotating
    <2> QED
      BY <1>3, <1>5, <1>6, <2>1, <2>2, <2>3, <2>4
  <1>12. CASE Rename(t)
    <2>1. /\ UNCHANGED <<lastRotate, realRotate, fd, lines, opened, now, old>>
          /\ pc[t] = "rename" /\ pc'[t] = "open"
      BY <1>1, <1>12 DEF Rename, Goto, logger
    <2>2. Winner(t)'
      BY <1>7, <2>1 DEF OfToday, Winner
    <2> QED
      BY <1>5, <1>6, <2>1, <2>2
  <1>13. CASE RenameFails(t)
    <2>1. pc[t] = "rename" /\ names[filename] = NoFile
      BY <1>13 DEF RenameFails
    <2>2. ~ Between
      BY <1>2, <2>1 DEF Between
    <2> QED
      BY <1>4, <2>1, <2>2
  <1>14. CASE Open(t)
    <2>1. /\ pc[t] = "open" /\ pc'[t] = "dup2" /\ Create(filename)
          /\ UNCHANGED <<lastRotate, realRotate, fd, now, old>>
          /\ lines' = [i \in 1 .. made' |-> IF i \in 1 .. made THEN lines[i] ELSE {}]
          /\ opened'[t] = names'[filename]
      BY <1>1, <1>14 DEF Open, Goto, logger
    <2>2. made' = made + 1 /\ opened'[t] = made + 1
      BY <1>1, <1>4, <2>1, CreateEffect DEF TypeInv
    <2>3. lines'[opened'[t]] = {} /\ opened'[t] # fd
      BY <1>1, <2>1, <2>2
    <2>4. Winner(t)'
      BY <1>7, <2>1 DEF OfToday, Winner
    <2> QED
      BY <1>2, <1>5, <1>6, <2>1, <2>3, <2>4
  <1>15. CASE OpenFails(t)
    BY <1>15 DEF OpenFails
  <1>16. CASE Dup2(t)
    <2>1. /\ pc[t] = "dup2" /\ pc'[t] = "write" /\ fd' = opened[t]
          /\ UNCHANGED <<lastRotate, realRotate, lines, now>>
      BY <1>1, <1>16 DEF Dup2, Goto, files
    <2>2. lines'[fd'] = {} /\ \A u \in Thread : pc'[u] # "dup2"
      BY <1>2, <1>5, <1>6, <2>1
    <2>3. Day(now[t]) = Day(lastRotate)
      BY <1>7, <2>1 DEF OfToday, Rotating
    <2> QED
      BY <1>3, <1>5, <1>6, <2>1, <2>2, <2>3
  <1>17. CASE WriteLine(t)
    <2>1. /\ pc[t] = "write" /\ pc'[t] = "idle"
          /\ lines' = [lines EXCEPT ![fd] = @ \cup {Day(clock)}]
          /\ UNCHANGED <<lastRotate, realRotate, fd, opened>>
      BY <1>1, <1>4, <1>17 DEF WriteLine, Goto, logger
    <2>2. lines'[fd] = lines[fd] \cup {Day(clock)} /\ \A i \in 1 .. made : i # fd => lines'[i] = lines[i]
      BY <1>1, <1>4, <2>1 DEF NoFile
    <2>3. \A u \in Thread : Winner(u)' <=> Winner(u)
      BY <1>6, <2>1 DEF Winner
    <2>4. \A u \in Thread : pc[u] = "dup2" => opened[u] \in 1 .. made
      BY <1>1 DEF FdFollows, NoFile
    <2> QED
      BY <1>3, <1>5, <1>6, <2>1, <2>2, <2>3, <2>4
  <1> QED
    BY <1>8, <1>9, <1>10, <1>11, <1>12, <1>13, <1>14, <1>15, <1>16, <1>17 DEF ThreadStep

LEMMA LinesOfDayNext ==
    ASSUME TypeInv, Race, FdFollows, LinesOfDay, [Next]_loggerVars
    PROVE  LinesOfDay'
  <1>1. CASE Tick \/ UNCHANGED loggerVars
    <2>1. UNCHANGED <<lastRotate, realRotate, fd, filename, disk, lines, pc, now, old, opened, since>>
      BY <1>1 DEF Tick, loggerVars, logger, files, thread, world
    <2> QED
      BY <2>1 DEF LinesOfDay, Winner
  <1>2. CASE Restart
    BY <1>2 DEF Restart, LinesOfDay
  <1>3. ASSUME NEW n \in FileName, SetFileName(n) PROVE LinesOfDay'
    <2>1. /\ pc' = [t \in Thread |-> "idle"]
          /\ since' = Day(realRotate) /\ realRotate' = realRotate
      BY <1>3 DEF SetFileName, thread
    <2>2. Day(realRotate) \in Nat
      BY TimeFacts, DayMonotone DEF TypeInv
    <2>3. ~ (since' < Day(realRotate'))
      BY <2>1, <2>2
    <2> QED
      BY <2>1, <2>3 DEF LinesOfDay
  <1> QED
    BY <1>1, <1>2, <1>3, LinesOfDayThread DEF Next, ThreadStep

-----------------------------------------------------------------------------
\* The theorems.

LoggerInv == TypeInv /\ Race /\ Directory /\ FdFollows /\ LinesOfDay

LEMMA InvAlways ==
    ASSUME Prompt
    PROVE  Spec => []LoggerInv
  <1>1. Init => LoggerInv
    BY TypeInit, RaceInit, DirectoryInit DEF Init, FdFollows, LinesOfDay, LoggerInv
  <1>2. LoggerInv /\ [Next]_loggerVars => LoggerInv'
    BY TypeNext, RaceNext, DirectoryNext, FdFollowsNext, LinesOfDayNext DEF LoggerInv
  <1> QED
    BY <1>1, <1>2, PTL DEF Spec

(* When no interval ends while a thread is in maybeRotate, a file with lines  *)
(* in it has a name at all times: no rename() of logv replaces a file.        *)
THEOREM NothingEverLost ==
    ASSUME Prompt
    PROVE  Spec => []NothingLost
  <1>1. LoggerInv => NothingLost
    BY DEF LoggerInv, Directory, AllNamed, NothingLost
  <1> QED
    BY InvAlways, <1>1, PTL

(* Under the same condition no interval has two rotated files of one name,    *)
(* however many threads notice its end and however often the process starts.  *)
THEOREM OneRotationOnly ==
    ASSUME Prompt
    PROVE  Spec => []OneRotation
  <1>1. LoggerInv => OneRotation
    BY DEF LoggerInv, Directory
  <1> QED
    BY InvAlways, <1>1, PTL

(* Under the same condition the lines of a quiet logger go to the file that   *)
(* has the name given, unless an open() failed.                               *)
THEOREM FdIsAlwaysNamed ==
    ASSUME Prompt
    PROVE  Spec => []FdIsNamed
  <1>1. LoggerInv => FdIsNamed
    BY DEF LoggerInv, FdFollows, Between, Quiet, Rotating, FdIsNamed
  <1> QED
    BY InvAlways, <1>1, PTL

(* Under the same condition, and on a sound disk, a thread about to write     *)
(* finds no line of an earlier interval in the file, unless it logs in the    *)
(* interval in which setFileName opened the file with such lines in it.       *)
THEOREM FileIsAlwaysOfTheDay ==
    ASSUME Prompt
    PROVE  Spec => []FileOfTheDay
  <1>1. LoggerInv => FileOfTheDay
    <2> SUFFICES ASSUME LoggerInv, Quiet, filename # NoName, disk = "sound",
                        NEW t \in Thread, pc[t] = "write", since < Day(now[t]), NEW d \in lines[fd]
                 PROVE  d >= Day(now[t])
      BY DEF FileOfTheDay
    <2>1. \A u \in Thread : pc[u] # "exchange" /\ ~ Winner(u)
      BY DEF Quiet, Rotating, Winner
    <2>2. Day(lastRotate) <= Day(realRotate)
      BY <2>1 DEF LoggerInv, Race, Exchanged
    <2>3. Day(now[t]) <= Day(lastRotate)
      BY DEF LoggerInv, LinesOfDay
    <2>4. Day(now[t]) \in Nat /\ Day(lastRotate) \in Nat /\ Day(realRotate) \in Nat /\ Day(clock) \in Nat
      BY TimeFacts, DayMonotone DEF LoggerInv, TypeInv
    <2>5. d \in Int /\ since \in Int
      <3>1. fd \in 1 .. made
        BY DEF LoggerInv, TypeInv, TypeOK, FdFollows, NoFile
      <3>2. lines[fd] \subseteq Day(0) .. Day(clock) /\ since \in Day(0) .. Day(clock)
        BY <3>1 DEF LoggerInv, TypeInv, TypeOK
      <3> QED
        BY <3>2
    <2>6. since < Day(realRotate)
      BY <2>2, <2>3, <2>4, <2>5
    <2>7. d >= Day(realRotate)
      BY <2>1, <2>6 DEF LoggerInv, LinesOfDay
    <2> QED
      BY <2>2, <2>3, <2>4, <2>5, <2>7
  <1> QED
    BY InvAlways, <1>1, PTL
=============================================================================
