-------------------------------- MODULE Logger --------------------------------
(* commlib/logging.cpp: threads that log, and whoever finds that an interval  *)
(* is over rotates the file.  Nothing is locked: lastRotate_ is a plain long, *)
(* only realRotate_ is atomic, so each access to them and each system call is *)
(* a step.  The process may stop anywhere and start again.                    *)
(*                                                                            *)
(* The clock counts ticks from a midnight of the local time; a file is an     *)
(* inode, and names leads from names to inodes.                               *)
EXTENDS Integers, FiniteSets

CONSTANTS Thread, FileName,
          NoName,       \* filename_ is empty
          Interval,     \* rotateInterval_: 86400 s
          Minute,       \* how long a rotated file's name stays the same: 60 s
          ClockMax,     \* bound on the clock
          CrashMax,     \* bound on the restarts
          Prompt,       \* whether no interval ends while a thread is in maybeRotate
          Disks         \* "sound", "failing": rename() and open() may fail

ASSUME LoggerAssumption ==
    /\ Minute \in Nat \ {0} /\ Interval \in Nat \ {0} /\ Interval % Minute = 0
    /\ ClockMax \in Nat /\ CrashMax \in Nat /\ Prompt \in BOOLEAN
    /\ NoName \notin FileName /\ Disks \subseteq {"sound", "failing"}
    \* no file is given a name that a rotation would make up
    /\ \A f, g \in FileName : \A m \in 0 .. ClockMax \div Minute : f # <<g, m>>

VARIABLES clock, crashes, disk,
          lastRotate, realRotate, fd, filename,   \* the Logger; fd is the inode it is open on
          names, made,                            \* the file system; inodes are 1 .. made
          lines,                                  \* lines[i]: the intervals inode i has lines of
          pc, now, old, opened,                   \* the threads in logv
          since       \* history: the interval of the last rotation, or of the start of the
                      \* process, when setFileName opened the file

logger == <<lastRotate, realRotate, fd, filename>>
files  == <<names, made, lines>>
thread == <<pc, now, old, opened>>
world  == <<clock, crashes, disk>>
loggerVars == <<world, logger, files, thread, since>>

Day(t)   == t \div Interval
Name     == FileName \cup (FileName \X (0 .. ClockMax \div Minute))
NoFile   == 0
Rotating == {"exchange", "check", "rename", "open", "dup2"}

TypeOK == /\ clock \in 0 .. ClockMax /\ crashes \in 0 .. CrashMax /\ disk \in Disks
          /\ lastRotate \in 0 .. clock /\ realRotate \in 0 .. clock
          /\ made \in Nat /\ DOMAIN lines = 1 .. made
          /\ fd \in 0 .. made /\ filename \in FileName \cup {NoName}
          /\ names \in [Name -> 0 .. made]
          /\ \A i \in 1 .. made : lines[i] \subseteq Day(0) .. Day(clock)
          /\ pc \in [Thread -> {"idle", "compare", "store", "write"} \cup Rotating]
          /\ now \in [Thread -> 0 .. clock] /\ old \in [Thread -> 0 .. clock]
          /\ opened \in [Thread -> 0 .. made] /\ since \in Day(0) .. Day(clock)

Idle == /\ pc = [t \in Thread |-> "idle"]
        /\ now = [t \in Thread |-> 0] /\ old = [t \in Thread |-> 0]
        /\ opened = [t \in Thread |-> NoFile]

Init == /\ clock = 0 /\ crashes = 0 /\ disk \in Disks
        /\ lastRotate = 0 /\ realRotate = 0 /\ fd = NoFile /\ filename = NoName
        /\ names = [n \in Name |-> NoFile] /\ made = 0 /\ lines = << >>
        /\ Idle /\ since = Day(0)

-----------------------------------------------------------------------------
\* The world.

Tick == /\ clock < ClockMax
        /\ Prompt => \A t \in Thread : pc[t] \in {"idle", "write"} \/ Day(clock + 1) = Day(now[t])
        /\ clock' = clock + 1
        /\ UNCHANGED <<crashes, disk, logger, files, thread, since>>

\* The constructor of the new process sets both times; the files stay as they are.
Restart == /\ crashes < CrashMax
           /\ crashes' = crashes + 1
           /\ lastRotate' = clock /\ realRotate' = clock /\ fd' = NoFile /\ filename' = NoName
           /\ pc' = [t \in Thread |-> "idle"] /\ opened' = [t \in Thread |-> NoFile]
           /\ now' = [t \in Thread |-> 0] /\ old' = [t \in Thread |-> 0]
           /\ UNCHANGED <<clock, disk, files, since>>

\* open( O_APPEND | O_CREAT ): the inode of n, a new one if there is none.
Create(n) == IF names[n] = NoFile
             THEN /\ names' = [names EXCEPT ![n] = made + 1]
                  /\ made' = made + 1
             ELSE UNCHANGED <<names, made>>

\* setFileName, called while nobody logs: filename_ is a std::string.  When it
\* cannot open the file it changes nothing.
SetFileName(n) == /\ pc = [t \in Thread |-> "idle"]
                  /\ Create(n)
                  /\ fd' = names'[n] /\ filename' = n
                  /\ lines' = [i \in 1 .. made' |-> IF i \in 1 .. made THEN lines[i] ELSE {}]
                  /\ since' = Day(realRotate)
                  /\ UNCHANGED <<lastRotate, realRotate, world, thread>>

-----------------------------------------------------------------------------
\* logv, step by step.

Goto(t, l) == pc' = [pc EXCEPT ![t] = l]

Time(t) == /\ pc[t] = "idle"
           /\ now' = [now EXCEPT ![t] = clock]
           /\ Goto(t, IF filename = NoName THEN "write" ELSE "compare")
           /\ UNCHANGED <<old, opened, logger, files, world, since>>

\* Fault: time since the last rotation instead of the interval of the calendar
Elapsed(a, b) == a - b < Interval

SameInterval(a, b) == Day(a) = Day(b)

Compare(t) == /\ pc[t] = "compare"
              /\ Goto(t, IF SameInterval(now[t], lastRotate) THEN "write" ELSE "store")
              /\ UNCHANGED <<now, old, opened, logger, files, world, since>>

Store(t) == /\ pc[t] = "store"
            /\ lastRotate' = now[t]
            /\ Goto(t, "exchange")
            /\ UNCHANGED <<now, old, opened, realRotate, fd, filename, files, world, since>>

Exchange(t) == /\ pc[t] = "exchange"
               /\ old' = [old EXCEPT ![t] = realRotate]
               /\ realRotate' = now[t]
               /\ Goto(t, "check")
               /\ UNCHANGED <<now, opened, lastRotate, fd, filename, files, world, since>>

\* Faults: whoever gets here rotates; everybody leaves it to another
AlwaysRotate(t, last) == Goto(t, "rename")
NeverRotate(t, last)  == Goto(t, "write")

Decide(t, last) == Goto(t, IF SameInterval(old[t], last) THEN "write" ELSE "rename")

\* lastRotate_ is read without synchronisation: the build may use the value just stored.
Check(t) == /\ pc[t] = "check"
            /\ \E last \in {lastRotate, now[t]} : Decide(t, last)
            /\ UNCHANGED <<now, old, opened, logger, files, world, since>>

RotatedName(t) == <<filename, now[t] \div Minute>>

\* rename() replaces the file that has the new name.
Rename(t) == /\ pc[t] = "rename"
             /\ names[filename] # NoFile
             /\ names' = [names EXCEPT ![RotatedName(t)] = names[filename], ![filename] = NoFile]
             /\ Goto(t, "open")
             /\ UNCHANGED <<now, old, opened, logger, made, lines, world, since>>

RenameFails(t) == /\ pc[t] = "rename"
                  /\ disk = "failing" \/ names[filename] = NoFile
                  /\ Goto(t, "write")
                  /\ UNCHANGED <<now, old, opened, logger, files, world, since>>

Open(t) == /\ pc[t] = "open"
           /\ Create(filename)
           /\ lines' = [i \in 1 .. made' |-> IF i \in 1 .. made THEN lines[i] ELSE {}]
           /\ opened' = [opened EXCEPT ![t] = names'[filename]]
           /\ Goto(t, "dup2")
           /\ UNCHANGED <<now, old, logger, world, since>>

\* Fault: the result of open() is not looked at
OpenUnchecked(t) == /\ pc[t] = "open" /\ disk = "failing"
                    /\ opened' = [opened EXCEPT ![t] = -1]
                    /\ Goto(t, "dup2")
                    /\ UNCHANGED <<now, old, logger, files, world, since>>

OpenFails(t) == /\ pc[t] = "open" /\ disk = "failing"
                /\ Goto(t, "write")
                /\ UNCHANGED <<now, old, opened, logger, files, world, since>>

\* Fault: the new file is closed and never used
CloseOnly(t) == /\ pc[t] = "dup2"
                /\ opened' = [opened EXCEPT ![t] = NoFile]
                /\ Goto(t, "write")
                /\ UNCHANGED <<now, old, logger, files, world, since>>

Dup2(t) == /\ pc[t] = "dup2"
           /\ fd' = opened[t]
           /\ opened' = [opened EXCEPT ![t] = NoFile]
           /\ Goto(t, "write")
           /\ UNCHANGED <<now, old, lastRotate, realRotate, filename, files, world, since>>

\* The line carries the time of its own; without a file it goes to the standard output.
WriteLine(t) == /\ pc[t] = "write"
                /\ lines' = IF fd = NoFile THEN lines ELSE [lines EXCEPT ![fd] = @ \cup {Day(clock)}]
                /\ Goto(t, "idle")
                /\ now' = [now EXCEPT ![t] = 0] /\ old' = [old EXCEPT ![t] = 0]
                /\ UNCHANGED <<opened, logger, names, made, world, since>>

Next == \/ Tick \/ Restart
        \/ \E n \in FileName : SetFileName(n)
        \/ \E t \in Thread : \/ Time(t) \/ Compare(t) \/ Store(t) \/ Exchange(t) \/ Check(t)
                             \/ Rename(t) \/ RenameFails(t) \/ Open(t) \/ OpenFails(t)
                             \/ Dup2(t) \/ WriteLine(t)

Spec == Init /\ [][Next]_loggerVars

-----------------------------------------------------------------------------
\* Properties.

Quiet == \A t \in Thread : pc[t] \notin Rotating

(* A file with lines in it has a name, so that its lines can be found: no     *)
(* rotation renames a file over another, whoever rotates, after whatever      *)
(* failure and restart.                                                       *)
NothingLost ==
    \A i \in 1 .. made : lines[i] # {} => \E n \in Name : names[n] = i

(* In one interval a file is rotated once, also by two runs of the process    *)
(* and by threads that noticed the end of the interval at different times.    *)
OneRotation ==
    \A f \in FileName : \A m1, m2 \in 0 .. ClockMax \div Minute :
        /\ names[<<f, m1>>] # NoFile /\ names[<<f, m2>>] # NoFile
        /\ Day(m1 * Minute) = Day(m2 * Minute)
        => m1 = m2

(* While nobody rotates, lines go to the file that has the name given, unless *)
(* there is none, after an open() that failed: then they go on to the renamed *)
(* file, until setFileName is called.                                         *)
FdIsNamed ==
    (Quiet /\ filename # NoName) =>
        names[filename] \in {fd} \cup IF disk = "failing" THEN {NoFile} ELSE {}

(* Once nobody rotates, a thread that logs in an interval after the one in    *)
(* which setFileName opened the file finds no line of an earlier interval in  *)
(* it: none misses a rotation.  setFileName itself opens what is there, and   *)
(* the constructor takes the start for the last rotation: a process that is   *)
(* started again after the end of an interval goes on in the file of the      *)
(* interval before, until the first rotation of its own.                      *)
FileOfTheDay ==
    (Quiet /\ filename # NoName /\ disk = "sound") =>
        \A t \in Thread : (pc[t] = "write" /\ since < Day(now[t])) =>
            \A d \in lines[fd] : d >= Day(now[t])

(* Whoever rotates was given a value older than its own, as the comment at    *)
(* logging.cpp:81 has it: a new value means that somebody else rotates.       *)
RotatesWithOldValue ==
    \A t \in Thread : pc[t] = "rename" => Day(old[t]) < Day(now[t])
=============================================================================
