--------------------------- MODULE CollectorProofs ---------------------------
(***************************************************************************)
(* The grid of SlotClock is what schedule.py's docstrings say, for every   *)
(* length of day, interval that divides it and anchor; and the collector   *)
(* stands on it at every instant.  What it runs on is the file, what it    *)
(* commits is what it says, and only a pass that overruns loses a slot.    *)
(***************************************************************************)
EXTENDS Collector, TLAPS, WellFoundedInduction

\* A multiple of b that is less than b away from zero is zero.
LEMMA SmallMultiple ==
  ASSUME NEW b \in Nat \ {0}, NEW k \in Int, -b < b * k, b * k < b
  PROVE  k = 0
<1>1. CASE k >= 1
  <2>1. b * k >= b  BY <1>1, SMT
  <2> QED BY <2>1
<1>2. CASE k <= -1
  <2>1. b * k <= -b  BY <1>2, SMT
  <2> QED BY <2>1
<1> QED BY <1>1, <1>2

\* Division with remainder, and its uniqueness.
LEMMA DivMod ==
  ASSUME NEW a \in Int, NEW b \in Nat \ {0}
  PROVE  /\ a \div b \in Int /\ a % b \in 0 .. b - 1
         /\ a = b * (a \div b) + (a % b)
  BY SMT

LEMMA ModUnique ==
  ASSUME NEW b \in Nat \ {0}, NEW q \in Int, NEW r \in 0 .. b - 1
  PROVE  (b * q + r) % b = r
<1> DEFINE a == b * q + r
<1>1. a \in Int  OBVIOUS
<1>2. /\ a \div b \in Int /\ a % b \in 0 .. b - 1
      /\ a = b * (a \div b) + (a % b)
  BY <1>1, DivMod
<1> DEFINE k == q - a \div b
<1>3. k \in Int /\ b * k = (a % b) - r  BY <1>2, SMT
<1>4. k = 0  BY <1>2, <1>3, SmallMultiple
<1> QED BY <1>2, <1>3, <1>4

\* The instants from one anchor to the next are on the grid when they are a
\* whole number of intervals after it.
LEMMA OnGridFromAnchor ==
  ASSUME NEW interval \in 1 .. Day, NEW anchor \in Int, NEW m \in Int,
         NEW idx \in Int, NEW j \in 0 .. interval - 1,
         interval * idx + j \in 0 .. Day - 1
  PROVE  OnGrid(anchor + Day * m + interval * idx + j, interval, anchor) <=> j = 0
<1> DEFINE offset == interval * idx + j
<1> USE DayAssumption
<1>1. (Day * m + offset) % Day = offset  BY ModUnique
<1>2. (interval * idx + j) % interval = j  BY ModUnique
<1>3. interval * idx \in Int /\ Day * m \in Int  OBVIOUS
<1>4. (anchor + Day * m + interval * idx + j) - anchor = Day * m + offset
  BY <1>3, SMT
<1> QED BY <1>1, <1>2, <1>4 DEF OnGrid

\* For every interval that divides the day and every anchor, the slot of an
\* instant and the next scheduled instant are the neighbours of that instant
\* on the grid (slot_for_instant, next_scheduled_instant_utc).
THEOREM NeighboursOnGrid ==
  ASSUME NEW t \in Int, NEW interval \in 1 .. Day, Day % interval = 0,
         NEW anchor \in 0 .. Day - 1
  PROVE  GridAround(t, interval, anchor)
<1> USE DayAssumption
<1> DEFINE elapsed == t % Day
           since == IF elapsed < anchor THEN elapsed + Day - anchor ELSE elapsed - anchor
           idx == since \div interval
           r == since % interval
           slot == SlotForInstant(t, interval, anchor)
           next == NextScheduledInstant(t, interval, anchor)
           m == IF elapsed < anchor THEN (t \div Day) - 1 ELSE t \div Day
<1>0. anchor \in Int  OBVIOUS
<1>1. /\ t \div Day \in Int /\ elapsed \in 0 .. Day - 1
      /\ t = Day * (t \div Day) + elapsed
  BY DivMod
<1>2. since \in 0 .. Day - 1 /\ m \in Int /\ Day * m \in Int
  BY <1>1, SMT
<1>3. t = anchor + Day * m + since
  <2>1. CASE elapsed < anchor
    <3>1. Day * m = Day * (t \div Day) - Day  BY <2>1, <1>1, SMT
    <3> QED BY <3>1, <2>1, <1>1
  <2>2. CASE ~(elapsed < anchor)
    BY <2>2, <1>1
  <2> QED BY <2>1, <2>2
<1> HIDE DEF elapsed, since, m
<1>4. idx \in Int /\ r \in 0 .. interval - 1 /\ since = interval * idx + r
  BY <1>2, DivMod
<1>5. interval * idx \in Int /\ interval * (idx + 1) = interval * idx + interval
  BY <1>4, SMT
<1>6. slot = anchor + Day * m + interval * idx
  <2>1. slot = t - since + idx * interval  BY DEF SlotForInstant, since, elapsed
  <2>2. idx * interval = interval * idx  BY <1>4, SMT
  <2> QED BY <2>1, <2>2, <1>2, <1>3, <1>4, <1>5
<1> HIDE DEF idx, r, slot
<1>7. slot \in Int /\ slot = t - r  BY <1>2, <1>3, <1>4, <1>5, <1>6
<1>8. next = slot + interval
  BY <1>4, <1>7 DEF NextScheduledInstant, slot
<1> HIDE DEF next
<1>9. slot <= t /\ t < next  BY <1>4, <1>7, <1>8
<1>10. interval * idx \in 0 .. Day - 1
  <2>1. idx >= 0
    <3> SUFFICES ASSUME idx <= -1 PROVE FALSE  BY <1>4
    <3>1. interval * idx <= -interval  BY <1>4, SMT
    <3> QED BY <3>1, <1>2, <1>4
  <2>2. interval * idx >= 0  BY <2>1, <1>4, SMT
  <2> QED BY <2>2, <1>2, <1>4, <1>5
<1>11. OnGrid(slot, interval, anchor)
  <2>1. slot = anchor + Day * m + interval * idx + 0  BY <1>2, <1>5, <1>6
  <2>2. interval * idx + 0 \in 0 .. Day - 1 /\ 0 \in 0 .. interval - 1  BY <1>10
  <2>3. OnGrid(anchor + Day * m + interval * idx + 0, interval, anchor) <=> 0 = 0
    BY <2>2, <1>0, <1>2, <1>4, OnGridFromAnchor, Zenon
  <2> QED BY <2>1, <2>3
<1>12. interval * (idx + 1) <= Day
  \* Day is a whole number of intervals, and more than idx of them.
  <2> DEFINE k == Day \div interval
  <2>1. k \in Int /\ Day = interval * k
    BY DivMod
  <2> HIDE DEF k
  <2>2. interval * idx < interval * k  BY <2>1, <1>10
  <2>3. idx < k
    <3> SUFFICES ASSUME k <= idx PROVE FALSE  BY <2>1, <1>4
    <3>1. interval * k <= interval * idx  BY <2>1, <1>4, SMT
    <3> QED BY <3>1, <2>2, <2>1, <1>5
  <2>4. interval * (idx + 1) <= interval * k  BY <2>3, <2>1, <1>4, SMT
  <2> QED BY <2>4, <2>1
<1>13. OnGrid(next, interval, anchor)
  <2>1. CASE interval * (idx + 1) < Day
    <3>1. next = anchor + Day * m + interval * (idx + 1) + 0
      BY <1>2, <1>5, <1>6, <1>8
    <3>2. /\ interval * (idx + 1) + 0 \in 0 .. Day - 1
          /\ 0 \in 0 .. interval - 1 /\ idx + 1 \in Int
      BY <2>1, <1>4, <1>5, <1>10
    <3>3. OnGrid(anchor + Day * m + interval * (idx + 1) + 0, interval, anchor) <=> 0 = 0
      BY <3>2, <1>0, <1>2, OnGridFromAnchor, Zenon
    <3> QED BY <3>1, <3>3
  <2>2. CASE interval * (idx + 1) = Day
    <3>1. next = anchor + Day * (m + 1) + interval * 0 + 0
      BY <2>2, <1>2, <1>5, <1>6, <1>8, SMT
    <3>2. /\ interval * 0 + 0 \in 0 .. Day - 1 /\ 0 \in 0 .. interval - 1
          /\ m + 1 \in Int /\ 0 \in Int
      BY <1>2, SMT
    <3>3. OnGrid(anchor + Day * (m + 1) + interval * 0 + 0, interval, anchor) <=> 0 = 0
      BY <3>2, <1>0, OnGridFromAnchor, Zenon
    <3> QED BY <3>1, <3>3
  <2> QED BY <2>1, <2>2, <1>5, <1>12
<1>14. ASSUME NEW u \in slot + 1 .. next - 1
       PROVE  ~OnGrid(u, interval, anchor)
  <2> DEFINE j == u - slot
  <2>1. j \in 1 .. interval - 1 /\ u = anchor + Day * m + interval * idx + j
    BY <1>2, <1>5, <1>6, <1>7, <1>8
  <2>2. interval * idx + j \in 0 .. Day - 1
    BY <2>1, <1>5, <1>10, <1>12
  <2>3. j \in 0 .. interval - 1 /\ j # 0  BY <2>1
  <2>4. OnGrid(anchor + Day * m + interval * idx + j, interval, anchor) <=> j = 0
    BY <2>2, <2>3, <1>0, <1>2, <1>4, OnGridFromAnchor, Zenon
  <2> QED BY <2>1, <2>3, <2>4
<1> QED BY <1>9, <1>11, <1>13, <1>14 DEF GridAround, slot, next

-----------------------------------------------------------------------------
(***************************************************************************)
(* The collector on its grid.  What is needed of a state is small: the     *)
(* clock is an integer, and the configuration in use is one that loads.    *)
(***************************************************************************)
OnValidConfig ==
  /\ clock \in Int
  /\ file.content \in Configs \union {Broken}
  /\ "config" \in DOMAIN node
  /\ node.config \in Configs \union {<<>>}

LEMMA InitOnValidConfig == Init => OnValidConfig
<1> USE DayAssumption, CollectorAssumption
<1> SUFFICES ASSUME Init PROVE OnValidConfig  OBVIOUS
<1>1. clock \in Int  BY DEF Init
<1>2. file.content \in Configs  BY DEF Init
<1>3. node = Down  BY DEF Init
<1> QED BY <1>1, <1>2, <1>3 DEF OnValidConfig, Down

LEMMA NextOnValidConfig == OnValidConfig /\ [Next]_vars => OnValidConfig'
<1> SUFFICES ASSUME OnValidConfig, [Next]_vars PROVE OnValidConfig'
  OBVIOUS
<1> USE DEF OnValidConfig, world
<1>1. CASE Start  BY <1>1 DEF Start, Down
<1>2. ASSUME Dies, UNCHANGED world PROVE OnValidConfig'
  BY <1>2 DEF Dies, Down
<1>3. CASE Load
  BY <1>2, <1>3 DEF Load
<1>4. CASE FirstStat  BY <1>4 DEF FirstStat
<1>5. CASE FirstSync  BY <1>5 DEF FirstSync, Goto
<1>6. CASE Top
  BY <1>2, <1>6 DEF Top
<1>7. CASE Reload
  BY <1>2, <1>7 DEF Reload
<1>8. CASE RunDueTasks  BY <1>8 DEF RunDueTasks, Goto
<1>9. CASE RunCycle  BY <1>9 DEF RunCycle, Goto
<1>10. CASE CycleDone  BY <1>10 DEF CycleDone, Goto
<1>11. CASE PassDone
  BY <1>2, <1>11 DEF PassDone
<1>12. CASE Wake  BY <1>12 DEF Wake
<1>13. CASE BeginStation  BY <1>13 DEF BeginStation, Goto
<1>14. CASE UnexpectedError  BY <1>14 DEF UnexpectedError, Commit, Goto
<1>15. CASE FetchPage  BY <1>15 DEF FetchPage
<1>16. CASE PageFails
  BY <1>16 DEF PageFails, Commit, Goto
<1>17. CASE MetricFails  BY <1>17 DEF MetricFails, Commit, Goto
<1>18. CASE FinishStation  BY <1>18 DEF FinishStation, Commit, Goto
<1>19. CASE Tick  BY <1>19 DEF Tick
<1>20. CASE Edit  BY <1>20 DEF Edit
<1>21. CASE Signal  BY <1>21 DEF Signal
<1>22. CASE Crash  BY <1>2, <1>22 DEF Crash
<1>23. CASE UNCHANGED vars  BY <1>23 DEF vars
<1> QED
  BY <1>1, <1>3, <1>4, <1>5, <1>6, <1>7, <1>8, <1>9, <1>10, <1>11, <1>12, <1>13,
     <1>14, <1>15, <1>16, <1>17, <1>18, <1>19, <1>20, <1>21, <1>22, <1>23
  DEF Next, Process

LEMMA ValidConfigOnGrid == OnValidConfig => GridsHold
<1> SUFFICES ASSUME OnValidConfig, NEW i \in DOMAIN node.config, NEW kind \in Kinds
             PROVE  GridAround(clock, Grid(node.config[i], kind).interval,
                               Grid(node.config[i], kind).anchor)
  BY DEF GridsHold
<1>1. node.config \in Configs
  BY DEF OnValidConfig
<1>2. LET g == Grid(node.config[i], kind)
      IN  g.interval \in 1 .. Day /\ Day % g.interval = 0 /\ g.anchor \in 0 .. Day - 1
  BY <1>1, CollectorAssumption
<1>3. clock \in Int  BY DEF OnValidConfig
<1> QED BY <1>2, <1>3, NeighboursOnGrid

\* At every instant and for every task of the file in use, the slot and the
\* next scheduled instant are neighbours on the task's grid, for all lengths
\* of day, all files that load, and whatever the process is doing.
THEOREM GridsAlwaysHold == Spec => []GridsHold
<1>1. Init => OnValidConfig  BY InitOnValidConfig
<1>2. OnValidConfig /\ [Next]_vars => OnValidConfig'  BY NextOnValidConfig
<1>3. OnValidConfig => GridsHold  BY ValidConfigOnGrid
<1> QED BY <1>1, <1>2, <1>3, PTL DEF Spec

-----------------------------------------------------------------------------
(***************************************************************************)
(* The file, the configuration in use and the stations table.  An edit     *)
(* makes the file's time larger than every time the process has kept, so   *)
(* it is enough to say, for each place of the loop, what the configuration *)
(* and the table are while the time kept is still the file's.              *)
(***************************************************************************)
InPass == {"run", "task", "cycle", "fetch", "asleep"}
Places == InPass \union {"down", "load", "stat", "sync", "top", "reload"}

FileTypes ==
  /\ DOMAIN node = DOMAIN Down
  /\ node.pc \in Places
  /\ DOMAIN file = {"content", "mtime"}
  /\ file.mtime \in Int /\ node.mtime \in Int

\* No time the process has kept is later than the file's.
TimesPast ==
  /\ node.pc \notin {"down", "load"} => node.mtime <= file.mtime
  /\ node.pc = "reload" => node.since \in Int /\ node.since <= file.mtime

\* The configuration is the file's content once it was read after the time.
ConfigIsContent ==
  node.mtime = file.mtime =>
    /\ node.pc \in InPass \union {"stat"} => node.config = file.content
    /\ node.pc = "sync" /\ ~node.raced => node.config = file.content

\* The stations of the content are in the table once it was synced.
TableHasContent ==
  /\ node.mtime = file.mtime /\ ~node.raced =>
       /\ node.pc \in InPass \union {"top"} => StationsOf(file.content) \subseteq known
       /\ node.pc = "reload" /\ node.since = file.mtime =>
            StationsOf(file.content) \subseteq known

FileInv == FileTypes /\ TimesPast /\ ConfigIsContent /\ TableHasContent

LEMMA InitFileInv == Init => FileInv
<1> SUFFICES ASSUME Init PROVE FileInv  OBVIOUS
<1>1. node = Down /\ node.pc = "down" /\ node.mtime = 0  BY DEF Init, Down
<1>2. file.mtime = 0 /\ DOMAIN file = {"content", "mtime"}  BY DEF Init
<1>3. FileTypes  BY <1>1, <1>2 DEF FileTypes, Places
<1> QED
  BY <1>1, <1>3 DEF FileInv, TimesPast, ConfigIsContent, TableHasContent, InPass

\* A process that goes down forgets all times.
LEMMA DiesFileInv ==
  ASSUME FileInv, Dies, UNCHANGED world
  PROVE  FileInv'
<1>1. node' = Down /\ node'.pc = "down" /\ node'.mtime = 0  BY DEF Dies, Down
<1>2. file' = file  BY DEF world
<1>3. FileTypes'  BY <1>1, <1>2 DEF FileInv, FileTypes, Places
<1> QED
  BY <1>1, <1>3 DEF FileInv, TimesPast, ConfigIsContent, TableHasContent, InPass

\* A step of the pass moves within it and keeps configuration, times and table.
LEMMA InPassFileInv ==
  ASSUME FileInv, UNCHANGED <<file, known>>, node.pc \in InPass,
         NEW pc \in InPass, Goto(pc) \/ UNCHANGED node
  PROVE  FileInv'
<1>1. /\ node'.pc \in InPass /\ node'.config = node.config /\ node'.mtime = node.mtime
      /\ node'.raced = node.raced /\ DOMAIN node' = DOMAIN Down
  BY DEF FileInv, FileTypes, Goto, Down
<1>2. FileTypes'  BY <1>1 DEF FileInv, FileTypes, Places
<1> QED
  BY <1>1, <1>2 DEF FileInv, TimesPast, ConfigIsContent, TableHasContent, InPass

LEMMA NextFileInv == FileInv /\ [Next]_vars => FileInv'
<1> SUFFICES ASSUME FileInv, [Next]_vars PROVE FileInv'
  OBVIOUS
<1> USE DEF world, InPass
<1>1. CASE Start
  <2>1. /\ DOMAIN node' = DOMAIN Down /\ node'.pc = "load" /\ node'.mtime = 0
        /\ file' = file /\ known' = known
    BY <1>1 DEF Start, Down
  <2> QED
    BY <2>1 DEF FileInv, FileTypes, TimesPast, ConfigIsContent, TableHasContent, Places
<1>2. CASE Load
  <2>1. CASE file.content = Broken  BY <1>2, <2>1, DiesFileInv DEF Load
  <2>2. CASE file.content # Broken
    <3>1. /\ DOMAIN node' = DOMAIN Down /\ node'.pc = "stat" /\ node'.mtime = file.mtime
          /\ node'.config = file.content /\ file' = file
      BY <1>2, <2>2 DEF Load, FileInv, FileTypes, Down
    <3> QED
      BY <3>1 DEF FileInv, FileTypes, TimesPast, ConfigIsContent, TableHasContent, Places
  <2> QED BY <2>1, <2>2
<1>3. CASE FirstStat
  <2>1. /\ DOMAIN node' = DOMAIN Down /\ node'.pc = "sync" /\ node'.mtime = file.mtime
        /\ node'.config = node.config /\ file' = file /\ node.pc = "stat"
        /\ node'.raced <=> node.mtime # file.mtime
    BY <1>3 DEF FirstStat, FileInv, FileTypes, Down
  <2> QED
    BY <2>1 DEF FileInv, FileTypes, TimesPast, ConfigIsContent, TableHasContent, Places
<1>4. CASE FirstSync
  <2>1. /\ DOMAIN node' = DOMAIN Down /\ node'.pc = "top" /\ node'.mtime = node.mtime
        /\ node'.raced = node.raced /\ file' = file /\ node.pc = "sync"
        /\ StationsOf(node.config) \subseteq known'
    BY <1>4 DEF FirstSync, Goto, FileInv, FileTypes, Down
  <2> QED
    BY <2>1 DEF FileInv, FileTypes, TimesPast, ConfigIsContent, TableHasContent, Places
<1>5. CASE Top
  <2>1. CASE node.stop  BY <1>5, <2>1, DiesFileInv DEF Top
  <2>2. CASE ~node.stop
    <3>1. /\ DOMAIN node' = DOMAIN Down /\ node'.pc = "reload" /\ node'.mtime = node.mtime
          /\ node'.raced = node.raced /\ node'.since = file.mtime
          /\ file' = file /\ known' = known /\ node.pc = "top"
      BY <1>5, <2>2 DEF Top, FileInv, FileTypes, Down
    <3> QED
      BY <3>1 DEF FileInv, FileTypes, TimesPast, ConfigIsContent, TableHasContent, Places
  <2> QED BY <2>1, <2>2
<1>6. CASE Reload
  <2>1. CASE file.content = Broken  BY <1>6, <2>1, DiesFileInv DEF Reload
  <2>2. CASE file.content # Broken
    <3>1. /\ DOMAIN node' = DOMAIN Down /\ node'.pc = "run" /\ node'.mtime = node.since
          /\ node'.config = file.content /\ file' = file /\ node.pc = "reload"
          /\ node'.raced <=> node.raced /\ node.since = node.mtime
      BY <1>6, <2>2 DEF Reload, FileInv, FileTypes, Down
    <3>2. /\ node.since # node.mtime => StationsOf(file.content) \subseteq known'
          /\ node.since = node.mtime => known' = known
      BY <1>6, <2>2 DEF Reload
    <3> QED
      BY <3>1, <3>2
      DEF FileInv, FileTypes, TimesPast, ConfigIsContent, TableHasContent, Places
  <2> QED BY <2>1, <2>2
<1>7. CASE PassDone
  <2>1. CASE node.once  BY <1>7, <2>1, DiesFileInv DEF PassDone
  <2>2. CASE ~node.once
    <3>1. /\ DOMAIN node' = DOMAIN Down /\ node'.pc = "asleep" /\ node'.mtime = node.mtime
          /\ node'.config = node.config /\ node'.raced = node.raced
          /\ file' = file /\ known' = known /\ node.pc = "task"
      BY <1>7, <2>2 DEF PassDone, FileInv, FileTypes, Down
    <3> QED
      BY <3>1 DEF FileInv, FileTypes, TimesPast, ConfigIsContent, TableHasContent, Places
  <2> QED BY <2>1, <2>2
<1>8. CASE Wake
  <2>1. /\ DOMAIN node' = DOMAIN Down /\ node'.pc = "top" /\ node'.mtime = node.mtime
        /\ node'.raced = node.raced /\ file' = file /\ known' = known /\ node.pc = "asleep"
    BY <1>8 DEF Wake, FileInv, FileTypes, Down
  <2> QED
    BY <2>1 DEF FileInv, FileTypes, TimesPast, ConfigIsContent, TableHasContent, Places
<1>9. CASE RunDueTasks  BY <1>9, InPassFileInv DEF RunDueTasks
<1>10. CASE RunCycle  BY <1>10, InPassFileInv DEF RunCycle
<1>11. CASE CycleDone  BY <1>11, InPassFileInv DEF CycleDone
<1>12. CASE BeginStation  BY <1>12, InPassFileInv DEF BeginStation
<1>13. CASE UnexpectedError  BY <1>13, InPassFileInv DEF UnexpectedError, Commit
<1>14. CASE FetchPage  BY <1>14, InPassFileInv DEF FetchPage
<1>15. CASE PageFails  BY <1>15, InPassFileInv DEF PageFails, Commit
<1>16. CASE MetricFails  BY <1>16, InPassFileInv DEF MetricFails, Commit
<1>17. CASE FinishStation  BY <1>17, InPassFileInv DEF FinishStation, Commit
<1>18. CASE Tick
  BY <1>18 DEF Tick, FileInv, FileTypes, TimesPast, ConfigIsContent, TableHasContent
<1>19. CASE Edit
  <2>1. /\ DOMAIN file' = {"content", "mtime"} /\ file'.mtime = file.mtime + 1
        /\ node' = node
    BY <1>19 DEF Edit
  <2>2. FileTypes'  BY <2>1 DEF FileInv, FileTypes
  <2>3. TimesPast'  BY <2>1 DEF FileInv, FileTypes, TimesPast
  <2>4. node.pc \notin {"down", "load"} => node'.mtime # file'.mtime
    BY <2>1 DEF FileInv, FileTypes, TimesPast
  <2> QED BY <2>1, <2>2, <2>3, <2>4 DEF FileInv, ConfigIsContent, TableHasContent
<1>20. CASE Signal
  <2>1. /\ DOMAIN node' = DOMAIN Down /\ node'.pc = node.pc /\ node'.mtime = node.mtime
        /\ node'.config = node.config /\ node'.raced = node.raced
        /\ node'.since = node.since /\ file' = file /\ known' = known
    BY <1>20 DEF Signal, FileInv, FileTypes, Down
  <2> QED
    BY <2>1 DEF FileInv, FileTypes, TimesPast, ConfigIsContent, TableHasContent
<1>21. CASE Crash  BY <1>21, DiesFileInv DEF Crash
<1>22. CASE UNCHANGED vars
  BY <1>22 DEF vars, FileInv, FileTypes, TimesPast, ConfigIsContent, TableHasContent
<1> QED
  BY <1>1, <1>2, <1>3, <1>4, <1>5, <1>6, <1>7, <1>8, <1>9, <1>10, <1>11, <1>12, <1>13,
     <1>14, <1>15, <1>16, <1>17, <1>18, <1>19, <1>20, <1>21, <1>22
  DEF Next, Process

\* A sleeping process that has noticed no edit runs on what the file holds,
\* wherever the edits fall between its reads of the file and of its time.
THEOREM AsleepOnCurrentFileHolds == Spec => []AsleepOnCurrentFile
<1>1. FileInv => AsleepOnCurrentFile
  BY DEF FileInv, ConfigIsContent, AsleepOnCurrentFile, InPass
<1> QED BY <1>1, InitFileInv, NextFileInv, PTL DEF Spec

\* ... and the stations of its file are in the table, unless the file was
\* saved between the two reads of the start-up and not since.
THEOREM StationsSyncedHolds == Spec => []StationsSynced
<1>1. FileInv => StationsSynced
  BY DEF FileInv, ConfigIsContent, TableHasContent, StationsSynced, InPass
<1> QED BY <1>1, InitFileInv, NextFileInv, PTL DEF Spec

\* Both: whatever edits and restarts come between its reads.
THEOREM AsleepUpToDateHolds == Spec => []AsleepUpToDate
BY AsleepOnCurrentFileHolds, StationsSyncedHolds, PTL DEF AsleepUpToDate

-----------------------------------------------------------------------------
(***************************************************************************)
(* One station's transaction.  Between its start mark and its commit the   *)
(* pages still to come, the error flag and the rows not yet committed can  *)
(* only be combined in the ways that TxOfForecast and TxOfOnePage list.    *)
(***************************************************************************)
TaskPages == Pages(Task.collector.name, Task.kind)
IsForecast == Task.collector.name = "wunderground" /\ Task.kind = "fc"
Tx(mark, rows) == [mark |-> mark, rows |-> rows]

TxOfForecast ==
  \/ pass.pages = <<"today", "tomorrow">> /\ ~pass.errors /\ tx = Tx(TRUE, {})
  \/ pass.pages = <<"tomorrow">> /\ ~pass.errors /\ tx = Tx(TRUE, {"today"})
  \/ pass.pages = <<"tomorrow">> /\ pass.errors /\ tx = NoTx
  \/ pass.pages = <<>> /\ ~pass.errors /\ tx = Tx(TRUE, {"today", "tomorrow"})
  \/ pass.pages = <<>> /\ pass.errors /\ tx \in {NoTx, Tx(FALSE, {"tomorrow"})}

TxOfOnePage ==
  /\ ~pass.errors
  /\ \E page \in {"current", "batch"} :
       /\ TaskPages = <<page>>
       /\ \/ pass.pages = <<page>> /\ tx = Tx(TRUE, {})
          \/ pass.pages = <<>> /\ tx = Tx(TRUE, {page})
          \/ /\ pass.pages = <<>> /\ tx = Tx(TRUE, {})
             /\ Task.collector.name = "polymarket_clob"

PassFields == {"now", "at", "kind", "stations", "label", "pages", "errors"}

TxInv ==
  /\ DOMAIN node = DOMAIN Down /\ DOMAIN pass = PassFields
  /\ node.pc # "fetch" => tx = NoTx /\ ~pass.errors
  /\ node.pc = "cycle" /\ pass.stations # <<>> => TaskPages # <<>>
  /\ node.pc = "fetch" => IF IsForecast THEN TxOfForecast ELSE TxOfOnePage
  /\ OutcomeMatchesRows

\* The task of the pass is the same as long as the configuration, the time of
\* the pass and its place in the order are.
LEMMA SameTask ==
  ASSUME node'.config = node.config, pass'.now = pass.now,
         pass'.at = pass.at, pass'.kind = pass.kind
  PROVE  Task' = Task /\ TaskPages' = TaskPages /\ IsForecast' = IsForecast
<1>1. Task' = Task  BY DEF Task
<1> QED BY <1>1 DEF TaskPages, IsForecast

\* The three shapes of a station's work.
LEMMA PagesOfTask ==
  /\ IsForecast => TaskPages = <<"today", "tomorrow">>
  /\ ~IsForecast => TaskPages \in {<<"current">>, <<"batch">>, <<>>}
  BY DEF TaskPages, IsForecast, Pages

LEMMA TaskIs == Task.collector = node.config[pass.at] /\ Task.kind = pass.kind
  BY DEF Task

LEMMA PagesAsSets ==
  /\ ToSet(<<"today", "tomorrow">>) = {"today", "tomorrow"}
  /\ \A page : ToSet(<<page>>) = {page}
  BY DEF ToSet

\* The list of pages from its head on, and the fields of a transaction.
LEMMA PageSteps ==
  /\ Tail(<<"today", "tomorrow">>) = <<"tomorrow">>
  /\ Head(<<"today", "tomorrow">>) = "today"
  /\ \A page : Tail(<<page>>) = <<>> /\ Head(<<page>>) = page
<1>1. Tail(<<"today", "tomorrow">>) = <<"tomorrow">>  OBVIOUS
<1>2. Head(<<"today", "tomorrow">>) = "today"  OBVIOUS
<1>3. \A page : Tail(<<page>>) = <<>>  OBVIOUS
<1>4. \A page : Head(<<page>>) = page  OBVIOUS
<1> QED BY <1>1, <1>2, <1>3, <1>4, Zenon

AddRow(t, page) == [t EXCEPT !.rows = @ \union {page}]

LEMMA TxFields ==
  /\ \A mark, rows : Tx(mark, rows).rows = rows
  /\ \A rows : Tx(TRUE, rows).mark /\ Tx(TRUE, rows).rows = rows
  /\ \A rows, page : AddRow(Tx(TRUE, rows), page) = Tx(TRUE, rows \union {page})
  /\ \A rows, page : AddRow(Tx(FALSE, rows), page) = Tx(FALSE, rows \union {page})
<1>1. \A mark, rows : Tx(mark, rows).rows = rows  BY DEF Tx
<1>2. \A rows : Tx(TRUE, rows).mark  BY DEF Tx
<1>3. \A mark, rows, new : [Tx(mark, rows) EXCEPT !.rows = new] = Tx(mark, new)
  BY DEF Tx
<1>4. \A mark, rows, page : AddRow(Tx(mark, rows), page) = Tx(mark, rows \union {page})
  <2> SUFFICES ASSUME NEW mark, NEW rows, NEW page
               PROVE  AddRow(Tx(mark, rows), page) = Tx(mark, rows \union {page})
    OBVIOUS
  <2>1. AddRow(Tx(mark, rows), page)
          = [Tx(mark, rows) EXCEPT !.rows = Tx(mark, rows).rows \union {page}]
    BY DEF AddRow
  <2>2. Tx(mark, rows).rows = rows  BY <1>1
  <2>3. AddRow(Tx(mark, rows), page) = Tx(mark, Tx(mark, rows).rows \union {page})
    BY <2>1, <1>3, Zenon
  <2> QED BY <2>2, <2>3, Zenon
<1> QED BY <1>1, <1>2, <1>4, Zenon

LEMMA NoTxIsEmpty == NoTx = Tx(FALSE, {})
  BY DEF NoTx, Tx

SamePlace ==
  /\ node'.config = node.config /\ pass'.now = pass.now
  /\ pass'.at = pass.at /\ pass'.kind = pass.kind

LEMMA InitTxInv == Init => TxInv
  BY DEF Init, TxInv, Down, Idle, PassFields, OutcomeMatchesRows

LEMMA DiesTxInv == Dies => TxInv'
<1> SUFFICES ASSUME Dies PROVE TxInv'  OBVIOUS
<1>1. node' = Down /\ pass' = Idle /\ tx' = NoTx /\ recent' = {}  BY DEF Dies
<1> QED BY <1>1 DEF TxInv, Down, Idle, PassFields, OutcomeMatchesRows

\* A step that stays outside a station's transaction.
LEMMA OutsideTxInv ==
  ASSUME TxInv, node.pc # "fetch",
         DOMAIN node' = DOMAIN Down, node'.pc \notin {"fetch", "cycle"},
         DOMAIN pass' = PassFields, pass'.errors = pass.errors,
         tx' = tx, recent' \subseteq recent
  PROVE  TxInv'
<1>1. OutcomeMatchesRows'  BY DEF TxInv, OutcomeMatchesRows
<1> QED BY <1>1 DEF TxInv

\* A commit whose outcome fits the rows of its transaction.
LEMMA CommitTxInv ==
  ASSUME TxInv, NEW outcome \in {"success", "error"}, NEW t, Commit(outcome, t),
         TaskPages # <<>>,
         outcome = "success" =>
           t.mark /\ (t.rows = ToSet(TaskPages) \/ Task.collector.name = "polymarket_clob"),
         outcome = "error" => t.rows # ToSet(TaskPages) /\ "today" \notin t.rows
  PROVE  TxInv'
<1>1. /\ tx' = NoTx /\ node'.pc = "cycle" /\ DOMAIN node' = DOMAIN Down
      /\ DOMAIN pass' = PassFields /\ pass'.errors = FALSE /\ SamePlace
  BY DEF Commit, Goto, TxInv, PassFields, Down, SamePlace
<1>2. TaskPages' = TaskPages  BY <1>1, SameTask DEF SamePlace
<1> DEFINE r == [name |-> Task.collector.name, kind |-> Task.kind, station |-> Station,
                 outcome |-> outcome, rows |-> t.rows, mark |-> t.mark]
<1>3. recent' = recent \union {r}  BY DEF Commit
<1>4. /\ r.outcome = outcome /\ r.rows = t.rows /\ r.mark = t.mark
      /\ r.name = Task.collector.name /\ Pages(r.name, r.kind) = TaskPages
  BY DEF TaskPages
<1> HIDE DEF r
<1>5. OutcomeMatchesRows'
  <2> SUFFICES ASSUME NEW q \in recent'
      PROVE  /\ q.outcome = "success" =>
                  q.mark /\ (q.rows = ToSet(Pages(q.name, q.kind)) \/ q.name = "polymarket_clob")
             /\ q.outcome = "error" =>
                  q.rows # ToSet(Pages(q.name, q.kind)) /\ "today" \notin q.rows
    BY DEF OutcomeMatchesRows
  <2>1. CASE q \in recent  BY <2>1 DEF TxInv, OutcomeMatchesRows
  <2>2. CASE q = r  BY <2>2, <1>4
  <2> QED BY <2>1, <2>2, <1>3
<1> QED BY <1>1, <1>2, <1>5 DEF TxInv

\* What TxInv says of the pages of the task while it fetches.
LEMMA FetchShape ==
  ASSUME TxInv, node.pc = "fetch"
  PROVE  /\ TaskPages # <<>>
         /\ {} # ToSet(TaskPages)
         /\ IsForecast => TxOfForecast /\ ToSet(TaskPages) = {"today", "tomorrow"}
         /\ ~IsForecast => TxOfOnePage
<1>1. CASE IsForecast
  <2>1. TaskPages = <<"today", "tomorrow">> /\ TxOfForecast
    BY <1>1, PagesOfTask DEF TxInv
  <2>2. ToSet(TaskPages) = {"today", "tomorrow"}  BY <2>1, PagesAsSets
  <2> QED BY <1>1, <2>1, <2>2
<1>2. CASE ~IsForecast
  <2>1. TxOfOnePage  BY <1>2 DEF TxInv
  <2>2. PICK page : TaskPages = <<page>>  BY <2>1 DEF TxOfOnePage
  <2>3. ToSet(TaskPages) = {page}  BY <2>2, PagesAsSets
  <2> QED BY <1>2, <2>1, <2>2, <2>3
<1> QED BY <1>1, <1>2

LEMMA NextTxInv == TxInv /\ [Next]_vars => TxInv'
<1> SUFFICES ASSUME TxInv, [Next]_vars PROVE TxInv'
  OBVIOUS
<1> USE DEF world
<1>1. CASE Start
  BY <1>1, OutsideTxInv DEF Start, Down, TxInv
<1>2. CASE Load
  BY <1>2, DiesTxInv, OutsideTxInv DEF Load, TxInv, Down
<1>3. CASE FirstStat
  BY <1>3, OutsideTxInv DEF FirstStat, TxInv, Down
<1>4. CASE FirstSync
  BY <1>4, OutsideTxInv DEF FirstSync, Goto, TxInv, Down
<1>5. CASE Top
  BY <1>5, DiesTxInv, OutsideTxInv DEF Top, TxInv, Down
<1>6. CASE Reload
  BY <1>6, DiesTxInv, OutsideTxInv DEF Reload, TxInv, Down
<1>7. CASE RunDueTasks
  <2>1. /\ node.pc = "run" /\ node'.pc = "task" /\ DOMAIN node' = DOMAIN Down
        /\ tx' = tx /\ recent' = {}
    BY <1>7 DEF RunDueTasks, Goto, TxInv, Down
  <2>2. DOMAIN pass' = PassFields /\ pass'.errors = FALSE
    BY <1>7 DEF RunDueTasks, Idle, PassFields
  <2>3. OutcomeMatchesRows'  BY <2>1 DEF OutcomeMatchesRows
  <2> QED BY <2>1, <2>2, <2>3 DEF TxInv
<1>8. CASE RunCycle
  <2>1. /\ node'.pc = "cycle" /\ DOMAIN node' = DOMAIN Down /\ node.pc = "task"
        /\ DOMAIN pass' = PassFields /\ pass'.errors = pass.errors
        /\ node'.config = node.config /\ tx' = tx /\ recent' = recent
    BY <1>8 DEF RunCycle, Goto, TxInv, Down, PassFields
  <2>2. pass'.stations # <<>> => Pages(node.config[pass'.at].name, pass'.kind) # <<>>
    BY <1>8 DEF RunCycle, TxInv, PassFields
  <2>3. TaskPages' = Pages(node.config[pass'.at].name, pass'.kind)
    BY <2>1, TaskIs DEF TaskPages, Task
  <2>4. OutcomeMatchesRows'  BY <2>1 DEF TxInv, OutcomeMatchesRows
  <2> QED BY <2>1, <2>2, <2>3, <2>4 DEF TxInv
<1>9. CASE CycleDone
  BY <1>9, OutsideTxInv DEF CycleDone, Goto, TxInv, Down, PassFields
<1>10. CASE PassDone
  <2>1. CASE node.once  BY <1>10, <2>1, DiesTxInv DEF PassDone
  <2>2. CASE ~node.once
    <3>1. /\ node.pc = "task" /\ DOMAIN node' = DOMAIN Down /\ node'.pc = "asleep"
          /\ tx' = tx /\ recent' = recent
          /\ DOMAIN pass' = PassFields /\ pass'.errors = FALSE /\ ~pass.errors
      BY <1>10, <2>2 DEF PassDone, TxInv, Down, Idle, PassFields
    <3>2. OutcomeMatchesRows'  BY <3>1 DEF TxInv, OutcomeMatchesRows
    <3> QED BY <3>1, <3>2 DEF TxInv
  <2> QED BY <2>1, <2>2
<1>11. CASE Wake
  BY <1>11, OutsideTxInv DEF Wake, TxInv, Down
<1>12. CASE BeginStation
  <2>1. /\ node'.pc = "fetch" /\ DOMAIN node' = DOMAIN Down
        /\ node.pc = "cycle" /\ pass.stations # <<>>
        /\ DOMAIN pass' = PassFields /\ pass'.errors = pass.errors /\ SamePlace
        /\ pass'.pages = TaskPages /\ recent' = recent
    BY <1>12 DEF BeginStation, Goto, TxInv, Down, PassFields, TaskPages, SamePlace
  <2>2. tx' = Tx(TRUE, {})
    <3>1. tx = NoTx  BY <2>1 DEF TxInv
    <3>2. tx' = [tx EXCEPT !.mark = TRUE]  BY <1>12 DEF BeginStation
    <3> QED BY <3>1, <3>2 DEF NoTx, Tx
  <2>3. TaskPages' = TaskPages /\ IsForecast' = IsForecast
    BY <2>1, SameTask DEF SamePlace
  <2>4. TaskPages # <<>> /\ ~pass'.errors  BY <2>1 DEF TxInv
  <2>5. IsForecast => TxOfForecast'  BY <2>1, <2>2, <2>4, PagesOfTask DEF TxOfForecast
  <2>6. ~IsForecast => TxOfOnePage'
    BY <2>1, <2>2, <2>3, <2>4, PagesOfTask DEF TxOfOnePage
  <2>7. OutcomeMatchesRows'  BY <2>1 DEF TxInv, OutcomeMatchesRows
  <2> QED BY <2>1, <2>3, <2>5, <2>6, <2>7 DEF TxInv
<1>13. CASE UnexpectedError
  <2>1. node.pc = "fetch" /\ tx.rows = {}  BY <1>13 DEF UnexpectedError
  <2> DEFINE t == [tx EXCEPT !.mark = Task.collector.name = "wunderground"]
  <2>2. t.rows = {}
    BY <2>1, FetchShape DEF TxOfForecast, TxOfOnePage, Tx, NoTx
  <2>3. Commit("error", t)  BY <1>13 DEF UnexpectedError
  <2> HIDE DEF t
  <2> QED BY <2>1, <2>2, <2>3, FetchShape, CommitTxInv
<1>14. CASE FetchPage
  <2>1. /\ node.pc = "fetch" /\ node' = node /\ pass.pages # <<>>
        /\ DOMAIN pass' = PassFields /\ pass'.errors = pass.errors /\ SamePlace
        /\ pass'.pages = Tail(pass.pages) /\ recent' = recent
    BY <1>14 DEF FetchPage, TxInv, PassFields, SamePlace
  <2>2. \/ tx' = AddRow(tx, Head(pass.pages))
        \/ Task.collector.name = "polymarket_clob" /\ tx' = tx
    BY <1>14 DEF FetchPage, AddRow
  <2>3. TaskPages' = TaskPages /\ IsForecast' = IsForecast
        /\ Task' = Task
    BY <2>1, SameTask DEF SamePlace
  <2>4. IsForecast => TxOfForecast'
    <3> SUFFICES ASSUME IsForecast PROVE TxOfForecast'  OBVIOUS
    <3>1. tx' = AddRow(tx, Head(pass.pages))
      BY <2>2 DEF IsForecast
    <3>2. TxOfForecast  BY <2>1, FetchShape
    <3>3. CASE pass.pages = <<"today", "tomorrow">> /\ ~pass.errors /\ tx = Tx(TRUE, {})
      <4>1. pass'.pages = <<"tomorrow">> /\ tx' = Tx(TRUE, {"today"})
        <5>1. pass'.pages = <<"tomorrow">> /\ Head(pass.pages) = "today"
          BY <3>3, <2>1, PageSteps
        <5>2. tx' = Tx(TRUE, {} \union {"today"})
          BY <3>1, <3>3, <5>1, TxFields
        <5>3. {} \union {"today"} = {"today"}  OBVIOUS
        <5> QED BY <5>1, <5>2, <5>3, Zenon
      <4> QED BY <4>1, <3>3, <2>1 DEF TxOfForecast
    <3>4. CASE pass.pages = <<"tomorrow">> /\ ~pass.errors /\ tx = Tx(TRUE, {"today"})
      <4>1. pass'.pages = <<>> /\ tx' = Tx(TRUE, {"today", "tomorrow"})
        <5>1. pass'.pages = <<>> /\ Head(pass.pages) = "tomorrow"
          BY <3>4, <2>1, PageSteps
        <5>2. tx' = Tx(TRUE, {"today"} \union {"tomorrow"})
          BY <3>1, <3>4, <5>1, TxFields
        <5>3. {"today"} \union {"tomorrow"} = {"today", "tomorrow"}  OBVIOUS
        <5> QED BY <5>1, <5>2, <5>3, Zenon
      <4> QED BY <4>1, <3>4, <2>1 DEF TxOfForecast
    <3>5. CASE pass.pages = <<"tomorrow">> /\ pass.errors /\ tx = NoTx
      <4>1. pass'.pages = <<>> /\ tx' = Tx(FALSE, {"tomorrow"})
        <5>1. pass'.pages = <<>> /\ Head(pass.pages) = "tomorrow"
          BY <3>5, <2>1, PageSteps
        <5>2. tx' = Tx(FALSE, {} \union {"tomorrow"})
          BY <3>1, <3>5, <5>1, NoTxIsEmpty, TxFields
        <5>3. {} \union {"tomorrow"} = {"tomorrow"}  OBVIOUS
        <5> QED BY <5>1, <5>2, <5>3, Zenon
      <4> QED BY <4>1, <3>5, <2>1 DEF TxOfForecast
    <3> QED BY <3>2, <3>3, <3>4, <3>5, <2>1 DEF TxOfForecast
  <2>5. ~IsForecast => TxOfOnePage'
    <3> SUFFICES ASSUME ~IsForecast PROVE TxOfOnePage'  OBVIOUS
    <3>1. TxOfOnePage  BY <2>1, FetchShape
    <3>2. PICK page \in {"current", "batch"} :
            TaskPages = <<page>> /\ pass.pages = <<page>> /\ tx = Tx(TRUE, {})
      BY <3>1, <2>1 DEF TxOfOnePage
    <3>3. pass'.pages = <<>> /\ Head(pass.pages) = page  BY <3>2, <2>1, PageSteps
    <3>4. \/ tx' = Tx(TRUE, {page})
          \/ tx' = Tx(TRUE, {}) /\ Task.collector.name = "polymarket_clob"
      <4>1. AddRow(tx, page) = Tx(TRUE, {} \union {page})  BY <3>2, TxFields
      <4>2. {} \union {page} = {page}  OBVIOUS
      <4> QED BY <4>1, <4>2, <3>2, <3>3, <2>2
    <3> QED BY <3>1, <3>2, <3>3, <3>4, <2>1, <2>3 DEF TxOfOnePage
  <2>6. OutcomeMatchesRows'  BY <2>1 DEF TxInv, OutcomeMatchesRows
  <2> QED BY <2>1, <2>3, <2>4, <2>5, <2>6 DEF TxInv
<1>15. CASE PageFails
  <2>1. node.pc = "fetch" /\ pass.pages # <<>>  BY <1>15 DEF PageFails
  <2>2. CASE IsForecast
    <3>1. /\ node' = node /\ tx' = NoTx /\ recent' = recent
          /\ DOMAIN pass' = PassFields /\ pass'.errors = TRUE /\ SamePlace
          /\ pass'.pages = Tail(pass.pages)
      BY <1>15, <2>2 DEF PageFails, IsForecast, TxInv, PassFields, SamePlace
    <3>2. IsForecast' = IsForecast  BY <3>1, SameTask DEF SamePlace
    <3>3. TxOfForecast'
      <4>1. pass.pages \in {<<"today", "tomorrow">>, <<"tomorrow">>}
        BY <2>1, <2>2, FetchShape DEF TxOfForecast
      <4>2. pass'.pages \in {<<"tomorrow">>, <<>>}  BY <4>1, <3>1, PageSteps
      <4> QED BY <4>2, <3>1 DEF TxOfForecast
    <3>4. OutcomeMatchesRows'  BY <3>1 DEF TxInv, OutcomeMatchesRows
    <3> QED BY <2>1, <2>2, <3>1, <3>2, <3>3, <3>4 DEF TxInv
  <2>3. CASE ~IsForecast
    <3>1. Commit("error", NoTx)  BY <1>15, <2>3 DEF PageFails, IsForecast
    <3> QED BY <2>1, <3>1, FetchShape, CommitTxInv DEF NoTx
  <2> QED BY <2>2, <2>3
<1>16. CASE MetricFails
  <2>1. node.pc = "fetch" /\ Commit("error", NoTx)  BY <1>16 DEF MetricFails
  <2> QED BY <2>1, FetchShape, CommitTxInv DEF NoTx
<1>17. CASE FinishStation
  <2>1. node.pc = "fetch" /\ pass.pages = <<>>  BY <1>17 DEF FinishStation
  <2>2. CASE pass.errors
    <3>1. Commit("error", tx)  BY <1>17, <2>2 DEF FinishStation
    <3>2. IsForecast /\ tx.rows \in {{}, {"tomorrow"}}
      BY <2>1, <2>2, FetchShape DEF TxOfForecast, TxOfOnePage, NoTx, Tx
    <3>3. tx.rows # ToSet(TaskPages) /\ "today" \notin tx.rows
      BY <2>1, <3>2, FetchShape
    <3> QED BY <2>1, <3>1, <3>3, FetchShape, CommitTxInv
  <2>3. CASE ~pass.errors
    <3>1. Commit("success", tx)  BY <1>17, <2>3 DEF FinishStation
    <3>2. tx.mark /\ (tx.rows = ToSet(TaskPages) \/ Task.collector.name = "polymarket_clob")
      <4>1. CASE IsForecast
        <5>0. tx = Tx(TRUE, {"today", "tomorrow"})
          <6>1. TxOfForecast  BY <2>1, <4>1, FetchShape
          <6>2. <<"today", "tomorrow">> # <<>> /\ <<"tomorrow">> # <<>>  OBVIOUS
          <6> QED BY <6>1, <6>2, <2>1, <2>3 DEF TxOfForecast
        <5>1. tx = Tx(TRUE, ToSet(TaskPages))  BY <5>0, <2>1, <4>1, FetchShape
        <5> QED BY <5>1, TxFields
      <4>2. CASE ~IsForecast
        <5>1. \/ tx = Tx(TRUE, ToSet(TaskPages))
              \/ tx = Tx(TRUE, {}) /\ Task.collector.name = "polymarket_clob"
          BY <2>1, <2>3, <4>2, FetchShape, PagesAsSets DEF TxOfOnePage
        <5>2. tx.mark  BY <5>1, TxFields
        <5>3. tx.rows = ToSet(TaskPages) \/ Task.collector.name = "polymarket_clob"
          BY <5>1, TxFields
        <5> QED BY <5>2, <5>3
      <4> QED BY <4>1, <4>2
    <3> QED BY <2>1, <3>1, <3>2, FetchShape, CommitTxInv
  <2> QED BY <2>2, <2>3
<1>18. CASE Tick \/ Edit
  <2>1. UNCHANGED <<node, pass, tx, recent>>  BY <1>18 DEF Tick, Edit
  <2>2. Task' = Task /\ TaskPages' = TaskPages /\ IsForecast' = IsForecast
    BY <2>1, SameTask
  <2> QED BY <2>1, <2>2 DEF TxInv, TxOfForecast, TxOfOnePage, OutcomeMatchesRows
<1>19. CASE Signal
  <2>1. /\ node'.pc = node.pc /\ DOMAIN node' = DOMAIN Down /\ node'.config = node.config
        /\ pass' = pass /\ tx' = tx /\ recent' = recent
    BY <1>19 DEF Signal, TxInv, Down
  <2>2. Task' = Task /\ TaskPages' = TaskPages /\ IsForecast' = IsForecast
    BY <2>1, SameTask
  <2> QED BY <2>1, <2>2 DEF TxInv, TxOfForecast, TxOfOnePage, OutcomeMatchesRows
<1>20. CASE Crash  BY <1>20, DiesTxInv DEF Crash
<1>21. CASE UNCHANGED vars
  <2>1. UNCHANGED <<node, pass, tx, recent>>  BY <1>21 DEF vars
  <2>2. Task' = Task /\ TaskPages' = TaskPages /\ IsForecast' = IsForecast
    BY <2>1, SameTask
  <2> QED BY <2>1, <2>2 DEF TxInv, TxOfForecast, TxOfOnePage, OutcomeMatchesRows
<1> QED
  BY <1>1, <1>2, <1>3, <1>4, <1>5, <1>6, <1>7, <1>8, <1>9, <1>10, <1>11, <1>12, <1>13,
     <1>14, <1>15, <1>16, <1>17, <1>18, <1>19, <1>20, <1>21
  DEF Next, Process

\* collector_state says success only of a station whose pages were all
\* committed with it, and error only of one that lacks a page, wherever a
\* page fails, the process dies or an error is caught.
THEOREM OutcomeMatchesRowsHolds == Spec => []OutcomeMatchesRows
<1>1. TxInv => OutcomeMatchesRows  BY DEF TxInv
<1> QED BY <1>1, InitTxInv, NextTxInv, PTL DEF Spec
-----------------------------------------------------------------------------
(***************************************************************************)
(* The slots of a pass.  A pass walks the collectors in the order of the   *)
(* file; what it has passed is run up to the slot it is in, and what it is *)
(* at was not run in that slot before.                                     *)
(***************************************************************************)
Clob == "polymarket_clob"
InRun == {"task", "cycle", "fetch"}
InCycle == {"cycle", "fetch"}

LEMMA MinOfBounded ==
  ASSUME NEW S, S \subseteq Int, S # {}, NEW n \in Int, \A x \in S : n <= x
  PROVE  Min(S) \in S /\ \A x \in S : Min(S) <= x
<1> DEFINE above == {x - n : x \in S}
<1>1. above \subseteq Nat /\ above # {}
  <2>1. \A x \in S : x \in Int /\ x - n \in Nat  OBVIOUS
  <2> QED BY <2>1
<1>2. PICK d \in above : \A e \in above : ~(<<e, d>> \in OpToRel(<, Nat))
  BY <1>1, NatLessThanWellFounded, WFMin
<1>3. \A e \in above : ~(e < d)
  BY <1>1, <1>2 DEF OpToRel
<1>4. PICK m \in S : d = m - n  OBVIOUS
<1>5. ASSUME NEW x \in S
      PROVE  m <= x
  <2>1. ~(x - n < m - n)  BY <1>3, <1>4
  <2>2. x \in Int /\ m \in Int  OBVIOUS
  <2> QED BY <2>1, <2>2
<1>6. Min(S) \in S /\ \A x \in S : Min(S) <= x
  BY <1>4, <1>5 DEF Min
<1> QED BY <1>6

\* The slot of an instant is less than an interval before it.
LEMMA SlotBounds ==
  ASSUME NEW t \in Int, NEW interval \in 1 .. Day, NEW anchor \in 0 .. Day - 1
  PROVE  /\ SlotForInstant(t, interval, anchor) \in Int
         /\ SlotForInstant(t, interval, anchor) <= t
         /\ t - interval < SlotForInstant(t, interval, anchor)
         /\ NextScheduledInstant(t, interval, anchor) \in Int
         /\ t < NextScheduledInstant(t, interval, anchor)
<1> USE DayAssumption
<1> DEFINE elapsed == t % Day
           since == IF elapsed < anchor THEN elapsed + Day - anchor ELSE elapsed - anchor
           idx == since \div interval
           r == since % interval
           slot == SlotForInstant(t, interval, anchor)
<1>1. elapsed \in 0 .. Day - 1  BY DivMod
<1>2. since \in 0 .. Day - 1  BY <1>1, SMT
<1>3. slot = t - since + idx * interval  BY DEF SlotForInstant
<1> HIDE DEF elapsed, since, slot
<1>4. idx \in Int /\ r \in 0 .. interval - 1 /\ since = interval * idx + r
  BY <1>2, DivMod
<1>5. idx * interval = interval * idx /\ interval * idx \in Int  BY <1>4, SMT
<1> HIDE DEF idx, r
<1>6. slot = t - r  BY <1>2, <1>3, <1>4, <1>5
<1>7. slot \in Int /\ slot <= t /\ t - interval < slot  BY <1>4, <1>6
<1>8. NextScheduledInstant(t, interval, anchor) = slot + interval
  BY <1>7 DEF NextScheduledInstant, slot
<1>9. slot + interval \in Int /\ t < slot + interval  BY <1>7
<1> QED BY <1>9, <1>7, <1>8 DEF slot

\* A slot between two instants is the slot of the later one or comes after the
\* earlier one: no slot is passed over.
LEMMA SlotsInOrder ==
  ASSUME NEW t \in Int, NEW u \in Int, t <= u,
         NEW interval \in 1 .. Day, Day % interval = 0, NEW anchor \in 0 .. Day - 1
  PROVE  LET early == SlotForInstant(t, interval, anchor)
             late == SlotForInstant(u, interval, anchor)
         IN  /\ early <= late
             /\ t < late => early < late
             /\ late <= t => late = early
             /\ u < NextScheduledInstant(t, interval, anchor) => late = early
<1> DEFINE early == SlotForInstant(t, interval, anchor)
           late == SlotForInstant(u, interval, anchor)
           next == NextScheduledInstant(t, interval, anchor)
           after == NextScheduledInstant(u, interval, anchor)
<1>1. /\ early \in Int /\ early <= t /\ next \in Int /\ t < next
      /\ late \in Int /\ late <= u /\ after \in Int /\ u < after
  BY SlotBounds
<1>2. /\ OnGrid(early, interval, anchor) /\ OnGrid(late, interval, anchor)
      /\ \A v \in early + 1 .. next - 1 : ~OnGrid(v, interval, anchor)
      /\ \A v \in late + 1 .. after - 1 : ~OnGrid(v, interval, anchor)
  BY NeighboursOnGrid DEF GridAround
<1> HIDE DEF early, late, next, after
<1>3. early <= late
  <2> SUFFICES ASSUME late < early PROVE FALSE  BY <1>1
  <2>1. early \in late + 1 .. after - 1  BY <1>1
  <2> QED BY <2>1, <1>2
<1>4. late < next => late = early
  <2> SUFFICES ASSUME early < late, late < next PROVE FALSE  BY <1>1, <1>3
  <2>1. late \in early + 1 .. next - 1  BY <1>1
  <2> QED BY <2>1, <1>2
<1>5. t < late => early < late  BY <1>1
<1>6. late <= t => late = early  BY <1>1, <1>4
<1>7. u < next => late = early  BY <1>1, <1>4
<1> QED BY <1>3, <1>5, <1>6, <1>7 DEF early, late, next, after

\* What the assumptions say of one task of a file that loads.
LEMMA GridOfTask ==
  ASSUME NEW config \in Configs \union {<<>>}, NEW i \in DOMAIN config, NEW kind \in Kinds
  PROVE  /\ i \in Nat \ {0}
         /\ Grid(config[i], kind).interval \in 1 .. Day
         /\ Day % Grid(config[i], kind).interval = 0
         /\ Grid(config[i], kind).anchor \in 0 .. Day - 1
         /\ config[i].stations \in Seq(Stations)
         /\ \A j \in DOMAIN config : config[i].name = config[j].name => i = j
<1>1. config \in Configs  OBVIOUS
<1>2. config \in Seq(ToSet(config))  BY <1>1, CollectorAssumption
<1>3. i \in 1 .. Len(config)  BY <1>2
<1> QED BY <1>1, <1>3, CollectorAssumption, NamesAssumption

LEMMA StationsOfConfig ==
  ASSUME NEW config \in Configs \union {<<>>}
  PROVE  StationsOf(config) \subseteq Stations
<1>1. CASE config = <<>>  BY <1>1 DEF StationsOf
<1>2. CASE config \in Configs
  BY <1>2 DEF StationsOf, Stations
<1> QED BY <1>1, <1>2

\* Every task has a next slot after t, and the process wakes for the first.
LEMMA WakesInTime ==
  ASSUME NEW t \in Int, node.config \in Configs \union {<<>>}
  PROVE  /\ NextWake(t) \in Int
         /\ \A i \in DOMAIN node.config, kind \in Kinds :
              NextWake(t) <= NextScheduledInstant(t, Grid(node.config[i], kind).interval,
                                                  Grid(node.config[i], kind).anchor)
<1> DEFINE Wakes == {NextScheduledInstant(t, Grid(node.config[i], kind).interval,
                                         Grid(node.config[i], kind).anchor) :
                       i \in DOMAIN node.config, kind \in Kinds}
<1>1. \A w \in Wakes : w \in Int /\ t <= w
  <2> SUFFICES ASSUME NEW i \in DOMAIN node.config, NEW kind \in Kinds
      PROVE  LET w == NextScheduledInstant(t, Grid(node.config[i], kind).interval,
                                           Grid(node.config[i], kind).anchor)
             IN  w \in Int /\ t <= w
    OBVIOUS
  <2> DEFINE g == Grid(node.config[i], kind)
  <2>1. g.interval \in 1 .. Day /\ g.anchor \in 0 .. Day - 1  BY GridOfTask
  <2> HIDE DEF g
  <2>3. LET w == NextScheduledInstant(t, g.interval, g.anchor) IN w \in Int /\ t <= w
    <3>1. /\ NextScheduledInstant(t, g.interval, g.anchor) \in Int
          /\ t < NextScheduledInstant(t, g.interval, g.anchor)
      BY <2>1, SlotBounds
    <3> QED BY <3>1
  <2> QED BY <2>3 DEF g
<1>2. NextWake(t) = IF Wakes = {} THEN None ELSE Min(Wakes)  BY DEF NextWake
<1>5. ASSUME NEW i \in DOMAIN node.config, NEW kind \in Kinds
      PROVE  NextScheduledInstant(t, Grid(node.config[i], kind).interval,
                                  Grid(node.config[i], kind).anchor) \in Wakes
  OBVIOUS
<1> HIDE DEF Wakes
<1>3. CASE Wakes = {}
  <2>1. NextWake(t) \in Int  BY <1>2, <1>3 DEF None
  <2> QED BY <2>1, <1>3, <1>5
<1>4. CASE Wakes # {}
  <2>1. Wakes \subseteq Int  BY <1>1
  <2>2. Min(Wakes) \in Wakes /\ \A w \in Wakes : Min(Wakes) <= w
    BY <1>1, <1>4, <2>1, MinOfBounded
  <2>3. NextWake(t) \in Int /\ \A w \in Wakes : NextWake(t) <= w
    BY <1>2, <1>4, <2>1, <2>2
  <2> QED BY <2>3, <1>5
<1> QED BY <1>3, <1>4
-----------------------------------------------------------------------------
\* What the walk needs of the process and of the locals of a pass.
PassTypes ==
  /\ node.config \in Configs \union {<<>>}
  /\ clock \in Nat /\ clock >= Dawn
  /\ sched \in [Runners -> [Kinds -> Nat \union {None}]]
  /\ pass.now \in Nat /\ pass.now <= clock
  /\ pass.at \in Nat /\ pass.kind \in Kinds
  /\ pass.label \in Nat \union {None}
  /\ pass.stations \in Seq(Stations)

\* Where a cycle is, and that it is not run again in the slot it ran last.
InCycleInv ==
  /\ node.pc \in InRun \union {"asleep"} => pass.now >= Dawn
  /\ node.pc \in InCycle =>
       /\ pass.at \in DOMAIN node.config
       /\ node.config[pass.at].name \in Runners
       /\ node.once \/ sched[Task.collector.name][Task.kind] < Task.slot
  /\ node.pc = "fetch" => pass.stations # <<>>

PassInv ==
  /\ node.pc \in Places /\ OnValidConfig /\ TxInv
  /\ PassTypes /\ InCycleInv

\* The kinds of step there are.
OutsideStep ==
  /\ node.pc \notin InRun /\ node'.pc \in Places \ (InRun \union {"asleep", "down"})
  /\ node.pc = "down" \/ node'.once = node.once
  /\ UNCHANGED <<clock, sched, pass, recent, polls>>

\* A page of a station is fetched or fails, or a station is begun.
StationStep ==
  /\ node.pc \in InCycle /\ node'.pc = "fetch" /\ node'.once = node.once
  /\ SamePlace /\ pass'.stations = pass.stations /\ pass'.label = pass.label
  /\ node.pc = "cycle" => pass.stations # <<>>
  /\ UNCHANGED <<clock, sched, recent, polls>>

CommitStep ==
  /\ node.pc = "fetch" /\ UNCHANGED <<clock, sched>>
  /\ \E outcome \in {"success", "error"} : \E t : Commit(outcome, t)

\* Nothing of the process moves but the flag that a signal sets.
QuietStep ==
  /\ node'.pc = node.pc /\ node'.config = node.config /\ node'.once = node.once
  /\ node'.since = node.since /\ node'.wake = node.wake
  /\ clock' \in {clock, clock + 1}
  /\ UNCHANGED <<sched, pass, recent, polls>>

LEMMA StepKinds ==
  ASSUME node.pc \in Places, TxInv, [Next]_vars
  PROVE  \/ OutsideStep
         \/ Dies /\ clock' = clock
         \/ RunDueTasks \/ RunCycle \/ CycleDone
         \/ PassDone /\ ~node.once
         \/ StationStep \/ CommitStep \/ QuietStep
<1> USE DEF world
<1>0. DOMAIN node = DOMAIN Down /\ DOMAIN pass = PassFields  BY DEF TxInv
<1>1. CASE Start
  BY <1>1 DEF Start, Down, OutsideStep, Places, InPass, InRun
<1>2. CASE Load
  <2>1. CASE file.content = Broken  BY <1>2, <2>1 DEF Load
  <2>2. CASE file.content # Broken
    <3>1. /\ node.pc = "load" /\ node'.pc = "stat" /\ node'.once = node.once
          /\ UNCHANGED <<clock, sched, pass, recent, polls>>
      BY <1>0, <1>2, <2>2 DEF Load, Down
    <3> QED BY <3>1 DEF OutsideStep, Places, InPass, InRun
  <2> QED BY <2>1, <2>2
<1>3. CASE FirstStat
  BY <1>0, <1>3 DEF FirstStat, Down, OutsideStep, Places, InPass, InRun
<1>4. CASE FirstSync
  BY <1>0, <1>4 DEF FirstSync, Goto, Down, OutsideStep, Places, InPass, InRun
<1>5. CASE Top
  <2>1. CASE node.stop  BY <1>5, <2>1 DEF Top
  <2>2. CASE ~node.stop
    <3>1. /\ node.pc = "top" /\ node'.pc = "reload" /\ node'.once = node.once
          /\ UNCHANGED <<clock, sched, pass, recent, polls>>
      BY <1>0, <1>5, <2>2 DEF Top, Down
    <3> QED BY <3>1 DEF OutsideStep, Places, InPass, InRun
  <2> QED BY <2>1, <2>2
<1>6. CASE Reload
  <2>1. CASE file.content = Broken  BY <1>6, <2>1 DEF Reload
  <2>2. CASE file.content # Broken
    <3>1. /\ node.pc = "reload" /\ node'.pc = "run" /\ node'.once = node.once
          /\ UNCHANGED <<clock, sched, pass, recent, polls>>
      BY <1>0, <1>6, <2>2 DEF Reload, Down
    <3> QED BY <3>1 DEF OutsideStep, Places, InPass, InRun
  <2> QED BY <2>1, <2>2
<1>7. CASE PassDone
  BY <1>7 DEF PassDone
<1>8. CASE Wake
  BY <1>0, <1>8 DEF Wake, Down, OutsideStep, Places, InPass, InRun
<1>9. CASE BeginStation
  BY <1>0, <1>9 DEF BeginStation, Goto, Down, PassFields, StationStep, SamePlace, InCycle
<1>10. CASE UnexpectedError
  BY <1>10 DEF UnexpectedError, CommitStep
<1>11. CASE FetchPage
  BY <1>0, <1>11 DEF FetchPage, PassFields, StationStep, SamePlace, InCycle
<1>12. CASE PageFails
  <2>1. CASE IsForecast
    BY <1>0, <1>12, <2>1
    DEF PageFails, IsForecast, PassFields, StationStep, SamePlace, InCycle
  <2>2. CASE ~IsForecast
    BY <1>12, <2>2 DEF PageFails, IsForecast, CommitStep
  <2> QED BY <2>1, <2>2
<1>13. CASE MetricFails
  BY <1>13 DEF MetricFails, CommitStep
<1>14. CASE FinishStation
  BY <1>14 DEF FinishStation, CommitStep
<1>15. CASE Tick
  BY <1>15 DEF Tick, QuietStep
<1>16. CASE Edit
  BY <1>16 DEF Edit, QuietStep
<1>17. CASE Signal
  BY <1>0, <1>17 DEF Signal, Down, QuietStep
<1>18. CASE Crash
  BY <1>18 DEF Crash
<1>19. CASE UNCHANGED vars
  BY <1>19 DEF vars, QuietStep
<1> QED
  BY <1>1, <1>2, <1>3, <1>4, <1>5, <1>6, <1>7, <1>8, <1>9, <1>10, <1>11, <1>12, <1>13,
     <1>14, <1>15, <1>16, <1>17, <1>18, <1>19
  DEF Next, Process

\* A slot of the model's time is no negative number: None is before all slots.
LEMMA SlotIsNat ==
  ASSUME node.config \in Configs \union {<<>>},
         NEW i \in DOMAIN node.config, NEW kind \in Kinds, NEW t \in Nat, t >= Dawn
  PROVE  SlotForInstant(t, Grid(node.config[i], kind).interval,
                        Grid(node.config[i], kind).anchor) \in Nat
<1> DEFINE g == Grid(node.config[i], kind)
           slot == SlotForInstant(t, g.interval, g.anchor)
<1>1. g.interval \in 1 .. Day /\ g.anchor \in 0 .. Day - 1  BY GridOfTask
<1> HIDE DEF g
<1>4. t \in Int  OBVIOUS
<1>2. slot \in Int /\ t - g.interval < slot  BY <1>1, <1>4, SlotBounds
<1> HIDE DEF slot
<1>3. slot >= 0  BY <1>1, <1>2, CollectorAssumption, DayAssumption
<1> QED BY <1>2, <1>3 DEF slot, g

LEMMA InitPassInv == Init => PassInv
<1> SUFFICES ASSUME Init PROVE PassInv  OBVIOUS
<1>1. OnValidConfig /\ TxInv  BY InitOnValidConfig, InitTxInv
<1>2. /\ node = Down /\ pass = Idle /\ clock = Dawn
      /\ sched = [name \in Runners |-> [kind \in Kinds |-> None]]
  BY DEF Init
<1>3. Dawn \in Nat  BY CollectorAssumption, DayAssumption
<1>4. PassTypes
  BY <1>2, <1>3 DEF PassTypes, Down, Idle, Kinds, None
<1>5. InCycleInv /\ node.pc \in Places
  BY <1>2 DEF InCycleInv, InRun, InCycle, Down, Places
<1> QED BY <1>1, <1>4, <1>5 DEF PassInv

LEMMA NextPassTypes == PassInv /\ [Next]_vars => PassTypes' /\ node'.pc \in Places
<1> SUFFICES ASSUME PassInv, [Next]_vars PROVE PassTypes' /\ node'.pc \in Places
  OBVIOUS
<1> USE DEF InRun, InCycle
<1>0. /\ PassTypes /\ DOMAIN node = DOMAIN Down /\ DOMAIN pass = PassFields
      /\ InCycleInv /\ node.pc \in Places
  BY DEF PassInv, TxInv
<1>1. OnValidConfig'  BY NextOnValidConfig DEF PassInv
<1>2. node'.config \in Configs \union {<<>>}  BY <1>1 DEF OnValidConfig
<1>3. CASE OutsideStep
  BY <1>0, <1>2, <1>3 DEF OutsideStep, PassTypes
<1>4. CASE Dies /\ clock' = clock
  <2>1. /\ node' = Down /\ pass' = Idle
        /\ sched' = [name \in Runners |-> [kind \in Kinds |-> None]]
    BY <1>4 DEF Dies
  <2>2. <<>> \in Seq(Stations)  OBVIOUS
  <2> QED BY <1>0, <1>2, <1>4, <2>1, <2>2 DEF PassTypes, Idle, Down, None, Kinds, Places
<1>5. CASE RunDueTasks
  <2>1. pass' = [Idle EXCEPT !.now = clock] /\ UNCHANGED <<clock, sched>> /\ node'.pc = "task"
    BY <1>0, <1>5 DEF RunDueTasks, Goto, world, Down
  <2>2. <<>> \in Seq(Stations)  OBVIOUS
  <2> QED BY <1>0, <1>2, <2>1, <2>2 DEF PassTypes, Idle, None, Kinds, Places, InPass
<1>6. CASE RunCycle
  <2>1. PICK i \in DOMAIN node.config, kind \in Kinds :
           LET collector == node.config[i]
               g == Grid(collector, kind)
           IN  pass' = [pass EXCEPT !.at = i, !.kind = kind,
                !.stations = IF Pages(collector.name, kind) = <<>> THEN <<>>
                               ELSE collector.stations,
                !.label = IF collector.name = "polymarket_clob" /\ kind = "fc"
                            THEN SlotForInstant(clock, g.interval, g.anchor) ELSE None]
    BY <1>6 DEF RunCycle
  <2>2. UNCHANGED <<clock, sched>> /\ node'.pc = "cycle"
    BY <1>0, <1>6 DEF RunCycle, Goto, world, Down
  <2> DEFINE g == Grid(node.config[i], kind)
  <2>3. SlotForInstant(clock, g.interval, g.anchor) \in Nat
    BY <1>0, SlotIsNat DEF PassTypes
  <2>4. i \in Nat /\ node.config[i].stations \in Seq(Stations) /\ <<>> \in Seq(Stations)
    BY <1>0, GridOfTask DEF PassTypes
  <2>5. /\ pass'.at = i /\ pass'.kind = kind /\ pass'.now = pass.now
        /\ pass'.stations \in {<<>>, node.config[i].stations}
        /\ pass'.label \in {None, SlotForInstant(clock, g.interval, g.anchor)}
    BY <1>0, <2>1 DEF PassFields
  <2> HIDE DEF g
  <2> QED BY <1>0, <1>2, <2>2, <2>3, <2>4, <2>5 DEF PassTypes, Places, InPass
<1>7. CASE CycleDone
  <2>1. /\ sched' = [sched EXCEPT ![Task.collector.name][Task.kind] = Task.slot]
        /\ pass' = [pass EXCEPT !.label = None] /\ clock' = clock /\ node'.pc = "task"
        /\ node.pc = "cycle"
    BY <1>0, <1>7 DEF CycleDone, Goto, world, Down
  <2>2. pass.at \in DOMAIN node.config /\ Task.collector.name \in Runners
        /\ Task.kind \in Kinds /\ Task.kind = pass.kind /\ pass.now >= Dawn
    BY <1>0, <2>1 DEF InCycleInv, Task, PassTypes
  <2>3. Task.slot \in Nat
    BY <1>0, <2>2, SlotIsNat DEF Task, PassTypes
  <2>4. sched' \in [Runners -> [Kinds -> Nat \union {None}]]
    BY <1>0, <2>1, <2>2, <2>3 DEF PassTypes
  <2>5. /\ pass'.at = pass.at /\ pass'.kind = pass.kind /\ pass'.now = pass.now
        /\ pass'.stations = pass.stations /\ pass'.label = None
    BY <1>0, <2>1 DEF PassFields
  <2> QED BY <1>0, <1>2, <2>1, <2>4, <2>5 DEF PassTypes, Places, InPass
<1>8. CASE PassDone /\ ~node.once
  <2>1. /\ pass' = [Idle EXCEPT !.now = pass.now] /\ UNCHANGED <<clock, sched>>
        /\ node'.pc = "asleep"
    BY <1>0, <1>8 DEF PassDone, world, Down
  <2>2. <<>> \in Seq(Stations)  OBVIOUS
  <2> QED BY <1>0, <1>2, <2>1, <2>2 DEF PassTypes, Idle, None, Kinds, Places, InPass
<1>9. CASE StationStep
  BY <1>0, <1>2, <1>9 DEF StationStep, SamePlace, PassTypes, Places, InPass
<1>10. CASE CommitStep
  <2>1. /\ pass' = [pass EXCEPT !.stations = Tail(@), !.pages = <<>>, !.errors = FALSE]
        /\ UNCHANGED <<clock, sched>> /\ node'.pc = "cycle" /\ pass.stations # <<>>
    BY <1>0, <1>10 DEF CommitStep, Commit, Goto, Down, InCycleInv
  <2>2. Tail(pass.stations) \in Seq(Stations)  BY <1>0, <2>1 DEF PassTypes
  <2> QED BY <1>0, <1>2, <2>1, <2>2 DEF PassTypes, PassFields, Places, InPass
<1>11. CASE QuietStep
  <2>1. Dawn \in Nat  BY CollectorAssumption, DayAssumption
  <2> QED BY <1>0, <1>2, <1>11, <2>1 DEF QuietStep, PassTypes
<1>12. TxInv  BY DEF PassInv
<1> QED
  BY <1>0, <1>12, <1>3, <1>4, <1>5, <1>6, <1>7, <1>8, <1>9, <1>10, <1>11, StepKinds, Zenon
-----------------------------------------------------------------------------
\* The task of a pass by its place: Task, for the place i, kind.
LEMMA InCycleStep ==
  ASSUME PassInv, [Next]_vars
  PROVE  InCycleInv'
<1> USE DEF InRun, InCycle
<1>0. /\ PassTypes /\ DOMAIN node = DOMAIN Down /\ DOMAIN pass = PassFields
      /\ InCycleInv /\ node.pc \in Places /\ TxInv
  BY DEF PassInv, TxInv
<1>3. CASE OutsideStep
  BY <1>0, <1>3 DEF OutsideStep, InCycleInv
<1>4. CASE Dies /\ clock' = clock
  <2>1. node'.pc = "down"  BY <1>4 DEF Dies, Down
  <2> QED BY <2>1 DEF InCycleInv
<1>5. CASE RunDueTasks
  <2>1. pass' = [Idle EXCEPT !.now = clock] /\ node'.pc = "task"
    BY <1>0, <1>5 DEF RunDueTasks, Goto, world, Down
  <2>2. pass'.now = clock  BY <2>1 DEF Idle
  <2> QED BY <1>0, <2>1, <2>2 DEF InCycleInv, PassTypes
<1>6. CASE RunCycle
  <2>1. PICK i \in DOMAIN node.config, kind \in Kinds :
          /\ Waiting(i, kind) /\ pass'.at = i /\ pass'.kind = kind /\ pass'.now = pass.now
    BY <1>0, <1>6 DEF RunCycle, PassFields
  <2>2. /\ node'.pc = "cycle" /\ node'.config = node.config /\ node'.once = node.once
        /\ sched' = sched /\ node.pc = "task"
    BY <1>0, <1>6 DEF RunCycle, Goto, world, Down
  <2> DEFINE g == Grid(node.config[i], kind)
             slot == SlotForInstant(pass.now, g.interval, g.anchor)
  <2>3. slot \in Nat  BY <1>0, <2>2, SlotIsNat DEF PassTypes, InCycleInv
  <2>4. /\ Task'.collector = node.config[i] /\ Task'.kind = kind /\ Task'.slot = slot
    BY <2>1, <2>2 DEF Task
  <2>5. /\ node.config[i].name \in Runners
        /\ node.once \/ sched[node.config[i].name][kind] = None
                     \/ sched[node.config[i].name][kind] < slot
    BY <2>1 DEF Waiting, IsSlotDue
  <2> HIDE DEF slot
  <2>6. node.once \/ sched[node.config[i].name][kind] < slot
    BY <2>3, <2>5 DEF None
  <2>7. pass.now >= Dawn  BY <1>0, <2>2 DEF InCycleInv
  <2> QED BY <2>1, <2>2, <2>4, <2>5, <2>6, <2>7 DEF InCycleInv
<1>7. CASE CycleDone
  <2>1. node.pc = "cycle" /\ node'.pc = "task" /\ pass'.now = pass.now
    BY <1>0, <1>7 DEF CycleDone, Goto, Down, PassFields
  <2> QED BY <1>0, <2>1 DEF InCycleInv
<1>8. CASE PassDone /\ ~node.once
  <2>1. node.pc = "task" /\ node'.pc = "asleep" /\ pass'.now = pass.now
    BY <1>0, <1>8 DEF PassDone, Down, Idle
  <2> QED BY <1>0, <2>1 DEF InCycleInv
<1>9. CASE StationStep
  <2>1. node'.config = node.config /\ pass'.now = pass.now /\ Task' = Task /\ pass'.at = pass.at
    BY <1>9, SameTask DEF StationStep, SamePlace
  <2> QED BY <1>0, <1>9, <2>1 DEF StationStep, InCycleInv
<1>10. CASE CommitStep
  <2>1. /\ node.pc = "fetch" /\ node'.pc = "cycle" /\ node'.once = node.once
        /\ node'.config = node.config /\ SamePlace /\ sched' = sched
    BY <1>0, <1>10 DEF CommitStep, Commit, Goto, Down, PassFields, SamePlace
  <2>2. pass'.now = pass.now /\ Task' = Task /\ pass'.at = pass.at
    BY <2>1, SameTask DEF SamePlace
  <2> QED BY <1>0, <2>1, <2>2 DEF InCycleInv
<1>11. CASE QuietStep
  <2>1. Task' = Task  BY <1>11, SameTask DEF QuietStep
  <2> QED BY <1>0, <1>11, <2>1 DEF QuietStep, InCycleInv
<1> QED
  BY <1>0, <1>3, <1>4, <1>5, <1>6, <1>7, <1>8, <1>9, <1>10, <1>11, StepKinds, Zenon

LEMMA NextPassInv == PassInv /\ [Next]_vars => PassInv'
<1> SUFFICES ASSUME PassInv, [Next]_vars PROVE PassInv'
  OBVIOUS
<1>1. OnValidConfig' /\ TxInv'  BY NextOnValidConfig, NextTxInv DEF PassInv
<1>2. PassTypes' /\ node'.pc \in Places  BY NextPassTypes
<1>3. InCycleInv'  BY InCycleStep
<1> QED BY <1>1, <1>2, <1>3 DEF PassInv

\* No task completes the same slot twice in one life of the process, whatever
\* intervals the edits of the file bring in between.
THEOREM SlotsRunOnceHolds == Spec => SlotsRunOnce
<1>1. PassInv /\ [Next]_vars =>
        [node.pc = "cycle" /\ node'.pc = "task" /\ ~node.once =>
           sched[Task.collector.name][Task.kind] < Task.slot]_vars
  BY DEF PassInv, InCycleInv, InCycle
<1> QED BY <1>1, InitPassInv, NextPassInv, PTL DEF Spec, SlotsRunOnce

-----------------------------------------------------------------------------
\* A station of the task that is not to come any more has an outcome.
TriedInv ==
  node.pc \in InCycle /\ TaskPages # <<>> =>
    \A station \in ToSet(Task.collector.stations) :
      \/ station \in ToSet(pass.stations)
      \/ \E r \in recent : /\ r.name = Task.collector.name /\ r.kind = Task.kind
                           /\ r.station = station

LEMMA HeadAndTail ==
  ASSUME NEW S, NEW s \in Seq(S), s # <<>>
  PROVE  ToSet(s) \subseteq {Head(s)} \union ToSet(Tail(s))
<1> SUFFICES ASSUME NEW n \in 1 .. Len(s), s[n] # Head(s)
             PROVE  s[n] \in ToSet(Tail(s))
  BY DEF ToSet
<1>1. n - 1 \in 1 .. Len(Tail(s)) /\ Tail(s)[n - 1] = s[n]
  OBVIOUS
<1> QED BY <1>1 DEF ToSet

LEMMA NextTriedInv == PassInv /\ TriedInv /\ [Next]_vars => TriedInv'
<1> SUFFICES ASSUME PassInv, TriedInv, [Next]_vars PROVE TriedInv'
  OBVIOUS
<1> USE DEF InRun, InCycle
<1>0. /\ PassTypes /\ DOMAIN node = DOMAIN Down /\ DOMAIN pass = PassFields
      /\ InCycleInv /\ node.pc \in Places /\ TxInv
  BY DEF PassInv, TxInv
<1>1. CASE node'.pc \notin InCycle  BY <1>1 DEF TriedInv
<1>2. CASE RunCycle
  <2>1. PICK i \in DOMAIN node.config, kind \in Kinds :
          /\ pass'.at = i /\ pass'.kind = kind
          /\ Pages(node.config[i].name, kind) # <<>> =>
               pass'.stations = node.config[i].stations
    BY <1>0, <1>2 DEF RunCycle, PassFields
  <2>2. node'.config = node.config
    BY <1>0, <1>2 DEF RunCycle, Goto, Down
  <2>3. Task'.collector = node.config[i] /\ Task'.kind = kind
    BY <2>1, <2>2 DEF Task
  <2>4. TaskPages' = Pages(node.config[i].name, kind)
    BY <2>3 DEF TaskPages
  <2> QED BY <2>1, <2>3, <2>4 DEF TriedInv
<1>3. CASE StationStep
  <2>1. Task' = Task /\ TaskPages' = TaskPages  BY <1>3, SameTask DEF StationStep, SamePlace
  <2> QED BY <1>3, <2>1 DEF StationStep, TriedInv
<1>4. CASE CommitStep
  <2>1. /\ node.pc = "fetch" /\ node'.config = node.config /\ SamePlace
        /\ pass'.stations = Tail(pass.stations)
    BY <1>0, <1>4 DEF CommitStep, Commit, Goto, Down, PassFields, SamePlace
  <2>2. Task' = Task /\ TaskPages' = TaskPages  BY <2>1, SameTask DEF SamePlace
  <2>3. /\ \A r \in recent : r \in recent'
        /\ \E r \in recent' : /\ r.name = Task.collector.name /\ r.kind = Task.kind
                              /\ r.station = Head(pass.stations)
    <3>1. PICK outcome, t : Commit(outcome, t)  BY <1>4 DEF CommitStep
    <3> DEFINE r == [name |-> Task.collector.name, kind |-> Task.kind, station |-> Station,
                     outcome |-> outcome, rows |-> t.rows, mark |-> t.mark]
    <3>2. recent' = recent \union {r}  BY <3>1 DEF Commit
    <3>3. /\ r.name = Task.collector.name /\ r.kind = Task.kind
          /\ r.station = Head(pass.stations)
      BY DEF Station
    <3> HIDE DEF r
    <3> QED BY <3>2, <3>3
  <2>4. ToSet(pass.stations) \subseteq {Head(pass.stations)} \union ToSet(pass'.stations)
    BY <1>0, <2>1, HeadAndTail DEF PassTypes, InCycleInv
  <2> QED BY <2>1, <2>2, <2>3, <2>4 DEF TriedInv
<1>5. CASE QuietStep
  <2>1. Task' = Task /\ TaskPages' = TaskPages  BY <1>5, SameTask DEF QuietStep
  <2> QED BY <1>5, <2>1 DEF QuietStep, TriedInv
<1>6. OutsideStep => node'.pc \notin InCycle
  BY DEF OutsideStep
<1>7. Dies => node'.pc \notin InCycle  BY DEF Dies, Down
<1>8. RunDueTasks => node'.pc \notin InCycle  BY <1>0 DEF RunDueTasks, Goto, Down
<1>9. CycleDone => node'.pc \notin InCycle  BY <1>0 DEF CycleDone, Goto, Down
<1>10. PassDone /\ ~node.once => node'.pc \notin InCycle  BY <1>0 DEF PassDone, Down
<1> QED
  BY <1>0, <1>1, <1>2, <1>3, <1>4, <1>5, <1>6, <1>7, <1>8, <1>9, <1>10, StepKinds, Zenon

\* A cycle returns when no station is left.
LEMMA CycleEnds ==
  ASSUME PassInv, [Next]_vars, node.pc = "cycle", node'.pc = "task"
  PROVE  pass.stations = <<>>
<1>0. DOMAIN node = DOMAIN Down /\ node.pc \in Places /\ TxInv  BY DEF PassInv, TxInv
<1>1. CycleDone => pass.stations = <<>>  BY DEF CycleDone
<1>2. ~(OutsideStep \/ RunDueTasks \/ RunCycle \/ PassDone \/ CommitStep \/ QuietStep)
  BY DEF OutsideStep, InRun, RunDueTasks, RunCycle, PassDone, CommitStep, QuietStep
<1>3. ~StationStep /\ ~Dies  BY DEF StationStep, Dies, Down
<1> QED BY <1>0, <1>1, <1>2, <1>3, StepKinds

\* A slot is recorded as run only when every station of the collector has an
\* outcome committed in this pass, whatever fails in which station.
THEOREM DoneMeansAllTriedHolds == Spec => DoneMeansAllTried
<1> DEFINE Tried ==
      \A station \in ToSet(Task.collector.stations) :
        \E r \in recent : /\ r.name = Task.collector.name /\ r.kind = Task.kind
                          /\ r.station = station
<1>1. Init => TriedInv  BY DEF Init, Down, TriedInv, InCycle
<1>2. PassInv /\ TriedInv /\ [Next]_vars =>
        [node.pc = "cycle" /\ node'.pc = "task"
           /\ Pages(Task.collector.name, Task.kind) # <<>> => Tried]_vars
  <2> SUFFICES ASSUME PassInv, TriedInv, [Next]_vars, node.pc = "cycle", node'.pc = "task",
                      Pages(Task.collector.name, Task.kind) # <<>>
               PROVE  Tried
    OBVIOUS
  <2>1. ToSet(pass.stations) = {}
    <3>1. pass.stations = <<>>  BY CycleEnds
    <3>2. ToSet(<<>>) = {}  BY DEF ToSet
    <3> QED BY <3>1, <3>2
  <2> QED BY <2>1 DEF TriedInv, TaskPages, InCycle
<1> QED BY <1>1, <1>2, InitPassInv, NextPassInv, NextTriedInv, PTL DEF Spec, DoneMeansAllTried
-----------------------------------------------------------------------------
\* The slot that the pass ran a task for, and the slot it is next scheduled
\* for as the process goes to sleep.
SlotOf(i, kind) ==
  SlotForInstant(pass.now, Grid(node.config[i], kind).interval,
                 Grid(node.config[i], kind).anchor)
NextOf(i, kind) ==
  NextScheduledInstant(node.since, Grid(node.config[i], kind).interval,
                       Grid(node.config[i], kind).anchor)

\* The walk of the pass has left a task behind.
Passed(i, kind) ==
  \/ node.pc = "asleep"
  \/ Turn(i, kind) < Turn(pass.at, pass.kind)
  \/ node.pc = "task" /\ Turn(i, kind) = Turn(pass.at, pass.kind)

\* What the pass has left behind is run up to the pass's slot.
RanUpTo(i, kind) ==
  node.config[i].name \in Runners /\ Passed(i, kind) =>
    SlotOf(i, kind) <= sched[node.config[i].name][kind]

SlotInv ==
  /\ node.pc \in InRun \union {"asleep"} /\ ~node.once =>
       \A i \in DOMAIN node.config, kind \in Kinds : RanUpTo(i, kind)
  /\ node.pc = "asleep" =>
       /\ ~node.once
       /\ node.since \in Nat /\ pass.now <= node.since /\ node.since <= clock
       /\ node.wake \in Int
       /\ \A i \in DOMAIN node.config, kind \in Kinds : node.wake <= NextOf(i, kind)

LEMMA TurnOrder ==
  ASSUME NEW i \in Nat, NEW kind \in Kinds, NEW j \in Nat, NEW other \in Kinds
  PROVE  /\ Turn(i, kind) \in Nat
         /\ i > 0 => Turn(i, kind) > Turn(0, "fc")
         /\ Turn(i, kind) = Turn(j, other) => i = j /\ kind = other
  BY DEF Turn, Kinds

\* What is not waiting when its turn is over has run in the slot of the pass.
LEMMA NotWaiting ==
  ASSUME PassInv, SlotInv, node.pc = "task", ~node.once,
         NEW i \in DOMAIN node.config, NEW kind \in Kinds, ~Waiting(i, kind),
         node.config[i].name \in Runners
  PROVE  SlotOf(i, kind) <= sched[node.config[i].name][kind]
<1> DEFINE last == sched[node.config[i].name][kind]
<1>1. PassTypes /\ pass.now >= Dawn  BY DEF PassInv, InCycleInv, InRun
<1>2. SlotOf(i, kind) \in Nat  BY <1>1, SlotIsNat DEF SlotOf, PassTypes
<1>3. last \in Nat \union {None}  BY <1>1 DEF PassTypes
<1>4. i \in Nat /\ pass.at \in Nat /\ pass.kind \in Kinds  BY <1>1, GridOfTask DEF PassTypes
<1>5. Turn(i, kind) \in Nat /\ Turn(pass.at, pass.kind) \in Nat  BY <1>4, TurnOrder
<1>6. CASE Turn(pass.at, pass.kind) < Turn(i, kind)
  <2>1. ~(last = None \/ last < SlotOf(i, kind))
    BY <1>6 DEF Waiting, IsSlotDue, SlotOf
  <2> HIDE DEF last
  <2>2. SlotOf(i, kind) <= last  BY <2>1, <1>2, <1>3 DEF None
  <2> QED BY <2>2 DEF last
<1>7. CASE ~(Turn(pass.at, pass.kind) < Turn(i, kind))
  <2>1. Passed(i, kind)  BY <1>5, <1>7 DEF Passed
  <2> QED BY <2>1 DEF SlotInv, RanUpTo, InRun
<1> QED BY <1>6, <1>7

LEMMA NextSlotInv == PassInv /\ SlotInv /\ [Next]_vars => SlotInv'
<1> SUFFICES ASSUME PassInv, SlotInv, [Next]_vars PROVE SlotInv'
  OBVIOUS
<1>0. /\ PassTypes /\ DOMAIN node = DOMAIN Down /\ DOMAIN pass = PassFields
      /\ InCycleInv /\ node.pc \in Places /\ TxInv
  BY DEF PassInv, TxInv
<1>1. ASSUME node'.pc \notin InRun \union {"asleep"}
      PROVE  SlotInv'
  BY <1>1 DEF SlotInv
<1>2. CASE OutsideStep  BY <1>1, <1>2 DEF OutsideStep
<1>3. CASE Dies /\ clock' = clock
  <2>1. node'.pc = "down"  BY <1>3 DEF Dies, Down
  <2> QED BY <1>1, <2>1 DEF InRun
\* The steps that leave the walk where it is.
<1>4. ASSUME node'.pc \in InRun, node.pc \in InRun, node'.config = node.config,
             node'.once = node.once, sched' = sched, SamePlace,
             node.pc = "task" <=> node'.pc = "task"
      PROVE  SlotInv'
  <2>1. \A i \in DOMAIN node.config, kind \in Kinds :
          /\ SlotOf(i, kind)' = SlotOf(i, kind)
          /\ Passed(i, kind)' <=> Passed(i, kind)
    BY <1>4 DEF SlotOf, Passed, SamePlace, InRun
  <2>2. \A i \in DOMAIN node.config, kind \in Kinds : RanUpTo(i, kind) => RanUpTo(i, kind)'
    BY <2>1, <1>4 DEF RanUpTo
  <2>3. node'.pc # "asleep"  BY <1>4 DEF InRun
  <2> QED BY <1>4, <2>2, <2>3 DEF SlotInv
<1>5. CASE RunDueTasks
  <2>1. /\ node'.pc = "task" /\ node'.config = node.config
        /\ pass'.at = 0 /\ pass'.kind = "fc"
    BY <1>0, <1>5 DEF RunDueTasks, Goto, Down, Idle
  <2>2. ASSUME NEW i \in DOMAIN node.config, NEW kind \in Kinds
        PROVE  ~Passed(i, kind)'
    <3>1. i \in Nat \ {0}  BY <1>0, GridOfTask DEF PassTypes
    <3>2. 0 \in Nat /\ "fc" \in Kinds  BY DEF Kinds
    <3>3. /\ Turn(i, kind) \in Nat /\ Turn(0, "fc") \in Nat
          /\ Turn(i, kind) > Turn(0, "fc")
      BY <3>1, <3>2, TurnOrder
    <3> QED BY <2>1, <3>3 DEF Passed
  <2> QED BY <2>1, <2>2 DEF SlotInv, RanUpTo
<1>6. CASE RunCycle
  <2>1. PICK i \in DOMAIN node.config, kind \in Kinds :
          /\ pass'.at = i /\ pass'.kind = kind /\ pass'.now = pass.now
          /\ \A j \in DOMAIN node.config, other \in Kinds :
                Waiting(j, other) => Turn(i, kind) <= Turn(j, other)
    BY <1>0, <1>6 DEF RunCycle, PassFields
  <2>2. /\ node.pc = "task" /\ node'.pc = "cycle" /\ node'.config = node.config
        /\ node'.once = node.once /\ sched' = sched
    BY <1>0, <1>6 DEF RunCycle, Goto, Down
  <2>3. ASSUME ~node.once, NEW j \in DOMAIN node.config, NEW other \in Kinds
        PROVE  RanUpTo(j, other)'
    <3> SUFFICES ASSUME Passed(j, other)', node.config[j].name \in Runners
        PROVE  SlotOf(j, other) <= sched[node.config[j].name][other]
      BY <2>1, <2>2 DEF RanUpTo, SlotOf
    <3>1. Turn(j, other) < Turn(i, kind)  BY <2>1, <2>2 DEF Passed
    <3>2. Turn(j, other) \in Nat /\ Turn(i, kind) \in Nat
      BY <1>0, GridOfTask, TurnOrder DEF PassTypes
    <3>3. ~Waiting(j, other)  BY <2>1, <3>1, <3>2
    <3> QED BY <2>2, <2>3, <3>3, NotWaiting
  <2> QED BY <2>2, <2>3 DEF SlotInv
<1>7. CASE CycleDone
  <2>1. /\ node.pc = "cycle" /\ node'.pc = "task" /\ node'.config = node.config
        /\ node'.once = node.once /\ SamePlace
        /\ sched' = [sched EXCEPT ![Task.collector.name][Task.kind] = Task.slot]
    BY <1>0, <1>7 DEF CycleDone, Goto, Down, PassFields, SamePlace
  <2>2. /\ pass.at \in DOMAIN node.config /\ node.config[pass.at].name \in Runners
        /\ pass.kind \in Kinds /\ pass.now >= Dawn
    BY <1>0, <2>1 DEF InCycleInv, InCycle, InRun, PassTypes
  <2>3. /\ Task.collector.name = node.config[pass.at].name /\ Task.kind = pass.kind
        /\ Task.slot = SlotOf(pass.at, pass.kind)
    BY DEF Task, SlotOf
  <2>4. SlotOf(pass.at, pass.kind) \in Nat
    BY <1>0, <2>2, SlotIsNat DEF SlotOf, PassTypes
  <2>5. ASSUME ~node.once, NEW j \in DOMAIN node.config, NEW other \in Kinds
        PROVE  RanUpTo(j, other)'
    <3> SUFFICES ASSUME Passed(j, other)', node.config[j].name \in Runners
        PROVE  SlotOf(j, other) <= sched'[node.config[j].name][other]
      BY <2>1 DEF RanUpTo, SlotOf, SamePlace
    <3>1. CASE j = pass.at /\ other = pass.kind
      <4>1. sched'[node.config[j].name][other] = SlotOf(j, other)
        BY <1>0, <2>1, <2>2, <2>3, <3>1 DEF PassTypes
      <4> QED BY <4>1, <3>1, <2>4
    <3>2. CASE ~(j = pass.at /\ other = pass.kind)
      <4>1. ~(node.config[j].name = node.config[pass.at].name /\ other = pass.kind)
        BY <1>0, <2>2, <3>2, GridOfTask DEF PassTypes
      <4>2. sched'[node.config[j].name][other] = sched[node.config[j].name][other]
        BY <1>0, <2>1, <2>2, <2>3, <4>1 DEF PassTypes
      <4>3. j \in Nat /\ pass.at \in Nat  BY <1>0, GridOfTask DEF PassTypes
      <4>4. Turn(j, other) # Turn(pass.at, pass.kind)
        BY <2>2, <3>2, <4>3, TurnOrder
      <4>5. Passed(j, other)  BY <2>1, <4>4 DEF Passed, SamePlace
      <4> QED BY <2>1, <2>5, <4>2, <4>5 DEF SlotInv, RanUpTo, InRun
    <3> QED BY <3>1, <3>2
  <2> QED BY <2>1, <2>5 DEF SlotInv
<1>8. CASE PassDone /\ ~node.once
  <2>1. /\ node.pc = "task" /\ node'.pc = "asleep" /\ node'.config = node.config
        /\ node'.once = node.once /\ sched' = sched /\ clock' = clock
        /\ pass'.now = pass.now
        /\ node'.since = clock /\ node'.wake = NextWake(clock)
        /\ \A i \in DOMAIN node.config, kind \in Kinds : ~Waiting(i, kind)
    BY <1>0, <1>8 DEF PassDone, Down, Idle, world
  <2>2. ASSUME NEW i \in DOMAIN node.config, NEW kind \in Kinds
        PROVE  RanUpTo(i, kind)'
    <3>1. node.config[i].name \in Runners =>
            SlotOf(i, kind) <= sched[node.config[i].name][kind]
      BY <1>8, <2>1, NotWaiting
    <3> QED BY <2>1, <3>1 DEF RanUpTo, SlotOf
  <2>3. clock \in Nat /\ clock \in Int /\ pass.now <= clock  BY <1>0 DEF PassTypes
  <2>4. /\ NextWake(clock) \in Int
        /\ \A i \in DOMAIN node.config, kind \in Kinds : node'.wake <= NextOf(i, kind)'
    BY <1>0, <2>1, <2>3, WakesInTime DEF PassTypes, NextOf
  <2> QED BY <1>8, <2>1, <2>2, <2>3, <2>4 DEF SlotInv
<1>9. CASE StationStep
  <2>1. node.pc \in InCycle /\ node'.pc \in InCycle /\ SamePlace
        /\ node'.once = node.once /\ sched' = sched
    BY <1>9 DEF StationStep, InCycle
  <2> QED BY <2>1, <1>4 DEF SamePlace, InCycle, InRun
<1>10. CASE CommitStep
  <2>1. /\ node.pc = "fetch" /\ node'.pc = "cycle" /\ SamePlace
        /\ node'.once = node.once /\ sched' = sched
    BY <1>0, <1>10 DEF CommitStep, Commit, Goto, Down, PassFields, SamePlace
  <2> QED BY <2>1, <1>4 DEF SamePlace, InRun
<1>11. CASE QuietStep
  <2>1. /\ node'.pc = node.pc /\ node'.config = node.config /\ node'.once = node.once
        /\ node'.since = node.since /\ node'.wake = node.wake
        /\ sched' = sched /\ pass' = pass /\ clock' \in Nat /\ clock <= clock'
    BY <1>0, <1>11 DEF QuietStep, PassTypes
  <2>2. \A i \in DOMAIN node.config, kind \in Kinds :
          /\ SlotOf(i, kind)' = SlotOf(i, kind) /\ NextOf(i, kind)' = NextOf(i, kind)
          /\ Passed(i, kind)' <=> Passed(i, kind)
    BY <2>1 DEF SlotOf, NextOf, Passed
  <2>3. \A i \in DOMAIN node.config, kind \in Kinds : RanUpTo(i, kind) => RanUpTo(i, kind)'
    BY <2>1, <2>2 DEF RanUpTo
  <2>4. node.pc = "asleep" => node.since <= clock'
    BY <1>0, <2>1 DEF SlotInv, PassTypes
  <2> QED BY <2>1, <2>2, <2>3, <2>4 DEF SlotInv
<1> QED
  BY <1>0, <1>2, <1>3, <1>5, <1>6, <1>7, <1>8, <1>9, <1>10, <1>11, StepKinds, Zenon

\* A slot is lost only when it began while the last pass was running: for all
\* grids, whatever the pass had to do and wherever the clock moved.
LEMMA SlotsRanOrOverrun == PassInv /\ SlotInv => SkippedOnlyByOverrun
<1> SUFFICES ASSUME PassInv, SlotInv, node.pc = "asleep", clock < node.wake,
                    NEW i \in DOMAIN node.config, NEW kind \in Kinds,
                    node.config[i].name \in Runners
             PROVE  LET g == Grid(node.config[i], kind)
                        slot == SlotForInstant(clock, g.interval, g.anchor)
                    IN  \/ slot <= sched[node.config[i].name][kind]
                        \/ pass.now < slot /\ slot <= node.since
  BY DEF SkippedOnlyByOverrun
<1> DEFINE g == Grid(node.config[i], kind)
           slot == SlotForInstant(clock, g.interval, g.anchor)
<1>1. /\ clock \in Int /\ node.since \in Int /\ pass.now \in Int
      /\ pass.now <= node.since /\ node.since <= clock /\ pass.now <= clock
      /\ node.config \in Configs \union {<<>>}
  BY DEF PassInv, PassTypes, SlotInv
<1>2. g.interval \in 1 .. Day /\ Day % g.interval = 0 /\ g.anchor \in 0 .. Day - 1
  BY <1>1, GridOfTask
<1>3. clock < NextScheduledInstant(node.since, g.interval, g.anchor)
  <2>1. node.wake \in Int /\ node.wake <= NextOf(i, kind)  BY DEF SlotInv
  <2> HIDE DEF g
  <2>2. NextScheduledInstant(node.since, g.interval, g.anchor) \in Int
    BY <1>1, <1>2, SlotBounds
  <2>3. NextScheduledInstant(node.since, g.interval, g.anchor) = NextOf(i, kind)
    BY DEF NextOf, g
  <2> QED BY <1>1, <2>1, <2>2, <2>3
<1> HIDE DEF g
<1>4. slot = SlotForInstant(node.since, g.interval, g.anchor)
  BY <1>1, <1>2, <1>3, SlotsInOrder
<1>5. slot \in Int /\ slot <= node.since  BY <1>1, <1>2, <1>4, SlotBounds
<1>6. CASE slot <= pass.now
  <2>1. slot = SlotForInstant(pass.now, g.interval, g.anchor)
    BY <1>1, <1>2, <1>6, SlotsInOrder
  <2>2. SlotOf(i, kind) <= sched[node.config[i].name][kind]
    BY DEF SlotInv, RanUpTo, Passed, InRun
  <2> QED BY <2>1, <2>2 DEF SlotOf, g
<1>7. CASE pass.now < slot  BY <1>5, <1>7 DEF g
<1> QED BY <1>1, <1>5, <1>6, <1>7
-----------------------------------------------------------------------------
(***************************************************************************)
(* The labels of the polls.  A label is never earlier than the slot its    *)
(* task ran for, and every poll of an earlier pass is of a slot that the   *)
(* schedule remembers.                                                     *)
(***************************************************************************)
PollTypes ==
  \A p \in polls : /\ p.at \in Nat /\ p.slot \in Nat /\ p.label \in Nat
                   /\ p.at <= pass.now /\ p.slot <= p.label

\* The poll belongs to the cycle that is running.
OfThisCycle(p) ==
  /\ node.pc \in InCycle /\ pass.label # None
  /\ p.at = pass.now /\ p.slot = Task.slot

PollInv ==
  /\ PollTypes
  /\ node.pc = "down" \/ node.once => node.pc \in InRun \/ polls = {}
  /\ node.once => \A p \in polls : p.at = pass.now
  /\ node.pc \in InCycle /\ pass.label # None =>
       Task.collector.name = Clob /\ Task.kind = "fc" /\ Task.slot <= pass.label
  /\ \A p \in polls : node.once \/ p.slot <= sched[Clob]["fc"] \/ OfThisCycle(p)
  /\ SameLabelOnlyAfterOverrun

LEMMA InitPollInv == Init => PollInv
  BY DEF Init, Down, PollInv, PollTypes, InCycle, InRun, SameLabelOnlyAfterOverrun

\* A step that adds no poll, keeps the schedule and forgets no cycle.
LEMMA SamePolls ==
  ASSUME PollInv, polls' = polls, sched' = sched, pass'.now = pass.now, node'.once = node.once,
         node.pc # "down", node'.pc # "down", node'.once => node'.pc \in InRun,
         node'.pc \in InCycle /\ pass'.label # None =>
           Task'.collector.name = Clob /\ Task'.kind = "fc" /\ Task'.slot <= pass'.label,
         \A p \in polls : OfThisCycle(p) => OfThisCycle(p)'
  PROVE  PollInv'
<1>1. PollTypes'  BY DEF PollInv, PollTypes
<1>2. SameLabelOnlyAfterOverrun'  BY DEF PollInv, SameLabelOnlyAfterOverrun
<1>3. \A p \in polls : node.once \/ p.slot <= sched[Clob]["fc"] \/ OfThisCycle(p)'
  BY DEF PollInv
<1> QED BY <1>1, <1>2, <1>3 DEF PollInv

LEMMA NextPollInv == PassInv /\ PollInv /\ [Next]_vars => PollInv'
<1> SUFFICES ASSUME PassInv, PollInv, [Next]_vars PROVE PollInv'
  OBVIOUS
<1>0. /\ PassTypes /\ DOMAIN node = DOMAIN Down /\ DOMAIN pass = PassFields
      /\ InCycleInv /\ node.pc \in Places /\ TxInv
  BY DEF PassInv, TxInv
<1>1. ASSUME polls' = {}, node'.pc \notin InCycle PROVE PollInv'
  BY <1>1 DEF PollInv, PollTypes, SameLabelOnlyAfterOverrun
<1>2. CASE OutsideStep
  <2>1. /\ node'.pc \notin InRun /\ node'.pc # "down" /\ node.pc \notin InRun
        /\ UNCHANGED <<sched, pass, polls>>
    BY <1>2 DEF OutsideStep, InRun
  <2>2. CASE node.pc = "down" \/ node.once
    BY <2>1, <2>2, <1>1 DEF PollInv, InCycle, InRun
  <2>3. CASE ~(node.pc = "down" \/ node.once)
    <3>1. node'.once = node.once  BY <1>2, <2>3 DEF OutsideStep
    <3>2. \A p \in polls : ~OfThisCycle(p)  BY <2>1 DEF OfThisCycle, InCycle, InRun
    <3> QED BY <2>1, <2>3, <3>1, <3>2, SamePolls DEF InCycle, InRun
  <2> QED BY <2>2, <2>3
<1>3. CASE Dies /\ clock' = clock
  <2>1. polls' = {} /\ node'.pc = "down"  BY <1>3 DEF Dies, Down
  <2> QED BY <2>1, <1>1 DEF InCycle
<1>4. CASE RunDueTasks
  <2>1. /\ node.pc = "run" /\ node'.pc = "task" /\ node'.once = node.once
        /\ pass'.now = clock /\ UNCHANGED <<sched, polls>>
    BY <1>0, <1>4 DEF RunDueTasks, Goto, Down, Idle
  <2>2. node.once => polls = {}  BY <2>1 DEF PollInv, InRun
  <2>3. \A p \in polls : p.slot <= sched[Clob]["fc"] \/ node.once
    BY <2>1 DEF PollInv, OfThisCycle, InCycle
  <2>4. PollTypes'  BY <1>0, <2>1 DEF PollInv, PollTypes, PassTypes
  <2>5. SameLabelOnlyAfterOverrun'  BY <2>1 DEF PollInv, SameLabelOnlyAfterOverrun
  <2> QED BY <2>1, <2>2, <2>3, <2>4, <2>5 DEF PollInv, InRun, InCycle
<1>5. CASE RunCycle
  <2>1. PICK i \in DOMAIN node.config, kind \in Kinds :
          /\ pass'.at = i /\ pass'.kind = kind /\ pass'.now = pass.now
          /\ pass'.label = IF node.config[i].name = Clob /\ kind = "fc"
               THEN SlotForInstant(clock, Grid(node.config[i], kind).interval,
                                   Grid(node.config[i], kind).anchor)
               ELSE None
    BY <1>0, <1>5 DEF RunCycle, PassFields, Clob
  <2>2. /\ node.pc = "task" /\ node'.pc = "cycle" /\ node'.config = node.config
        /\ node'.once = node.once /\ UNCHANGED <<sched, polls>>
    BY <1>0, <1>5 DEF RunCycle, Goto, Down
  <2> DEFINE g == Grid(node.config[i], kind)
  <2>3. /\ Task'.collector = node.config[i] /\ Task'.kind = kind
        /\ Task'.slot = SlotForInstant(pass.now, g.interval, g.anchor)
    BY <2>1, <2>2 DEF Task
  <2>4. SlotForInstant(pass.now, g.interval, g.anchor)
          <= SlotForInstant(clock, g.interval, g.anchor)
    <3>1. g.interval \in 1 .. Day /\ Day % g.interval = 0 /\ g.anchor \in 0 .. Day - 1
      BY <1>0, GridOfTask DEF PassTypes
    <3>2. pass.now \in Int /\ clock \in Int /\ pass.now <= clock  BY <1>0 DEF PassTypes
    <3> HIDE DEF g
    <3> QED BY <3>1, <3>2, SlotsInOrder
  <2>5. pass'.label # None =>
          Task'.collector.name = Clob /\ Task'.kind = "fc" /\ Task'.slot <= pass'.label
    BY <2>1, <2>3, <2>4
  <2>6. \A p \in polls : ~OfThisCycle(p)  BY <2>2 DEF OfThisCycle, InCycle
  <2> QED BY <2>1, <2>2, <2>5, <2>6, SamePolls DEF InRun
<1>6. CASE CycleDone
  <2>1. /\ node.pc = "cycle" /\ node'.pc = "task" /\ node'.once = node.once
        /\ pass'.now = pass.now /\ polls' = polls
        /\ sched' = [sched EXCEPT ![Task.collector.name][Task.kind] = Task.slot]
    BY <1>0, <1>6 DEF CycleDone, Goto, Down, PassFields
  <2>2. /\ Task.collector.name \in Runners /\ Task.kind \in Kinds
        /\ node.once \/ sched[Task.collector.name][Task.kind] < Task.slot
        /\ Clob \in Runners /\ "fc" \in Kinds
        /\ pass.at \in DOMAIN node.config /\ pass.now >= Dawn
    BY <1>0, <2>1 DEF InCycleInv, InCycle, InRun, PassTypes, Task, Clob, Runners, Kinds
  <2>3. Task.slot \in Nat
    BY <1>0, <2>2, SlotIsNat DEF Task, PassTypes
  <2>4. ASSUME NEW p \in polls, ~node.once
        PROVE  p.slot <= sched'[Clob]["fc"]
    <3>1. p.slot <= sched[Clob]["fc"] \/ OfThisCycle(p)  BY <2>4 DEF PollInv
    <3>2. p.slot \in Nat /\ sched[Clob]["fc"] \in Int
      BY <1>0, <2>2 DEF PollInv, PollTypes, PassTypes, None
    <3>3. CASE Task.collector.name = Clob /\ Task.kind = "fc"
      <4>1. sched'[Clob]["fc"] = Task.slot  BY <1>0, <2>1, <2>2, <3>3 DEF PassTypes
      <4> QED BY <2>2, <2>3, <2>4, <3>1, <3>2, <3>3, <4>1 DEF OfThisCycle
    <3>4. CASE ~(Task.collector.name = Clob /\ Task.kind = "fc")
      <4>1. sched'[Clob]["fc"] = sched[Clob]["fc"]
        BY <1>0, <2>1, <2>2, <3>4 DEF PassTypes
      <4>2. ~OfThisCycle(p)  BY <2>1, <3>4 DEF PollInv, OfThisCycle
      <4> QED BY <3>1, <4>1, <4>2
    <3> QED BY <3>3, <3>4
  <2>5. PollTypes'  BY <2>1 DEF PollInv, PollTypes
  <2>6. SameLabelOnlyAfterOverrun'  BY <2>1 DEF PollInv, SameLabelOnlyAfterOverrun
  <2> QED BY <2>1, <2>4, <2>5, <2>6 DEF PollInv, InRun, InCycle
<1>7. CASE PassDone /\ ~node.once
  <2>1. /\ node.pc = "task" /\ node'.pc = "asleep" /\ node'.once = node.once
        /\ pass'.now = pass.now /\ UNCHANGED <<sched, polls>>
    BY <1>0, <1>7 DEF PassDone, Down, Idle
  <2>2. \A p \in polls : ~OfThisCycle(p)  BY <2>1 DEF OfThisCycle, InCycle
  <2> QED BY <1>7, <2>1, <2>2, SamePolls DEF InCycle
<1>8. CASE StationStep
  <2>1. /\ node.pc \in InCycle /\ node'.pc \in InCycle /\ node'.once = node.once
        /\ pass'.now = pass.now /\ pass'.label = pass.label /\ Task' = Task
        /\ UNCHANGED <<sched, polls>>
    BY <1>8, SameTask DEF StationStep, SamePlace, InCycle
  <2>2. \A p \in polls : OfThisCycle(p) => OfThisCycle(p)'  BY <2>1 DEF OfThisCycle
  <2> QED BY <2>1, <2>2, SamePolls DEF InCycle, InRun, PollInv
<1>9. CASE CommitStep
  <2>1. /\ node.pc = "fetch" /\ node'.pc = "cycle" /\ SamePlace
        /\ node'.once = node.once /\ sched' = sched /\ pass'.label = pass.label
    BY <1>0, <1>9 DEF CommitStep, Commit, Goto, Down, PassFields, SamePlace
  <2>2. pass'.now = pass.now /\ Task' = Task  BY <2>1, SameTask DEF SamePlace
  <2> DEFINE new == [station |-> Station, label |-> pass.label, slot |-> Task.slot,
                     at |-> pass.now]
  <2>3. CASE polls' = polls
    <3>1. \A p \in polls : OfThisCycle(p) => OfThisCycle(p)'
      BY <2>1, <2>2 DEF OfThisCycle, InCycle
    <3> QED BY <2>1, <2>2, <2>3, <3>1, SamePolls DEF InCycle, InRun, PollInv
  <2>4. CASE pass.label # None /\ polls' = polls \union {new}
    <3>1. /\ pass.at \in DOMAIN node.config /\ pass.now >= Dawn
          /\ node.once \/ sched[Task.collector.name][Task.kind] < Task.slot
      BY <1>0, <2>1 DEF InCycleInv, InCycle, InRun
    <3>2. Task.slot \in Nat
      BY <1>0, <3>1, SlotIsNat DEF Task, PassTypes
    <3>3. Task.collector.name = Clob /\ Task.kind = "fc" /\ Task.slot <= pass.label
      BY <2>1, <2>4 DEF PollInv, InCycle
    <3>4. pass.label \in Nat /\ pass.now \in Nat  BY <1>0, <2>4 DEF PassTypes
    <3>5. sched[Clob]["fc"] \in Int
      BY <1>0 DEF PassTypes, None, Clob, Runners, Kinds
    <3>6. new.label = pass.label /\ new.slot = Task.slot /\ new.at = pass.now
      OBVIOUS
    <3> HIDE DEF new
    <3>7. PollTypes'
      BY <2>2, <2>4, <3>2, <3>3, <3>4, <3>6 DEF PollInv, PollTypes
    <3>8. \A p \in polls' : node.once \/ p.slot <= sched[Clob]["fc"] \/ OfThisCycle(p)'
      BY <2>1, <2>2, <2>4, <3>6 DEF PollInv, OfThisCycle, InCycle
    <3>9. node.once => \A p \in polls' : p.at = pass.now
      BY <2>4, <3>6 DEF PollInv
    <3>10. ASSUME NEW q \in polls, q.label = pass.label, q.at < pass.now
           PROVE  q.slot < q.label
      <4>1. ~node.once  BY <3>4, <3>10 DEF PollInv
      <4>2. q.slot <= sched[Clob]["fc"]
        BY <3>4, <3>10, <4>1 DEF PollInv, OfThisCycle
      <4>3. q.slot \in Nat  BY DEF PollInv, PollTypes
      <4> QED BY <3>1, <3>2, <3>3, <3>4, <3>5, <3>10, <4>1, <4>2, <4>3
    <3>11. \A q \in polls' : q.at \in Nat /\ q.at <= pass.now
      BY <2>4, <3>4, <3>6 DEF PollInv, PollTypes
    <3>12. SameLabelOnlyAfterOverrun'
      <4> SUFFICES ASSUME NEW q \in polls', NEW p \in polls',
                          q.station = p.station, q.label = p.label, q.at < p.at
                   PROVE  q.slot < q.label
        BY DEF SameLabelOnlyAfterOverrun
      <4>1. q # new  BY <3>4, <3>6, <3>11
      <4>2. q \in polls  BY <2>4, <4>1
      <4>3. CASE p = new  BY <3>6, <3>10, <4>2, <4>3
      <4>4. CASE p \in polls  BY <4>2, <4>4 DEF PollInv, SameLabelOnlyAfterOverrun
      <4> QED BY <2>4, <4>3, <4>4
    <3> QED BY <2>1, <2>2, <3>3, <3>7, <3>8, <3>9, <3>12 DEF PollInv, InRun, InCycle
  <2>5. polls' = polls \/ (pass.label # None /\ polls' = polls \union {new})
    BY <1>9 DEF CommitStep, Commit
  <2> QED BY <2>3, <2>4, <2>5
<1>10. CASE QuietStep
  <2>1. /\ node'.pc = node.pc /\ node'.config = node.config /\ node'.once = node.once
        /\ UNCHANGED <<sched, pass, polls>> /\ Task' = Task
    BY <1>10, SameTask DEF QuietStep
  <2>2. \A p \in polls : OfThisCycle(p)' <=> OfThisCycle(p)  BY <2>1 DEF OfThisCycle
  <2>3. PollTypes' /\ SameLabelOnlyAfterOverrun'
    BY <2>1 DEF PollInv, PollTypes, SameLabelOnlyAfterOverrun
  <2> QED BY <2>1, <2>2, <2>3 DEF PollInv
<1> QED
  BY <1>0, <1>2, <1>3, <1>4, <1>5, <1>6, <1>7, <1>8, <1>9, <1>10, StepKinds, Zenon

\* A pass that overruns is the only way to lose a slot, and the only way to
\* give two polls of one station the same label: for every file that loads,
\* every length of day, and whatever fails, is edited or is killed in between.
THEOREM OnlyOverrunsDisturbSlotsHolds == Spec => []OnlyOverrunsDisturbSlots
<1>1. Init => SlotInv  BY DEF Init, Down, SlotInv, InRun
<1>2. PassInv /\ SlotInv /\ PollInv => OnlyOverrunsDisturbSlots
  BY SlotsRanOrOverrun DEF PollInv, OnlyOverrunsDisturbSlots
<1> QED
  BY <1>1, <1>2, InitPassInv, NextPassInv, NextSlotInv, InitPollInv, NextPollInv, PTL DEF Spec
-----------------------------------------------------------------------------
(***************************************************************************)
(* Types.                                                                  *)
(***************************************************************************)
\* What TypeOK says beyond PassTypes and the shapes of TxInv.
MoreTypes ==
  /\ clock <= Horizon
  /\ file \in [content : Configs \union {Broken}, mtime : 0 .. MaxEdits]
  /\ starts \in 0 .. MaxStarts
  /\ node.mtime \in 0 .. MaxEdits /\ node.once \in BOOLEAN /\ node.stop \in BOOLEAN
  /\ node.pc = "reload" => node.since \in 0 .. MaxEdits
  /\ known \subseteq Stations
  /\ \A r \in recent : r.station \in Stations /\ r.outcome \in {"success", "error"}
  /\ \A p \in polls : p.station \in Stations

LEMMA InitMoreTypes == Init => MoreTypes
<1>1. {Horizon, MaxEdits, MaxStarts} \subseteq Nat /\ Dawn <= Horizon
  BY CollectorAssumption, DayAssumption
<1>2. Init => file \in [content : Configs \union {Broken}, mtime : 0 .. MaxEdits]
  BY <1>1 DEF Init
<1> QED BY <1>1, <1>2 DEF Init, Down, MoreTypes

LEMMA DiesMoreTypes ==
  ASSUME MoreTypes, Dies, UNCHANGED world PROVE MoreTypes'
<1>1. MaxEdits \in Nat  BY CollectorAssumption
<1> QED BY <1>1 DEF Dies, Down, MoreTypes, world

\* A step that only the process makes and that keeps its times.
LEMMA SameMoreTypes ==
  ASSUME MoreTypes, UNCHANGED <<clock, file, starts, known, recent, polls>>,
         node'.mtime = node.mtime, node'.once = node.once, node'.stop = node.stop,
         node'.pc = "reload" => node'.since \in 0 .. MaxEdits
  PROVE  MoreTypes'
  BY DEF MoreTypes

LEMMA CommitMoreTypes ==
  ASSUME MoreTypes, PassInv, node.pc = "fetch",
         NEW outcome \in {"success", "error"}, NEW t, Commit(outcome, t),
         UNCHANGED <<world, known>>
  PROVE  MoreTypes'
<1>1. Station \in Stations
  <2>1. pass.stations \in Seq(Stations) /\ pass.stations # <<>>
    BY DEF PassInv, PassTypes, InCycleInv
  <2> QED BY <2>1 DEF Station
<1> DEFINE r == [name |-> Task.collector.name, kind |-> Task.kind, station |-> Station,
                 outcome |-> outcome, rows |-> t.rows, mark |-> t.mark]
           p == [station |-> Station, label |-> pass.label, slot |-> Task.slot,
                 at |-> pass.now]
<1>2. recent' = recent \union {r} /\ polls' \subseteq polls \union {p}
  BY DEF Commit
<1>3. r.station \in Stations /\ r.outcome = outcome /\ p.station \in Stations
  BY <1>1
<1> HIDE DEF r, p
<1>4. /\ \A q \in recent' : q.station \in Stations /\ q.outcome \in {"success", "error"}
      /\ \A q \in polls' : q.station \in Stations
  BY <1>2, <1>3 DEF MoreTypes
<1>5. node'.pc = "cycle" /\ node'.mtime = node.mtime /\ node'.once = node.once
      /\ node'.stop = node.stop
  BY DEF Commit, Goto, PassInv, TxInv, Down
<1> QED BY <1>4, <1>5 DEF MoreTypes, world

LEMMA NextMoreTypes == PassInv /\ MoreTypes /\ [Next]_vars => MoreTypes'
<1> SUFFICES ASSUME PassInv, MoreTypes, [Next]_vars PROVE MoreTypes'
  OBVIOUS
<1>0. /\ DOMAIN node = DOMAIN Down /\ {Horizon, MaxEdits, MaxStarts} \subseteq Nat
      /\ file.content \in Configs \union {Broken} /\ file.mtime \in 0 .. MaxEdits
      /\ node.config \in Configs \union {<<>>} /\ clock \in Nat
  BY CollectorAssumption DEF PassInv, TxInv, PassTypes, MoreTypes
<1> USE DEF world
<1>1. CASE Start
  <2>1. /\ starts < MaxStarts /\ starts' = starts + 1 /\ node'.once \in BOOLEAN
        /\ node'.mtime = 0 /\ node'.stop = FALSE /\ node'.pc = "load"
        /\ UNCHANGED <<clock, file, known, recent, polls>>
    BY <1>1 DEF Start, Down
  <2>2. starts' \in 0 .. MaxStarts
    <3>1. starts \in Int /\ starts >= 0 /\ MaxStarts \in Int  BY <1>0 DEF MoreTypes
    <3> QED BY <2>1, <3>1
  <2>3. node'.mtime \in 0 .. MaxEdits  BY <1>0, <2>1
  <2> QED BY <2>1, <2>2, <2>3 DEF MoreTypes
<1>2. CASE Load
  <2>1. CASE file.content = Broken  BY <1>2, <2>1, DiesMoreTypes DEF Load
  <2>2. CASE file.content # Broken
    <3>1. /\ node'.mtime = file.mtime /\ node'.once = node.once /\ node'.stop = node.stop
          /\ node'.pc = "stat" /\ UNCHANGED <<clock, file, starts, known, recent, polls>>
      BY <1>0, <1>2, <2>2 DEF Load, Down
    <3> QED BY <1>0, <3>1 DEF MoreTypes
  <2> QED BY <2>1, <2>2
<1>3. CASE FirstStat
  <2>1. /\ node'.mtime = file.mtime /\ node'.once = node.once /\ node'.stop = node.stop
        /\ node'.pc = "sync" /\ UNCHANGED <<clock, file, starts, known, recent, polls>>
    BY <1>0, <1>3 DEF FirstStat, Down
  <2> QED BY <1>0, <2>1 DEF MoreTypes
<1>4. CASE FirstSync
  <2>1. /\ node'.mtime = node.mtime /\ node'.once = node.once /\ node'.stop = node.stop
        /\ node'.pc = "top" /\ UNCHANGED <<clock, file, starts, recent, polls>>
        /\ known' = known \union StationsOf(node.config)
    BY <1>0, <1>4 DEF FirstSync, Goto, Down
  <2>2. StationsOf(node.config) \subseteq Stations  BY <1>0, StationsOfConfig
  <2> QED BY <2>1, <2>2 DEF MoreTypes
<1>5. CASE Top
  <2>1. CASE node.stop  BY <1>5, <2>1, DiesMoreTypes DEF Top
  <2>2. CASE ~node.stop
    <3>1. /\ node'.mtime = node.mtime /\ node'.once = node.once /\ node'.stop = node.stop
          /\ node'.since = file.mtime
          /\ UNCHANGED <<clock, file, starts, known, recent, polls>>
      BY <1>0, <1>5, <2>2 DEF Top, Down
    <3> QED BY <1>0, <3>1 DEF MoreTypes
  <2> QED BY <2>1, <2>2
<1>6. CASE Reload
  <2>1. CASE file.content = Broken  BY <1>6, <2>1, DiesMoreTypes DEF Reload
  <2>2. CASE file.content # Broken
    <3>1. /\ node'.mtime = node.since /\ node'.once = node.once /\ node'.stop = node.stop
          /\ node'.pc = "run" /\ node.pc = "reload"
          /\ UNCHANGED <<clock, file, starts, recent, polls>>
      BY <1>0, <1>6, <2>2 DEF Reload, Down
    <3>2. known' \subseteq known \union StationsOf(file.content)
      BY <1>6, <2>2 DEF Reload
    <3>3. StationsOf(file.content) \subseteq Stations  BY <1>0, <2>2, StationsOfConfig
    <3> QED BY <1>0, <3>1, <3>2, <3>3 DEF MoreTypes
  <2> QED BY <2>1, <2>2
<1>7. CASE RunDueTasks
  <2>1. /\ node'.mtime = node.mtime /\ node'.once = node.once /\ node'.stop = node.stop
        /\ node'.pc = "task" /\ UNCHANGED <<clock, file, starts, known, polls>>
        /\ recent' = {}
    BY <1>0, <1>7 DEF RunDueTasks, Goto, Down
  <2> QED BY <2>1 DEF MoreTypes
<1>8. CASE RunCycle \/ CycleDone \/ BeginStation
  <2>1. /\ node'.mtime = node.mtime /\ node'.once = node.once /\ node'.stop = node.stop
        /\ node'.pc # "reload" /\ UNCHANGED <<clock, file, starts, known, recent, polls>>
    BY <1>0, <1>8 DEF RunCycle, CycleDone, BeginStation, Goto, Down
  <2> QED BY <2>1, SameMoreTypes
<1>9. CASE PassDone
  <2>1. CASE node.once  BY <1>9, <2>1, DiesMoreTypes DEF PassDone
  <2>2. CASE ~node.once
    <3>1. /\ node'.mtime = node.mtime /\ node'.once = node.once /\ node'.stop = node.stop
          /\ node'.pc = "asleep" /\ UNCHANGED <<clock, file, starts, known, recent, polls>>
      BY <1>0, <1>9, <2>2 DEF PassDone, Down
    <3> QED BY <3>1, SameMoreTypes
  <2> QED BY <2>1, <2>2
<1>10. CASE Wake
  <2>1. /\ node'.mtime = node.mtime /\ node'.once = node.once /\ node'.stop = node.stop
        /\ node'.pc = "top" /\ UNCHANGED <<clock, file, starts, known, recent, polls>>
    BY <1>0, <1>10 DEF Wake, Down
  <2> QED BY <2>1, SameMoreTypes
<1>11. CASE UnexpectedError  BY <1>11, CommitMoreTypes DEF UnexpectedError
<1>12. CASE FetchPage  BY <1>12, SameMoreTypes DEF FetchPage
<1>13. CASE PageFails
  <2>1. CASE IsForecast
    BY <1>13, <2>1, SameMoreTypes DEF PageFails, IsForecast
  <2>2. CASE ~IsForecast
    BY <1>13, <2>2, CommitMoreTypes DEF PageFails, IsForecast
  <2> QED BY <2>1, <2>2
<1>14. CASE MetricFails  BY <1>14, CommitMoreTypes DEF MetricFails
<1>15. CASE FinishStation  BY <1>15, CommitMoreTypes DEF FinishStation
<1>16. CASE Tick  BY <1>0, <1>16 DEF Tick, MoreTypes
<1>17. CASE Edit
  <2>1. /\ file.mtime < MaxEdits /\ UNCHANGED <<clock, starts, node, known, recent, polls>>
        /\ \E content \in Configs \union {Broken} :
             file' = [content |-> content, mtime |-> file.mtime + 1]
    BY <1>17 DEF Edit
  <2>2. file' \in [content : Configs \union {Broken}, mtime : 0 .. MaxEdits]
    BY <1>0, <2>1
  <2> QED BY <2>1, <2>2 DEF MoreTypes
<1>18. CASE Signal
  <2>1. /\ node'.mtime = node.mtime /\ node'.once = node.once /\ node'.stop = TRUE
        /\ node'.pc = node.pc /\ node'.since = node.since
        /\ UNCHANGED <<clock, file, starts, known, recent, polls>>
    BY <1>0, <1>18 DEF Signal, Down
  <2> QED BY <2>1 DEF MoreTypes
<1>19. CASE Crash  BY <1>19, DiesMoreTypes DEF Crash
<1>20. CASE UNCHANGED vars  BY <1>20 DEF vars, MoreTypes
<1> QED
  BY <1>1, <1>2, <1>3, <1>4, <1>5, <1>6, <1>7, <1>8, <1>9, <1>10, <1>11, <1>12, <1>13,
     <1>14, <1>15, <1>16, <1>17, <1>18, <1>19, <1>20
  DEF Next, Process

LEMMA TxType ==
  ASSUME TxInv
  PROVE  tx \in [mark : BOOLEAN, rows : SUBSET {"current", "today", "tomorrow", "batch"}]
<1> DEFINE T == [mark : BOOLEAN, rows : SUBSET {"current", "today", "tomorrow", "batch"}]
<1>1. ASSUME NEW mark \in BOOLEAN, NEW rows \in SUBSET {"current", "today", "tomorrow", "batch"}
      PROVE  Tx(mark, rows) \in T
  BY DEF Tx
<1>2. /\ Tx(TRUE, {}) \in T /\ Tx(FALSE, {"tomorrow"}) \in T /\ Tx(FALSE, {}) \in T
      /\ Tx(TRUE, {"today"}) \in T /\ Tx(TRUE, {"today", "tomorrow"}) \in T
      /\ Tx(TRUE, {"current"}) \in T /\ Tx(TRUE, {"batch"}) \in T
  BY <1>1
<1>3. NoTx \in T  BY <1>2, NoTxIsEmpty
<1> SUFFICES tx \in T  OBVIOUS
<1> HIDE DEF T
<1>4. CASE node.pc # "fetch"  BY <1>3, <1>4 DEF TxInv
<1>5. CASE node.pc = "fetch" /\ IsForecast
  BY <1>2, <1>3, <1>5 DEF TxInv, TxOfForecast
<1>6. CASE node.pc = "fetch" /\ ~IsForecast
  BY <1>2, <1>3, <1>6 DEF TxInv, TxOfOnePage
<1> QED BY <1>4, <1>5, <1>6

\* Every variable ranges over what the code can hold, for every file, day and
\* bound: no slot is negative, and no row names a station of no file.
THEOREM TypeOKHolds == Spec => []TypeOK
<1>1. PassInv /\ MoreTypes => TypeOK
  <2> SUFFICES ASSUME PassInv, MoreTypes PROVE TypeOK  OBVIOUS
  <2>1. tx \in [mark : BOOLEAN, rows : SUBSET {"current", "today", "tomorrow", "batch"}]
    BY TxType DEF PassInv
  <2>2. clock \in Dawn .. Horizon
    BY CollectorAssumption, DayAssumption DEF PassInv, PassTypes, MoreTypes
  <2>3. /\ pass.now \in Nat /\ pass.label \in Nat \union {None}
        /\ sched \in [Runners -> [Kinds -> Nat \union {None}]]
        /\ node.config \in Configs \union {<<>>}
    BY DEF PassInv, PassTypes
  <2>4. node.pc \in {"down", "load", "stat", "sync", "top", "reload", "run", "task",
                     "cycle", "fetch", "asleep"}
    BY DEF PassInv, Places, InPass
  <2> QED BY <2>1, <2>2, <2>3, <2>4 DEF MoreTypes, TypeOK
<1> QED BY <1>1, InitPassInv, NextPassInv, InitMoreTypes, NextMoreTypes, PTL DEF Spec
=============================================================================
