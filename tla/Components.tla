----------------------------- MODULE Components ------------------------------
(* The components that share no state with any other, side by side, and the  *)
(* properties of each; those of Ordered are by themselves.  Ordered and the  *)
(* Archiver join them in MCComponents: the Archiver recurses over types,     *)
(* which keeps it out of a module with theorems.                             *)
EXTENDS Pools

CONSTANTS
    Capacity, MaxBlock,                                                \* StackAllocator
    Event, Type, Callback, MaxCallbacks, MaxDepth,                     \* EventBus
    Weekdays, Lists, LastDay,                                          \* Clock
    Files, Dates, Years,                                               \* Calendar
    MaxTime, MaxCmds,                                                  \* Admin
    Program, Stranger, Pid, Cmdline,                                   \* PidFile
    Writer, MaxWrites, Tables                                          \* TableFiles

ASSUME StackAssumption == Capacity \in Nat /\ MaxBlock \in Nat
\* A line that is neither blank nor a header is a date; 0 stands for no year.
ASSUME CalendarAssumption ==
    /\ Dates \subseteq Nat \ {0} /\ Years \subseteq Nat \ {0}
    /\ Files \subseteq Seq(Dates \cup {0, -1})
ASSUME PidAssumption == 0 \notin Pid  \* no process has it
\* Lists hold days in their order; those that are generated reach from the year
\* before to the year after.
ASSUME ClockAssumption ==
    /\ LastDay \in Nat \ {0}
    /\ \A l \in Lists \cup {Weekdays} :
          l \in Seq(Int) /\ \A i, j \in 1 .. Len(l) : i < j => l[i] < l[j]
    /\ Weekdays # <<>> /\ Weekdays[1] < 0 /\ Weekdays[Len(Weekdays)] >= LastDay

VARIABLES
    capacity, top, live, marks,                                        \* StackAllocator
    infos, callbacks, frames, heard,                                   \* EventBus
    now, clock, full,                                                  \* Clock
    bizDays, bizIndex, sound, year,                                    \* Calendar
    time, box, server, client, owed, astray,                           \* Admin
    pid, phase, seen, pidFile, overlap, mixed,                         \* PidFile
    job, inode, named, last, muddle                                    \* TableFiles

stackVars == <<capacity, top, live, marks>>
busVars == <<infos, callbacks, frames, heard>>
clockVars == <<now, clock, full>>
calendarVars == <<bizDays, bizIndex, sound, year>>
adminVars == <<time, box, server, client, owed, astray>>
pidVars == <<pid, phase, seen, pidFile, overlap, mixed>>
tableVars == <<job, inode, named, last, muddle>>

Stack == INSTANCE StackAllocator
Bus == INSTANCE EventBus
Trading == INSTANCE Clock
Business == INSTANCE Calendar
Mailbox == INSTANCE Admin
Instances == INSTANCE PidFile
TableStore == INSTANCE TableFiles

\* A column of doubles or ints holds numbers, one of ints no NaN.
ASSUME TablesAssumption ==
    \A t \in Tables : \A i \in DOMAIN t :
       /\ t[i].rows \in Seq(TableStore!Cell)
       /\ t[i].type = 1 => TableStore!ToSet(t[i].rows) \subseteq {"num", "frac", "long", "nan"}
       /\ t[i].type = 3 => TableStore!ToSet(t[i].rows) \subseteq {"num", "long"}

StackSpec == Stack!Init /\ [][Stack!Next]_stackVars
ClockSpec == Trading!Init /\ [][Trading!Next]_clockVars
BusSpec == Bus!Init /\ [][Bus!Next]_busVars
CalendarSpec == Business!Init /\ [][Business!Next]_calendarVars
AdminSpec == Mailbox!Init /\ [][Mailbox!Next]_adminVars
PidSpec == Instances!Init /\ [][Instances!Next]_pidVars
TableSpec == TableStore!Init /\ [][TableStore!Next]_tableVars
-----------------------------------------------------------------------------
(* MemPool and StackAllocator: no memory is handed out twice at a time, and  *)
(* none that came back is lost.                                              *)
MemoryOnce == NoDoubleHand /\ Stack!BlocksApart

(* EventBus: a firing calls the callbacks it began with, in order and once,  *)
(* whatever they subscribe or fire.                                          *)
HeardInOrder == Bus!HeardInOrder

(* Clock and BizDayConfig: the trading day a clock shows, the queries of a   *)
(* calendar and the weekdays of a year agree with the days they come from.   *)
DaysTrue == Trading!TradingDayTrue /\ Business!CalendarAgrees /\ Business!WeekdaysFollow

(* Admin: each life of the server reads whole commands, in order and once,   *)
(* and the client takes the answer to its own, while no command is issued    *)
(* before the answer to the last and no server starts over an answered one.  *)
AnswersBelong == Mailbox!AnswersBelong

(* proc.cpp: of programs that check one after the other one runs.            *)
OneInstance == Instances!OneInstance

(* write_csv, write_feather: unless two write at once or a csv meets a full  *)
(* disk, the file is the whole of one table, whoever is killed, and its      *)
(* readers find the columns of numbers in it.                                *)
TableSurvives == TableStore!TableSurvives
=============================================================================
