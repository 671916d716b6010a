---------------------------- MODULE Provisioning ----------------------------
(***************************************************************************)
(* The commands by which an operator sets up numbers, greetings and        *)
(* holidays from a file (commands/scaffold.py, services/calls.py,          *)
(* services/operating_times.py).  A file is applied entry by entry and     *)
(* every row is a commit of its own, so that a command that fails or is    *)
(* killed leaves a part of its file behind; it is then mended by running a *)
(* command again.  Operators run one command at a time.                    *)
(***************************************************************************)
EXTENDS Integers, SequencesExt

CONSTANTS
    Queues,         \* the queues there are; files may name others
    RoutingFiles,   \* sequences of [target, message, valid, active]
    GreetingFiles,  \* sequences of [message, target]
    HolidayFiles,   \* sequences of [date, queues, valid]
    MaxCommands     \* bound

ASSUME ProvisioningAssumption ==
    /\ MaxCommands \in Nat
    /\ \A f \in RoutingFiles : f \in Seq(ToSet(f))
    /\ \A f \in GreetingFiles : f \in Seq(ToSet(f))
    /\ \A f \in HolidayFiles : f \in Seq(ToSet(f))
    /\ \A f \in RoutingFiles : \A i \in DOMAIN f : {f[i].valid, f[i].active} \subseteq BOOLEAN
    /\ \A f \in HolidayFiles : \A i \in DOMAIN f : f[i].valid \in BOOLEAN

VARIABLES
    routings,   \* the rows of inbound_routing: target, message of the greeting, active
    greetings,  \* the messages of the rows of greeting
    holidays,   \* the rows of queue_holiday: <<queue, date>>
    command,    \* the command that is running, or ran last
    commands    \* how many were begun

provisioningVars == <<routings, greetings, holidays, command, commands>>

-----------------------------------------------------------------------------

RowsOf(targets)   == {r \in DOMAIN routings : routings[r].target \in targets}
ActiveRows(target) == {r \in RowsOf({target}) : routings[r].active}

TargetsOf(file) == {file[i].target : i \in DOMAIN file}

Running(kind) == command.status = "running" /\ command.kind = kind
Entry         == command.file[command.next]
EntryLeft     == command.next \in DOMAIN command.file
Goes(status)  == command' = [command EXCEPT !.status = status]
GoesOn        == command' = [command EXCEPT !.next = @ + 1]

\* rows are the routings it has yet to take out of service, planned the queues it
\* has given the holiday of the entry.
Start(kind, file) ==
    [kind |-> kind, status |-> "running", file |-> file, next |-> 1, rows |-> {}, planned |-> {}]

ProvisioningInit ==
    /\ routings = <<>> /\ greetings = {} /\ holidays = {}
    /\ command = [Start("none", <<>>) EXCEPT !.status = "done"]
    /\ commands = 0

Begin(c) ==
    /\ command.status # "running" /\ commands < MaxCommands
    /\ command' = c
    /\ commands' = commands + 1
    /\ UNCHANGED <<routings, greetings, holidays>>

-----------------------------------------------------------------------------
(* Inbound routings *)

\* Slip: one row is looked up for each number.
ExistingFirst(file) ==
    {r \in RowsOf(TargetsOf(file)) : \A s \in RowsOf({routings[r].target}) : r <= s}

\* get_routings_for_numbers_in_list, get_routings_for_number
Existing(file) == RowsOf(TargetsOf(file))

\* create_inbound_routings for a file, create_inbound_routing for one entry.  With
\* rows there already it does nothing, unless it may replace them.
CreateRoutings == \E file \in RoutingFiles, upsert \in BOOLEAN :
                  \E kind \in {"routings"} \cup (IF Len(file) = 1 THEN {"routing"} ELSE {}) :
    Begin(IF Existing(file) = {} \/ upsert
             THEN [Start(kind, file) EXCEPT !.rows = Existing(file)]
             ELSE [Start(kind, file) EXCEPT !.status = "declined"])

\* set_active_routings_inactive, one commit for each row.
Inactivate == \E r \in command.rows :
    /\ command.status = "running"
    /\ routings' = [routings EXCEPT ![r].active = FALSE]
    /\ command' = [command EXCEPT !.rows = @ \ {r}]
    /\ UNCHANGED <<greetings, holidays, commands>>

AtRouting == command.status = "running" /\ command.kind \in {"routings", "routing"} /\ command.rows = {}

\* create_greeting_if_not_exists, which comes first in create_inbound_routing_with_params.
CreateGreeting ==
    /\ AtRouting \/ Running("greetings")
    /\ EntryLeft /\ Entry.message \notin greetings
    /\ greetings' = greetings \cup {Entry.message}
    /\ UNCHANGED <<routings, holidays, command, commands>>

AddInboundRouting ==
    /\ AtRouting /\ EntryLeft /\ Entry.message \in greetings /\ Entry.valid
    /\ routings' = Append(routings,
           [target |-> Entry.target, message |-> Entry.message, active |-> Entry.active])
    /\ GoesOn
    /\ UNCHANGED <<greetings, holidays, commands>>

\* An entry with an unknown queue, workflow or type is left out of a file.
RefuseEntry ==
    /\ AtRouting /\ EntryLeft /\ Entry.message \in greetings /\ ~Entry.valid
    /\ IF command.kind = "routings" THEN GoesOn ELSE Goes("failed")
    /\ UNCHANGED <<routings, greetings, holidays, commands>>

-----------------------------------------------------------------------------
(* Greetings *)

\* What an entry without a greeting_message is given for one.
NoMessage == ""

\* update_greeting_message_from_config, and update_greeting_message, which looks
\* first whether there is anything to do.
UpdateGreetings == \E file \in GreetingFiles, fromConfig \in BOOLEAN :
    /\ ~fromConfig => Len(file) = 1 /\ file[1].message # NoMessage
    /\ \/ fromConfig /\ Begin(Start("greetings", file))
       \/ ~fromConfig /\ ActiveRows(file[1].target) = {}
              /\ Begin([Start("greetings", file) EXCEPT !.status = "failed"])
       \/ ~fromConfig /\ \E r \in ActiveRows(file[1].target) :
              Begin(IF routings[r].message = file[1].message
                       THEN [Start("greetings", file) EXCEPT !.next = 2]
                       ELSE Start("greetings", file))

\* The command says that there is no greeting and returns, with the greeting created
\* and the entries that follow left as they are.
StopAtEntry ==
    /\ Running("greetings") /\ EntryLeft /\ Entry.message = NoMessage
    /\ NoMessage \in greetings
    /\ Goes("declined")
    /\ UNCHANGED <<routings, greetings, holidays, commands>>

SetGreeting ==
    /\ Running("greetings") /\ EntryLeft /\ Entry.message \in greetings \ {NoMessage}
    /\ IF ActiveRows(Entry.target) = {}
          THEN Goes("failed") /\ UNCHANGED routings
          ELSE \E r \in ActiveRows(Entry.target) :
                   routings' = [routings EXCEPT ![r].message = Entry.message] /\ GoesOn
    /\ UNCHANGED <<greetings, holidays, commands>>

-----------------------------------------------------------------------------
(* Holidays *)

\* create_holiday_hours, with the holidays of its file one after the other
CreateHolidayHours == \E file \in HolidayFiles : Begin(Start("holidays", file))

\* The names of an entry are looked up at once; one that is unknown, or is there
\* twice, fails the command, as do times and dates that are not valid.
Applicable(entry) ==
    entry.valid /\ entry.queues # <<>> /\ IsInjective(entry.queues) /\ ToSet(entry.queues) \subseteq Queues

\* add_holiday_for_queue for the queues of an entry, one commit for each, in the
\* order in which they are found.  A queue has one holiday a day.
AddHoliday ==
    LET left == ToSet(Entry.queues) \ command.planned
    IN  /\ Running("holidays") /\ EntryLeft /\ Applicable(Entry)
        /\ \E q \in left :
               IF <<q, Entry.date>> \in holidays
                  THEN Goes("failed") /\ UNCHANGED holidays
                  ELSE /\ holidays' = holidays \cup {<<q, Entry.date>>}
                       /\ command' = IF left = {q}
                                        THEN [command EXCEPT !.planned = {}, !.next = @ + 1]
                                        ELSE [command EXCEPT !.planned = @ \cup {q}]
        /\ UNCHANGED <<routings, greetings, commands>>

RefuseHoliday ==
    /\ Running("holidays") /\ EntryLeft /\ ~Applicable(Entry)
    /\ Goes("failed")
    /\ UNCHANGED <<routings, greetings, holidays, commands>>

-----------------------------------------------------------------------------

Finish ==
    /\ command.status = "running" /\ ~EntryLeft
    /\ AtRouting \/ command.kind \in {"greetings", "holidays"}
    /\ Goes("done")
    /\ UNCHANGED <<routings, greetings, holidays, commands>>

\* The command is killed, or loses its database.
CutShort ==
    /\ command.status = "running"
    /\ Goes("cut")
    /\ UNCHANGED <<routings, greetings, holidays, commands>>

ProvisioningNext ==
    \/ CreateRoutings \/ Inactivate \/ CreateGreeting \/ AddInboundRouting \/ RefuseEntry
    \/ UpdateGreetings \/ StopAtEntry \/ SetGreeting
    \/ CreateHolidayHours \/ AddHoliday \/ RefuseHoliday
    \/ Finish \/ CutShort

ProvisioningSpec == ProvisioningInit /\ [][ProvisioningNext]_provisioningVars

-----------------------------------------------------------------------------
(* Properties *)

Listed(file, target) ==
    {i \in DOMAIN file : file[i].target = target /\ file[i].valid /\ file[i].active}

\* The numbers of a file are in service with the entries of the file that are valid
\* and active, and with those alone.
RoutingsAsListed(file) == \A t \in TargetsOf(file) :
    /\ Cardinality(ActiveRows(t)) = Cardinality(Listed(file, t))
    /\ {routings[r].message : r \in ActiveRows(t)} = {file[i].message : i \in Listed(file, t)}

\* The last greeting of a file for a number is the one callers hear, unless several
\* routings of the number are in service.
GreetingsAsListed(file) == \A i \in DOMAIN file :
    LET t == file[i].target
    IN  (\A j \in i + 1 .. Len(file) : file[j].target # t) /\ Cardinality(ActiveRows(t)) = 1 =>
            \A r \in ActiveRows(t) : routings[r].message = file[i].message

HolidaysAsListed(file) == \A i \in DOMAIN file :
    \A q \in ToSet(file[i].queues) : <<q, file[i].date>> \in holidays

\* A command that comes to its end has done what its file says, whatever commands
\* before it were cut short or refused, and wherever (create_inbound_routings,
\* update_greeting_message_from_config, create_holiday_hours_from_config).
CommandsDoAsListed == command.status = "done" =>
    CASE command.kind \in {"routings", "routing"} -> RoutingsAsListed(command.file)
      [] command.kind = "greetings"               -> GreetingsAsListed(command.file)
      [] command.kind = "holidays"                -> HolidaysAsListed(command.file)
      [] OTHER                                    -> TRUE
=============================================================================
