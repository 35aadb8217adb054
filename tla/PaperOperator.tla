--------------------------- MODULE PaperOperator ---------------------------
(***************************************************************************)
(* What an operator does beside the running paper bot: settle from the     *)
(* command line, in a process of its own and without a lock (cli/main.py,  *)
(* paper settle --all), and edit the profiles the bot reloads.             *)
(***************************************************************************)
EXTENDS PaperBot

CONSTANTS
    MaxCommands,  \* bound: settle commands
    MaxEdits      \* bound: edits of the configuration

VARIABLES
    cli,       \* the running command: the events left, the rows it is about to append
    commands,  \* commands started so far
    edits      \* edits so far

operatorVars == <<cli, commands, edits>>

NoCommand == [running |-> FALSE, pairs |-> {}, pend |-> <<>>]

InitWithOperator ==
    /\ Init
    /\ cli = NoCommand /\ commands = 0 /\ edits = 0

\* _settle_all_open: every open event that is resolved, for all profiles.
StartCommand ==
    /\ ~cli.running /\ commands < MaxCommands
    /\ commands' = commands + 1
    /\ cli' = [running |-> TRUE, pend |-> <<>>,
               pairs |-> Wallets \X fetch_open_event_ids(log)]
    /\ UNCHANGED <<vars, edits>>

CommandReads(w, e) ==
    /\ cli.running /\ cli.pend = <<>>
    /\ <<w, e>> \in cli.pairs /\ winner[e] # NoWinner
    /\ cli' = [cli EXCEPT !.pairs = @ \ {<<w, e>>}, !.pend = Settlement(w, e, winner[e])]
    /\ UNCHANGED <<vars, commands, edits>>

CommandCommits ==
    /\ cli.running /\ cli.pend # <<>>
    /\ log' = log \o cli.pend
    /\ cli' = [cli EXCEPT !.pend = <<>>]
    /\ UNCHANGED <<stored, env, faults, pc, pend, tick, commands, edits>>

\* Done, or an exception ended it.
CommandEnds ==
    /\ cli.running
    /\ cli' = NoCommand
    /\ UNCHANGED <<vars, commands, edits>>

\* A profile is enabled or disabled; the bot reloads it before its next tick.
EditProfiles(w) ==
    /\ edits < MaxEdits
    /\ edits' = edits + 1
    /\ enabled' = IF w \in enabled THEN enabled \ {w} ELSE enabled \cup {w}
    /\ UNCHANGED <<log, stored, clock, winner, faults, pc, pend, tick, cli, commands>>

OperatorStep ==
    \/ StartCommand \/ CommandCommits \/ CommandEnds
    \/ \E w \in Wallets, e \in Events : CommandReads(w, e)
    \/ \E w \in Wallets : EditProfiles(w)

NextWithOperator == (Next /\ UNCHANGED operatorVars) \/ OperatorStep

SpecWithOperator ==
    InitWithOperator /\ [][NextWithOperator]_<<vars, operatorVars>>
=============================================================================
