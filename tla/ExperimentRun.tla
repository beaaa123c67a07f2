--------------------------- MODULE ExperimentRun ---------------------------
(***************************************************************************)
(* Recorded experiments that pay for model decisions (features/experiment). *)
(* A run replays recorded bars: each bar settles what the last one decided,*)
(* asks a model when a turn is due, and commits bar and turn in one        *)
(* transaction of the run's journal.  The trade manager's engine            *)
(* (engine.py, trade_manager.py) reads the journal inside that              *)
(* transaction; the rulebook author's runner (author_runner.py) reads it    *)
(* before the first one.  All runs charge one spend ledger                  *)
(* (model_transport.py), whose cap no bill may pass, whatever becomes of    *)
(* the calls.                                                              *)
(*                                                                         *)
(* One account stands for the coins of an author's portfolio, which share  *)
(* nothing but the turn.  The recorded bars are a choice of what they do   *)
(* to the account; prices, sizes and rule texts are left out.  Money is a  *)
(* small number.                                                           *)
(***************************************************************************)
EXTENDS Naturals, Sequences, FiniteSetsExt, Functions

CONSTANTS
    Runs,           \* run directories
    Managers,       \* those of the trade manager; the others have an author
    Procs,          \* processes that create or resume runs
    Bars,           \* how many bars each run has
    ScoredFrom,     \* its first scored bar
    Cadence,        \* cadence_bars
    Cap,            \* the spend cap
    Prices,         \* worst cases of a call, by the price table
    MaxCalls,       \* bound on the ledger
    None

VARIABLES
    journal,    \* per run, the committed bars: the call of each one's turn, or None
    account,    \* per run, the account after its last committed bar
    proc,       \* where each process is
    calls,      \* the spend ledger
    bill,       \* external: what the provider charges for each call
    wire        \* external: calls the provider may still process

runVars == <<journal, account, proc, calls, bill, wire>>

ASSUME RunAssumption ==
    /\ Managers \subseteq Runs
    /\ Bars \in [Runs -> Nat] /\ ScoredFrom \in Nat /\ Cadence \in Nat \ {0}
    /\ Cap \in Nat /\ Prices \subseteq Nat /\ MaxCalls \in Nat
ASSUME NoneAssumption == None \notin Nat /\ None \notin Runs

Accounts == [holding: BOOLEAN, pending: BOOLEAN, exiting: BOOLEAN, halted: BOOLEAN]
Failures == {"unbilled", "unknown"}             \* TransportError: the turn fails
Halts == {"foreign", "overrun", "rejected"}     \* TransportHalted: the run stops
Results == {"replied"} \cup Failures \cup Halts
Calls == [run: Runs, bar: Nat, held: Nat, cost: Nat \cup {None}]
Steps == {"idle", "open", "reserve", "send", "wait", "settle", "decide"}
Places == [pc: Steps, run: Runs \cup {None}, bar: Nat, account: Accounts,
           call: Nat \cup {None}, result: Results \cup {None}]

Flat == [holding |-> FALSE, pending |-> FALSE, exiting |-> FALSE, halted |-> FALSE]
Idle == [pc |-> "idle", run |-> None, bar |-> 0, account |-> Flat, call |-> None, result |-> None]

RunInit ==
    /\ journal = [r \in Runs |-> <<>>]
    /\ account = [r \in Runs |-> Flat]
    /\ proc = [p \in Procs |-> Idle]
    /\ calls = <<>> /\ bill = <<>> /\ wire = {}

\* The process ends, and with it its transaction; or one of its steps raises.
Ends(p) == proc' = [proc EXCEPT ![p] = Idle]

-----------------------------------------------------------------------------
(* The spend ledger (SpendLedger).                                         *)

\* A call counts at its cost once that is known, else at its reservation.
Charge(c) == IF calls[c].cost = None THEN calls[c].held ELSE calls[c].cost
Charged == SumFunction([c \in DOMAIN calls |-> Charge(c)])

\* reserve: the worst case of the request is counted before the call, or the
\* ceiling stops the run.
Reserve(p) ==
    /\ proc[p].pc = "reserve" /\ Len(calls) < MaxCalls
    /\ \E worst \in Prices :
          \/ /\ Charged + worst <= Cap
             /\ calls' = Append(calls, [run |-> proc[p].run, bar |-> proc[p].bar,
                                        held |-> worst, cost |-> None])
             /\ bill' = Append(bill, 0)
             /\ proc' = [proc EXCEPT ![p].pc = "send", ![p].call = Len(calls) + 1]
          \/ /\ Charged + worst > Cap
             /\ Ends(p)
             /\ UNCHANGED <<calls, bill>>
    /\ UNCHANGED <<journal, account, wire>>

\* Mutated form: a failed call costs nothing.
CostWhenAnswered(c, result) == IF result = "replied" THEN bill[c] ELSE 0

\* What decide settles a call at: a failure whose billing is unknown keeps the
\* reservation, and so does a reply that the price table does not cover.
Cost(c, result) ==
    CASE result \in {"replied", "overrun"} -> bill[c]
      [] result = "foreign" -> IF bill[c] > calls[c].held THEN bill[c] ELSE calls[c].held
      [] result \in {"unbilled", "rejected"} -> 0
      [] result = "unknown" -> None

\* settle: then the answer is a turn's evidence, or stops the run.
Settle(p) ==
    /\ proc[p].pc = "settle"
    /\ LET c == proc[p].call
           result == proc[p].result
       IN  /\ calls' = [calls EXCEPT ![c].cost = Cost(c, result)]
           /\ IF result \in Halts THEN Ends(p) ELSE proc' = [proc EXCEPT ![p].pc = "decide"]
    /\ UNCHANGED <<journal, account, bill, wire>>

-----------------------------------------------------------------------------
(* The provider, and the call on its way (AnthropicTransport.decide).       *)

Send(p) ==
    /\ proc[p].pc = "send"
    /\ wire' = wire \cup {proc[p].call}
    /\ proc' = [proc EXCEPT ![p].pc = "wait"]
    /\ UNCHANGED <<journal, account, calls, bill>>

Answered(p, result) ==
    proc' = [proc EXCEPT ![p].pc = "settle", ![p].result = result]

\* A reply bills what it reports; more than was reserved if the bound is wrong.
Reply(p) ==
    /\ proc[p].pc = "wait" /\ proc[p].call \in wire
    /\ wire' = wire \ {proc[p].call}
    /\ \E b \in 1..(calls[proc[p].call].held + 1) :
          /\ bill' = [bill EXCEPT ![proc[p].call] = b]
          /\ \/ Answered(p, IF b > calls[proc[p].call].held THEN "overrun" ELSE "replied")
             \/ Answered(p, "foreign")
    /\ UNCHANGED <<journal, account, calls>>

\* Client errors and overload are rejected unbilled.
Refuse(p) ==
    /\ proc[p].pc = "wait" /\ proc[p].call \in wire
    /\ wire' = wire \ {proc[p].call}
    /\ Answered(p, "unbilled") \/ Answered(p, "rejected")
    /\ UNCHANGED <<journal, account, calls, bill>>

\* A timeout, a lost connection, a server error: nobody knows what becomes of it.
Fail(p) ==
    /\ proc[p].pc = "wait"
    /\ Answered(p, "unknown")
    /\ UNCHANGED <<journal, account, calls, bill, wire>>

\* The provider processes a call whether or not anybody still waits for it.
Process(c) ==
    /\ c \in wire
    /\ wire' = wire \ {c}
    /\ \E b \in 1..calls[c].held : bill' = [bill EXCEPT ![c] = b]
    /\ UNCHANGED <<journal, account, proc, calls>>

-----------------------------------------------------------------------------
(* What a bar does to an account, and what is decided at its close.        *)

\* The position that is left after an exit at the open.
Kept(a) == a.holding /\ ~a.exiting

\* A pending entry may be filled while flat, a position may meet its stop, target
\* or expiry, and equity that was held may fall to the drawdown limit.
MayHappen(a, buys, stops, falls) ==
    /\ buys => a.pending /\ ~a.halted /\ ~Kept(a)
    /\ stops => Kept(a) \/ buys
    /\ falls => a.holding \/ buys

\* Mutated form: the exit is sold and stays pending.
AdvancedExiting(a, buys, stops, falls) ==
    [holding |-> (Kept(a) \/ buys) /\ ~stops, pending |-> FALSE, exiting |-> a.exiting,
     halted |-> a.halted \/ falls]

\* advance, up to the decision: an entry that is not filled lapses.
Advanced(a, buys, stops, falls) ==
    [holding |-> (Kept(a) \/ buys) /\ ~stops, pending |-> FALSE, exiting |-> FALSE,
     halted |-> a.halted \/ falls]

FilledSides(a, buys, stops) ==
    (IF a.exiting THEN <<"sell">> ELSE <<>>) \o
    (IF buys THEN <<"buy">> ELSE <<>>) \o
    (IF stops THEN <<"sell">> ELSE <<>>)

\* A manager decides at every fill, and not at all once halted (manage, advance);
\* the author writes new rules on schedule (_journal).
TurnIsDue(r, bar, a, fills) ==
    /\ bar >= ScoredFrom
    /\ \/ (bar - ScoredFrom) % Cadence = 0
       \/ r \in Managers /\ fills # <<>>
    /\ r \in Managers => ~a.halted

\* A manager's valid reply decides; an author's rules, new or old, decide at every
\* scored bar (evaluate).
Decides(r, bar, result) == IF r \in Managers THEN result = "replied" ELSE bar >= ScoredFrom

\* parse_reply and evaluate: exit only while holding, enter only while flat.
Decisions(r, bar, a, result) ==
    {a} \cup {d \in {[a EXCEPT !.exiting = TRUE]} : Decides(r, bar, result) /\ a.holding}
        \cup {d \in {[a EXCEPT !.pending = TRUE]} :
                Decides(r, bar, result) /\ ~a.holding /\ ~a.halted}

-----------------------------------------------------------------------------
(* A run: run_experiment, run_author.                                      *)

Committed(r) == Len(journal[r])

\* BEGIN IMMEDIATE holds the journal's write lock through the call to the commit.
Unlocked(r) == \A p \in Procs : proc[p].run = r => proc[p].pc \in {"idle", "open"}

\* A process between two bars: an author's runner keeps its chain and accounts in
\* memory, the manager's engine nothing.
Open(r, bar, a) ==
    IF r \in Managers
    THEN [Idle EXCEPT !.pc = "open", !.run = r]
    ELSE [Idle EXCEPT !.pc = "open", !.run = r, !.bar = bar, !.account = a]

\* The command checks the ledger for room, and opens the journal; an author's chain
\* and accounts are read here, for all bars to come.
Start(p, r) ==
    /\ proc[p].pc = "idle" /\ Unlocked(r)
    /\ \E least \in Prices : Charged + least <= Cap
    /\ proc' = [proc EXCEPT ![p] = Open(r, Committed(r), account[r])]
    /\ UNCHANGED <<journal, account, calls, bill, wire>>

\* A new bar from this account.
Observe(p, bar, a) ==
    \E buys, stops, falls \in BOOLEAN :
        LET r == proc[p].run
            b == Advanced(a, buys, stops, falls)
            fills == FilledSides(a, buys, stops)
        IN  /\ MayHappen(a, buys, stops, falls)
            /\ proc' = [proc EXCEPT ![p] =
                          [pc |-> IF TurnIsDue(r, bar, b, fills) THEN "reserve" ELSE "decide",
                           run |-> r, bar |-> bar, account |-> b,
                           call |-> None, result |-> None]]

\* Each of a manager's bars reads the journal in its own transaction.
BeginManaged(p) ==
    LET r == proc[p].run
    IN  /\ proc[p].pc = "open" /\ r \in Managers /\ Unlocked(r)
        /\ Committed(r) < Bars[r]
        /\ Observe(p, Committed(r), account[r])
        /\ UNCHANGED <<journal, account, calls, bill, wire>>

\* Mutated form: no second look at the journal.
BeginAuthoredUnchecked(p) ==
    LET r == proc[p].run
    IN  /\ proc[p].pc = "open" /\ r \notin Managers /\ Unlocked(r)
        /\ proc[p].bar < Bars[r]
        /\ Observe(p, proc[p].bar, proc[p].account)
        /\ UNCHANGED <<journal, account, calls, bill, wire>>

\* An author goes on from what it has in memory, unless the bar is there already:
\* "Author journal advanced concurrently".
BeginAuthored(p) ==
    LET r == proc[p].run
    IN  /\ proc[p].pc = "open" /\ r \notin Managers /\ Unlocked(r)
        /\ proc[p].bar < Bars[r]
        /\ IF proc[p].bar < Committed(r)
           THEN Ends(p)
           ELSE Observe(p, proc[p].bar, proc[p].account)
        /\ UNCHANGED <<journal, account, calls, bill, wire>>

\* Mutated form: the journal keeps no evidence of a failed turn.
EvidenceOfReplies(p) == IF proc[p].result = "replied" THEN proc[p].call ELSE None

\* The turn's record in the journal.
Evidence(p) == proc[p].call

\* The bar, its effects and its turn are inserted under the bar's number, which is
\* the table's key, and committed.
Commit(p) ==
    LET r == proc[p].run
        bar == proc[p].bar
    IN  /\ proc[p].pc = "decide"
        /\ \/ /\ bar = Committed(r)
              /\ journal' = [journal EXCEPT ![r] = Append(@, Evidence(p))]
              /\ \E d \in Decisions(r, bar, proc[p].account, proc[p].result) :
                    /\ account' = [account EXCEPT ![r] = d]
                    /\ proc' = [proc EXCEPT ![p] = Open(r, bar + 1, d)]
           \/ /\ bar < Committed(r)
              /\ Ends(p)
              /\ UNCHANGED <<journal, account>>
        /\ UNCHANGED <<calls, bill, wire>>

\* The process dies, stops after max_bars, or an error ends it.
Stop(p) ==
    /\ proc[p].pc # "idle"
    /\ Ends(p)
    /\ UNCHANGED <<journal, account, calls, bill, wire>>

RunNext ==
    \/ \E p \in Procs :
          \/ \E r \in Runs : Start(p, r)
          \/ BeginManaged(p) \/ BeginAuthored(p)
          \/ Reserve(p) \/ Send(p) \/ Reply(p) \/ Refuse(p) \/ Fail(p) \/ Settle(p)
          \/ Commit(p) \/ Stop(p)
    \/ \E c \in wire : Process(c)

RunSpec == RunInit /\ [][RunNext]_runVars

-----------------------------------------------------------------------------
(* Properties.                                                             *)

\* The variables have their types.
RunTypeOK ==
    /\ journal \in [Runs -> Seq(Nat \cup {None})]
    /\ account \in [Runs -> Accounts]
    /\ proc \in [Procs -> Places]
    /\ calls \in Seq(Calls)
    /\ bill \in Seq(Nat) /\ Len(bill) = Len(calls)
    /\ wire \subseteq DOMAIN calls

\* The cap is hard: what the provider bills, for all runs together and also for calls
\* that nobody waited for, timed out or died with their process, never passes it, as
\* long as each single bill is within the worst case it was priced at
\* (model_transport.py, "behind a hard spend ceiling").
SpendStaysUnderCap ==
    (\A c \in DOMAIN calls : bill[c] <= calls[c].held) => SumFunction(bill) <= Cap

\* A committed turn names the call that was made for it, also when that failed, and
\* its bar is never asked for again; no two turns name the same call (engine.py: "committed bars are never submitted again").
CommittedTurnsAreNotResent ==
    \A r \in Runs : \A n \in DOMAIN journal[r] : journal[r][n] # None =>
        LET k == journal[r][n]
        IN  /\ k \in DOMAIN calls
            /\ calls[k].run = r /\ calls[k].bar = n - 1
            /\ \A c \in DOMAIN calls : c > k /\ calls[c].run = r => calls[c].bar > n - 1

\* The reading of an honest run finds no breach in the ledger, however often it was
\* interrupted and resumed, also by two processes at once: its calls never go back to
\* an earlier bar (ledger_summary: "a resume asks the uncommitted bar again or a later
\* one"), and there are as many of them as journaled turns, of which every due bar of
\* an author has one (_model_spend).
ReadingsFindNoBreach ==
    \A r \in Runs :
        /\ \A c, d \in DOMAIN calls :
              c < d /\ calls[c].run = r /\ calls[d].run = r => calls[c].bar <= calls[d].bar
        /\ \A n \in DOMAIN journal[r] :
              r \notin Managers /\ TurnIsDue(r, n - 1, account[r], <<>>) => journal[r][n] # None
        /\ Quantify(DOMAIN calls, LAMBDA c : calls[c].run = r)
             >= Quantify(DOMAIN journal[r], LAMBDA n : journal[r][n] # None)

\* An exit is pending only while holding, an entry only while flat and not halted
\* (engine.py: "only set while holding; nothing can close the position before this
\* open"), in the journal and in every process; so the next bar never fills one side
\* twice, which would be two fills of one identity.
SoundAccount(a) ==
    /\ a.exiting => a.holding /\ ~a.pending
    /\ a.pending => ~a.holding /\ ~a.halted
AccountsAreSound ==
    /\ \A r \in Runs : SoundAccount(account[r])
    /\ \A p \in Procs : SoundAccount(proc[p].account)
    /\ \A r \in Runs : \A buys, stops \in BOOLEAN :
          MayHappen(account[r], buys, stops, FALSE) =>
              LET fills == FilledSides(account[r], buys, stops)
              IN  \A i, j \in DOMAIN fills : i # j => fills[i] # fills[j]
=============================================================================
