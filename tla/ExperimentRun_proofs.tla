------------------------ MODULE ExperimentRun_proofs ------------------------
(***************************************************************************)
(* Proofs about recorded experiments, for any runs, processes, bars and    *)
(* prices and any number of crashes.                                       *)
(*                                                                         *)
(* Turns: a process between BEGIN and COMMIT is the only one in its run    *)
(* (Exclusive) and stands at the bar that the journal does not have yet    *)
(* (Fits), so its call is the run's last one, and every later call is for  *)
(* a later bar (CallsAreBehind).                                           *)
(*                                                                         *)
(* Spend: a call's reservation is counted until it is settled, and what it *)
(* is settled at covers its bill, so the ledger's sum (FiniteSums) is above *)
(* the bills at all times (SpendInv).                                      *)
(***************************************************************************)
EXTENDS ExperimentRun, FiniteSums

\* Between BEGIN IMMEDIATE and the end of the transaction.
HoldsLock(x) == x.pc \notin {"idle", "open"}

Exclusive ==
    \A p, q \in Procs :
        p # q /\ HoldsLock(proc[p]) /\ HoldsLock(proc[q]) => proc[p].run # proc[q].run

\* Where a process is agrees with the journal and the ledger.
Fits(x) ==
    /\ x.pc # "idle" => x.run \in Runs
    /\ HoldsLock(x) => x.bar = Committed(x.run)
    /\ x.pc = "open" /\ x.run \notin Managers => x.bar <= Committed(x.run)
    /\ x.pc \in {"send", "wait", "settle"} => x.call # None
    /\ x.pc = "settle" => x.result \in Results
    /\ x.call # None =>
          /\ HoldsLock(x)
          /\ x.call \in DOMAIN calls
          /\ calls[x.call].run = x.run /\ calls[x.call].bar = x.bar
          /\ \A c \in DOMAIN calls : c > x.call => calls[c].run # x.run
Fitting == \A p \in Procs : Fits(proc[p])

CallsAreBehind == \A c \in DOMAIN calls : calls[c].bar <= Committed(calls[c].run)

TurnInv == Fitting /\ Exclusive /\ CallsAreBehind /\ CommittedTurnsAreNotResent

\* Every account the program keeps is sound.
KeptSound ==
    /\ \A r \in Runs : SoundAccount(account[r])
    /\ \A p \in Procs : SoundAccount(proc[p].account)

RunInv == RunTypeOK /\ TurnInv /\ KeptSound

-----------------------------------------------------------------------------
(* What the steps put into a process.                                      *)

LEMMA FlatSound == Flat \in Accounts /\ SoundAccount(Flat)
  BY DEF Flat, Accounts, SoundAccount

LEMMA IdlePlace == Idle \in Places
  BY FlatSound DEF Idle, Places, Steps

LEMMA IdleFits == Fits(Idle) /\ ~HoldsLock(Idle) /\ SoundAccount(Idle.account)
  BY FlatSound DEF Fits, Idle, HoldsLock

LEMMA OpenPlace ==
    ASSUME NEW r \in Runs, NEW bar \in Nat, NEW a \in Accounts, SoundAccount(a)
    PROVE  /\ Open(r, bar, a) \in Places
           /\ Open(r, bar, a).pc = "open" /\ Open(r, bar, a).run = r
           /\ Open(r, bar, a).call = None
           /\ r \notin Managers => Open(r, bar, a).bar = bar
           /\ SoundAccount(Open(r, bar, a).account)
  BY FlatSound DEF Open, Idle, Places, Steps

LEMMA AdvancedSound ==
    ASSUME NEW a \in Accounts, SoundAccount(a),
           NEW buys \in BOOLEAN, NEW stops \in BOOLEAN, NEW falls \in BOOLEAN
    PROVE  /\ Advanced(a, buys, stops, falls) \in Accounts
           /\ SoundAccount(Advanced(a, buys, stops, falls))
  BY DEF Advanced, Accounts, SoundAccount, Kept

LEMMA DecisionsSound ==
    ASSUME NEW r, NEW bar, NEW a \in Accounts, SoundAccount(a), NEW result,
           NEW d \in Decisions(r, bar, a, result)
    PROVE  d \in Accounts /\ SoundAccount(d)
  <1>1. CASE d = a
    BY <1>1
  <1>2. CASE d = [a EXCEPT !.exiting = TRUE] /\ a.holding
    BY <1>2 DEF Accounts, SoundAccount
  <1>3. CASE d = [a EXCEPT !.pending = TRUE] /\ ~a.holding /\ ~a.halted
    BY <1>3 DEF Accounts, SoundAccount
  <1> QED
    BY <1>1, <1>2, <1>3 DEF Decisions

-----------------------------------------------------------------------------
(* Steps of one process that leave the journal and the ledger's calls.     *)

LEMMA MoveKeepsTurns ==
    ASSUME RunTypeOK, TurnInv, NEW p \in Procs, NEW x \in Places,
           proc' = [proc EXCEPT ![p] = x], UNCHANGED <<journal, calls>>,
           Fits(x),
           HoldsLock(x) => \A q \in Procs \ {p} : HoldsLock(proc[q]) => proc[q].run # x.run
    PROVE  TurnInv'
  <1>1. proc \in [Procs -> Places]
    BY DEF RunTypeOK
  <1>2. proc'[p] = x /\ \A q \in Procs : q # p => proc'[q] = proc[q]
    BY <1>1
  <1>3. Fitting'
    <2> SUFFICES ASSUME NEW q \in Procs PROVE Fits(proc[q])'
      BY DEF Fitting
    <2>1. Fits(proc'[q])
      BY <1>2 DEF TurnInv, Fitting
    <2> QED
      BY <2>1 DEF Fits, HoldsLock, Committed
  <1>4. Exclusive'
    <2> SUFFICES ASSUME NEW q \in Procs, NEW s \in Procs, q # s,
                        HoldsLock(proc'[q]), HoldsLock(proc'[s])
                 PROVE  proc'[q].run # proc'[s].run
      BY DEF Exclusive, HoldsLock
    <2> QED
      BY <1>2 DEF TurnInv, Exclusive, HoldsLock
  <1>5. CallsAreBehind' /\ CommittedTurnsAreNotResent'
    BY DEF TurnInv, CallsAreBehind, CommittedTurnsAreNotResent, Committed
  <1> QED
    BY <1>3, <1>4, <1>5 DEF TurnInv

LEMMA MoveKeepsSound ==
    ASSUME RunTypeOK, KeptSound, NEW p \in Procs, NEW x \in Places,
           proc' = [proc EXCEPT ![p] = x], UNCHANGED account, SoundAccount(x.account)
    PROVE  KeptSound'
  <1>1. \A q \in Procs : proc'[q] = IF q = p THEN x ELSE proc[q]
    BY DEF RunTypeOK
  <1> QED
    BY <1>1 DEF KeptSound, SoundAccount

LEMMA EndsKeeps ==
    ASSUME RunInv, NEW p \in Procs, Ends(p), UNCHANGED <<journal, account, calls, bill, wire>>
    PROVE  RunInv'
  <1>1. proc' = [proc EXCEPT ![p] = Idle]
    BY DEF Ends
  <1>2. RunTypeOK'
    BY <1>1, IdlePlace DEF RunInv, RunTypeOK
  <1>3. TurnInv'
    BY <1>1, IdlePlace, IdleFits, MoveKeepsTurns DEF RunInv
  <1>4. KeptSound'
    BY <1>1, IdlePlace, IdleFits, MoveKeepsSound DEF RunInv
  <1> QED
    BY <1>2, <1>3, <1>4 DEF RunInv

-----------------------------------------------------------------------------
(* Every action keeps the invariant.                                       *)

LEMMA RunInvInit == RunInit => RunInv
  <1> SUFFICES ASSUME RunInit PROVE RunInv
    OBVIOUS
  <1>1. RunTypeOK
    BY IdlePlace, FlatSound DEF RunInit, RunTypeOK
  <1>2. TurnInv
    BY IdleFits DEF RunInit, TurnInv, Fitting, Exclusive, CallsAreBehind,
       CommittedTurnsAreNotResent
  <1>3. KeptSound
    BY IdleFits, FlatSound DEF RunInit, KeptSound
  <1> QED
    BY <1>1, <1>2, <1>3 DEF RunInv

LEMMA CommittedNat == ASSUME RunTypeOK, NEW r \in Runs PROVE Committed(r) \in Nat
  BY DEF RunTypeOK, Committed

LEMMA StartKeeps ==
    ASSUME RunInv, NEW p \in Procs, NEW r \in Runs, Start(p, r)
    PROVE  RunInv'
  <1> DEFINE x == Open(r, Committed(r), account[r])
  <1>1. account[r] \in Accounts /\ SoundAccount(account[r]) /\ Committed(r) \in Nat
    BY CommittedNat DEF RunInv, RunTypeOK, KeptSound
  <1>2. x \in Places /\ x.pc = "open" /\ x.run = r /\ x.call = None
        /\ (r \notin Managers => x.bar = Committed(r)) /\ SoundAccount(x.account)
    BY <1>1, OpenPlace
  <1>3. Fits(x) /\ ~HoldsLock(x)
    BY <1>1, <1>2 DEF Fits, HoldsLock
  <1>4. proc' = [proc EXCEPT ![p] = x] /\ UNCHANGED <<journal, account, calls, bill, wire>>
    BY DEF Start
  <1> HIDE DEF x
  <1>5. RunTypeOK'
    BY <1>2, <1>4 DEF RunInv, RunTypeOK
  <1>6. TurnInv' /\ KeptSound'
    BY <1>2, <1>3, <1>4, MoveKeepsTurns, MoveKeepsSound DEF RunInv
  <1> QED
    BY <1>5, <1>6 DEF RunInv

\* BEGIN: the process takes the lock and stands at the journal's next bar.
LEMMA ObserveKeeps ==
    ASSUME RunInv, NEW p \in Procs, NEW a \in Accounts, SoundAccount(a),
           proc[p].run \in Runs, Unlocked(proc[p].run),
           Observe(p, Committed(proc[p].run), a),
           UNCHANGED <<journal, account, calls, bill, wire>>
    PROVE  RunInv'
  <1> DEFINE r == proc[p].run
  <1>1. PICK buys \in BOOLEAN, stops \in BOOLEAN, falls \in BOOLEAN :
          \E pc \in {"reserve", "decide"} :
            proc' = [proc EXCEPT ![p] = [pc |-> pc, run |-> r, bar |-> Committed(r),
                       account |-> Advanced(a, buys, stops, falls),
                       call |-> None, result |-> None]]
    BY DEF Observe
  <1>2. PICK pc \in {"reserve", "decide"} :
            proc' = [proc EXCEPT ![p] = [pc |-> pc, run |-> r, bar |-> Committed(r),
                       account |-> Advanced(a, buys, stops, falls),
                       call |-> None, result |-> None]]
    BY <1>1
  <1> DEFINE x == [pc |-> pc, run |-> r, bar |-> Committed(r),
                   account |-> Advanced(a, buys, stops, falls), call |-> None, result |-> None]
  <1>3. x \in Places /\ SoundAccount(x.account)
    BY AdvancedSound, CommittedNat DEF RunInv, Places, Steps
  <1>4. Fits(x)
    BY DEF Fits, HoldsLock
  <1>5. \A q \in Procs \ {p} : HoldsLock(proc[q]) => proc[q].run # x.run
    BY DEF Unlocked, HoldsLock
  <1>6. proc' = [proc EXCEPT ![p] = x]
    BY <1>2
  <1> HIDE DEF x
  <1>7. RunTypeOK'
    BY <1>3, <1>6 DEF RunInv, RunTypeOK
  <1>8. TurnInv' /\ KeptSound'
    BY <1>3, <1>4, <1>5, <1>6, MoveKeepsTurns, MoveKeepsSound DEF RunInv
  <1> QED
    BY <1>7, <1>8 DEF RunInv

LEMMA BeginKeeps ==
    ASSUME RunInv, NEW p \in Procs, BeginManaged(p) \/ BeginAuthored(p)
    PROVE  RunInv'
  <1>1. proc[p].run \in Runs /\ proc[p].account \in Accounts /\ SoundAccount(proc[p].account)
        /\ proc[p].bar \in Nat
    BY DEF RunInv, TurnInv, Fitting, Fits, RunTypeOK, Places, KeptSound, BeginManaged, BeginAuthored
  <1>2. account[proc[p].run] \in Accounts /\ SoundAccount(account[proc[p].run])
    BY <1>1 DEF RunInv, RunTypeOK, KeptSound
  <1>3. CASE BeginManaged(p)
    BY <1>1, <1>2, <1>3, ObserveKeeps DEF BeginManaged
  <1>4. CASE BeginAuthored(p)
    <2>1. CASE proc[p].bar < Committed(proc[p].run)
      BY <1>4, <2>1, EndsKeeps DEF BeginAuthored
    <2>2. CASE ~(proc[p].bar < Committed(proc[p].run))
      <3>1. proc[p].bar = Committed(proc[p].run)
        BY <1>1, <1>4, <2>2, CommittedNat DEF BeginAuthored, RunInv, TurnInv, Fitting, Fits
      <3> QED
        BY <1>1, <1>4, <2>2, <3>1, ObserveKeeps DEF BeginAuthored
    <2> QED
      BY <2>1, <2>2
  <1> QED
    BY <1>3, <1>4

LEMMA HeldNat == ASSUME calls \in Seq(Calls), NEW c \in DOMAIN calls PROVE calls[c].held \in Nat
  <1>1. calls[c] \in Calls
    OBVIOUS
  <1> QED
    BY <1>1 DEF Calls

\* The steps of a call change where its process is and what it knows.
LEMMA CallMoves ==
    ASSUME RunInv, NEW p \in Procs, proc[p].pc \in {"send", "wait"},
           NEW pc \in {"wait", "settle"}, NEW result \in Results \cup {None},
           pc = "settle" => result \in Results,
           proc' = [proc EXCEPT ![p].pc = pc, ![p].result = result],
           UNCHANGED <<journal, account, calls>>
    PROVE  TurnInv' /\ KeptSound' /\ proc' \in [Procs -> Places]
  <1> DEFINE x == [proc[p] EXCEPT !.pc = pc, !.result = result]
  <1>1. proc[p] \in Places /\ Fits(proc[p]) /\ SoundAccount(proc[p].account)
    BY DEF RunInv, RunTypeOK, TurnInv, Fitting, KeptSound
  <1>2. x \in Places /\ x.account = proc[p].account /\ x.run = proc[p].run /\ x.pc = pc
        /\ x.bar = proc[p].bar /\ x.call = proc[p].call /\ x.result = result
    BY <1>1 DEF Places, Steps
  <1>3. proc' = [proc EXCEPT ![p] = x]
    BY DEF RunInv, RunTypeOK
  <1> HIDE DEF x
  <1>4. Fits(x) /\ SoundAccount(x.account)
    BY <1>1, <1>2 DEF Fits, HoldsLock
  <1>5. \A q \in Procs \ {p} : HoldsLock(proc[q]) => proc[q].run # x.run
    BY <1>2 DEF RunInv, TurnInv, Exclusive, HoldsLock
  <1>6. TurnInv' /\ KeptSound'
    BY <1>2, <1>3, <1>4, <1>5, MoveKeepsTurns, MoveKeepsSound DEF RunInv
  <1> QED
    BY <1>2, <1>3, <1>6 DEF RunInv, RunTypeOK

LEMMA WireKeeps ==
    ASSUME RunInv, NEW p \in Procs, Send(p) \/ Reply(p) \/ Refuse(p) \/ Fail(p)
    PROVE  RunInv'
  <1>1. proc[p] \in Places /\ Fits(proc[p])
    BY DEF RunInv, RunTypeOK, TurnInv, Fitting
  <1>2. proc[p].call \in DOMAIN calls /\ calls \in Seq(Calls)
    BY <1>1 DEF Fits, Send, Reply, Refuse, Fail, RunInv, RunTypeOK
  <1>3. bill \in Seq(Nat) /\ DOMAIN bill = DOMAIN calls /\ calls[proc[p].call].held \in Nat
    BY <1>2, HeldNat DEF RunInv, RunTypeOK
  <1>4. CASE Send(p)
    <2>1. proc' = [proc EXCEPT ![p].pc = "wait", ![p].result = proc[p].result]
      BY <1>1, <1>4 DEF Send, RunInv, RunTypeOK, Places
    <2>2. proc[p].result \in Results \cup {None}
      BY <1>1 DEF Places
    <2>3. TurnInv' /\ KeptSound' /\ proc' \in [Procs -> Places]
      BY <1>4, <2>1, <2>2, CallMoves DEF Send
    <2>4. wire' \subseteq DOMAIN calls
      BY <1>2, <1>4 DEF Send, RunInv, RunTypeOK
    <2> QED
      BY <1>4, <2>3, <2>4 DEF Send, RunInv, RunTypeOK
  <1>5. CASE Reply(p) \/ Refuse(p) \/ Fail(p)
    <2>1. PICK result \in Results : Answered(p, result)
      BY <1>5 DEF Reply, Refuse, Fail, Results, Failures, Halts
    <2>2. proc[p].pc = "wait" /\ UNCHANGED <<journal, account, calls>>
      BY <1>5 DEF Reply, Refuse, Fail
    <2>4. TurnInv' /\ KeptSound' /\ proc' \in [Procs -> Places]
      BY <2>1, <2>2, CallMoves DEF Answered
    <2>5. bill' \in Seq(Nat) /\ Len(bill') = Len(bill) /\ wire' \subseteq wire
      <3>1. CASE Reply(p)
        <4>1. PICK b \in 1..(calls[proc[p].call].held + 1) :
                  bill' = [bill EXCEPT ![proc[p].call] = b]
          BY <3>1 DEF Reply
        <4>2. b \in Nat
          BY <1>3
        <4> QED
          BY <1>2, <1>3, <3>1, <4>1, <4>2 DEF Reply
      <3>2. CASE Refuse(p) \/ Fail(p)
        BY <1>3, <3>2 DEF Refuse, Fail
      <3> QED
        BY <1>5, <3>1, <3>2
    <2> QED
      BY <2>2, <2>4, <2>5 DEF RunInv, RunTypeOK
  <1> QED
    BY <1>4, <1>5

LEMMA ProcessKeeps ==
    ASSUME RunInv, NEW c \in wire, Process(c)
    PROVE  RunInv'
  <1>1. c \in DOMAIN calls /\ calls[c].held \in Nat
    BY HeldNat DEF RunInv, RunTypeOK
  <1>2. PICK b \in 1..calls[c].held : bill' = [bill EXCEPT ![c] = b]
    BY DEF Process
  <1>3. bill' \in Seq(Nat) /\ Len(bill') = Len(bill)
    BY <1>1, <1>2 DEF RunInv, RunTypeOK
  <1>4. RunTypeOK'
    BY <1>3 DEF Process, RunInv, RunTypeOK
  <1>5. TurnInv'
    BY DEF Process, RunInv, TurnInv, Fitting, Fits, Exclusive, HoldsLock, CallsAreBehind,
       CommittedTurnsAreNotResent, Committed
  <1>6. KeptSound'
    BY DEF Process, RunInv, KeptSound, SoundAccount
  <1> QED
    BY <1>4, <1>5, <1>6 DEF RunInv

LEMMA ReserveKeeps ==
    ASSUME RunInv, NEW p \in Procs, Reserve(p)
    PROVE  RunInv'
  <1>1. proc[p] \in Places /\ Fits(proc[p]) /\ SoundAccount(proc[p].account)
    BY DEF RunInv, RunTypeOK, TurnInv, Fitting, KeptSound
  <1>2. PICK worst \in Prices :
          \/ /\ calls' = Append(calls, [run |-> proc[p].run, bar |-> proc[p].bar,
                                        held |-> worst, cost |-> None])
             /\ bill' = Append(bill, 0)
             /\ proc' = [proc EXCEPT ![p].pc = "send", ![p].call = Len(calls) + 1]
          \/ Ends(p) /\ UNCHANGED <<calls, bill>>
    BY DEF Reserve
  <1>3. UNCHANGED <<journal, account, wire>> /\ proc[p].pc = "reserve"
    BY DEF Reserve
  <1>4. CASE Ends(p) /\ UNCHANGED <<calls, bill>>
    BY <1>3, <1>4, EndsKeeps
  <1>5. CASE /\ calls' = Append(calls, [run |-> proc[p].run, bar |-> proc[p].bar,
                                        held |-> worst, cost |-> None])
             /\ bill' = Append(bill, 0)
             /\ proc' = [proc EXCEPT ![p].pc = "send", ![p].call = Len(calls) + 1]
    <2> DEFINE k == Len(calls) + 1
               n == [run |-> proc[p].run, bar |-> proc[p].bar, held |-> worst, cost |-> None]
               x == [proc[p] EXCEPT !.pc = "send", !.call = k]
    <2>1. calls \in Seq(Calls) /\ bill \in Seq(Nat) /\ Len(bill) = Len(calls)
          /\ wire \subseteq DOMAIN calls /\ proc \in [Procs -> Places]
          /\ journal \in [Runs -> Seq(Nat \cup {None})] /\ account \in [Runs -> Accounts]
      BY DEF RunInv, RunTypeOK
    <2>2. proc[p].run \in Runs /\ proc[p].bar = Committed(proc[p].run) /\ n \in Calls
      BY <1>1, <1>3, RunAssumption DEF Fits, HoldsLock, Places, Calls
    <2>3. /\ Len(calls') = k /\ calls' \in Seq(Calls) /\ calls'[k] = n
          /\ \A c \in DOMAIN calls : c \in DOMAIN calls' /\ calls'[c] = calls[c] /\ c # k
          /\ \A c \in DOMAIN calls' : c = k \/ c \in DOMAIN calls
      BY <1>5, <2>1, <2>2
    <2>4. x \in Places /\ x.account = proc[p].account /\ x.run = proc[p].run /\ x.pc = "send"
          /\ x.bar = proc[p].bar /\ x.call = k
      <3>1. k \in Nat
        BY <2>1
      <3> QED
        BY <1>1, <3>1 DEF Places, Steps
    <2>5. proc' = [proc EXCEPT ![p] = x]
      BY <1>5, <2>1
    <2>6. \A q \in Procs : proc'[q] = IF q = p THEN x ELSE proc[q]
      BY <2>1, <2>5
    <2>7. k \in Nat /\ k \in DOMAIN calls' /\ \A c \in DOMAIN calls' : c \in Nat /\ ~(c > k)
      BY <2>1, <2>3
    <2> HIDE DEF k, x
    <2>8. RunTypeOK'
      <3>1. bill' \in Seq(Nat) /\ Len(bill') = Len(calls')
        BY <1>5, <2>1, <2>3 DEF k
      <3> QED
        BY <1>3, <2>1, <2>3, <2>4, <2>5, <3>1 DEF RunTypeOK
    <2>9. Fitting'
      <3> SUFFICES ASSUME NEW q \in Procs PROVE Fits(proc[q])'
        BY DEF Fitting
      <3>1. CASE q = p
        <4>1. proc'[q] = x
          BY <2>6, <3>1
        <4> QED
          BY <1>3, <2>2, <2>3, <2>4, <2>7, <4>1, NoneAssumption DEF Fits, HoldsLock, Committed, n
      <3>2. CASE q # p
        <4>1. proc'[q] = proc[q] /\ Fits(proc[q])
          BY <2>6, <3>2 DEF RunInv, TurnInv, Fitting
        <4>2. HoldsLock(proc[q]) => proc[q].run # proc[p].run
          BY <1>3, <3>2 DEF RunInv, TurnInv, Exclusive, HoldsLock
        <4>3. proc[q].call # None =>
                 /\ HoldsLock(proc[q]) /\ proc[q].call \in DOMAIN calls'
                 /\ calls'[proc[q].call].run = proc[q].run
                 /\ calls'[proc[q].call].bar = proc[q].bar
                 /\ \A c \in DOMAIN calls' : c > proc[q].call => calls'[c].run # proc[q].run
          <5> SUFFICES ASSUME proc[q].call # None
                       PROVE  /\ HoldsLock(proc[q]) /\ proc[q].call \in DOMAIN calls'
                              /\ calls'[proc[q].call].run = proc[q].run
                              /\ calls'[proc[q].call].bar = proc[q].bar
                              /\ \A c \in DOMAIN calls' :
                                    c > proc[q].call => calls'[c].run # proc[q].run
            OBVIOUS
          <5>1. /\ HoldsLock(proc[q]) /\ proc[q].call \in DOMAIN calls
                /\ calls[proc[q].call].run = proc[q].run
                /\ calls[proc[q].call].bar = proc[q].bar
                /\ \A c \in DOMAIN calls : c > proc[q].call => calls[c].run # proc[q].run
            BY <4>1 DEF Fits
          <5>2. n.run # proc[q].run
            BY <4>2, <5>1
          <5> QED
            BY <2>3, <5>1, <5>2
        <4> HIDE DEF n
        <4> QED
          BY <1>3, <4>1, <4>3 DEF Fits, HoldsLock, Committed
      <3> QED
        BY <3>1, <3>2
    <2>10. Exclusive'
      BY <1>3, <2>4, <2>6 DEF RunInv, TurnInv, Exclusive, HoldsLock
    <2>11. CallsAreBehind'
      BY <1>3, <2>2, <2>3, CommittedNat DEF RunInv, TurnInv, CallsAreBehind, Committed, n
    <2>12. CommittedTurnsAreNotResent'
      <3> SUFFICES ASSUME NEW r \in Runs, NEW m \in DOMAIN journal[r], journal[r][m] # None
                   PROVE  /\ journal[r][m] \in DOMAIN calls'
                          /\ calls'[journal[r][m]].run = r /\ calls'[journal[r][m]].bar = m - 1
                          /\ \A c \in DOMAIN calls' : c > journal[r][m] /\ calls'[c].run = r
                                => calls'[c].bar > m - 1
        BY <1>3 DEF CommittedTurnsAreNotResent
      <3>1. /\ journal[r][m] \in DOMAIN calls
            /\ calls[journal[r][m]].run = r /\ calls[journal[r][m]].bar = m - 1
            /\ \A c \in DOMAIN calls : c > journal[r][m] /\ calls[c].run = r
                  => calls[c].bar > m - 1
        BY DEF RunInv, TurnInv, CommittedTurnsAreNotResent
      <3>2. m \in 1..Committed(r) /\ Committed(r) \in Nat
        BY <2>1, CommittedNat DEF RunInv, Committed
      <3>3. n.run = r => n.bar > m - 1
        BY <2>2, <3>2
      <3> QED
        BY <2>3, <3>1, <3>3
    <2>13. KeptSound'
      BY <1>1, <1>3, <2>4, <2>6 DEF RunInv, KeptSound, SoundAccount
    <2> QED
      BY <2>8, <2>9, <2>10, <2>11, <2>12, <2>13 DEF RunInv, TurnInv
  <1> QED
    BY <1>2, <1>4, <1>5

LEMMA CostTyped ==
    ASSUME RunTypeOK, NEW c \in DOMAIN calls, NEW result \in Results
    PROVE  Cost(c, result) \in Nat \cup {None}
  <1>1. bill[c] \in Nat /\ calls[c].held \in Nat
    BY HeldNat DEF RunTypeOK
  <1>2. \/ result \in {"replied", "overrun"} \/ result = "foreign"
        \/ result \in {"unbilled", "rejected"} \/ result = "unknown"
    BY DEF Results, Failures, Halts
  <1> QED
    BY <1>1, <1>2 DEF Cost

LEMMA SettleKeeps ==
    ASSUME RunInv, NEW p \in Procs, Settle(p)
    PROVE  RunInv'
  <1> DEFINE c == proc[p].call
             cost == Cost(c, proc[p].result)
             x == IF proc[p].result \in Halts THEN Idle ELSE [proc[p] EXCEPT !.pc = "decide"]
  <1>1. /\ proc[p] \in Places /\ Fits(proc[p]) /\ SoundAccount(proc[p].account)
        /\ proc[p].pc = "settle" /\ UNCHANGED <<journal, account, bill, wire>>
        /\ calls' = [calls EXCEPT ![c].cost = cost]
    BY DEF Settle, RunInv, RunTypeOK, TurnInv, Fitting, KeptSound
  <1>2. c \in DOMAIN calls /\ cost \in Nat \cup {None}
    BY <1>1, CostTyped DEF Fits, RunInv
  <1> HIDE DEF cost
  <1>3. /\ calls \in Seq(Calls) /\ Len(bill) = Len(calls) /\ wire \subseteq DOMAIN calls
        /\ bill \in Seq(Nat) /\ proc \in [Procs -> Places]
        /\ journal \in [Runs -> Seq(Nat \cup {None})] /\ account \in [Runs -> Accounts]
    BY DEF RunInv, RunTypeOK
  <1>4. /\ calls' \in Seq(Calls) /\ Len(calls') = Len(calls) /\ DOMAIN calls' = DOMAIN calls
        /\ \A k \in DOMAIN calls : calls'[k].run = calls[k].run /\ calls'[k].bar = calls[k].bar
    <2>1. \A k \in DOMAIN calls : calls[k] \in Calls
      BY <1>3
    <2>2. [calls[c] EXCEPT !.cost = cost] \in Calls
      BY <1>2, <2>1 DEF Calls
    <2>3. \A k \in DOMAIN calls :
            calls'[k] = IF k = c THEN [calls[c] EXCEPT !.cost = cost] ELSE calls[k]
      BY <1>1, <1>3
    <2>4. calls' \in Seq(Calls) /\ Len(calls') = Len(calls) /\ DOMAIN calls' = DOMAIN calls
      BY <1>1, <1>2, <1>3, <2>2
    <2>5. [calls[c] EXCEPT !.cost = cost].run = calls[c].run
          /\ [calls[c] EXCEPT !.cost = cost].bar = calls[c].bar
      BY <1>2, <2>1 DEF Calls
    <2> HIDE DEF c
    <2> QED
      BY <2>3, <2>4, <2>5
  <1>5. proc' = [proc EXCEPT ![p] = x]
    BY <1>3 DEF Settle, Ends
  <1>6. x \in Places /\ Fits(x) /\ SoundAccount(x.account) /\ (HoldsLock(x) => x.run = proc[p].run)
    BY <1>1, IdlePlace, IdleFits DEF Fits, HoldsLock, Places, Steps
  <1> HIDE DEF x
  <1>7. \A q \in Procs : proc'[q] = IF q = p THEN x ELSE proc[q]
    BY <1>3, <1>5
  <1>8. RunTypeOK'
    BY <1>1, <1>3, <1>4, <1>5, <1>6 DEF RunTypeOK
  <1>9. Fitting'
    <2> SUFFICES ASSUME NEW q \in Procs PROVE Fits(proc[q])'
      BY DEF Fitting
    <2>1. Fits(proc'[q])
      BY <1>6, <1>7 DEF RunInv, TurnInv, Fitting
    <2> QED
      BY <1>1, <1>4, <2>1 DEF Fits, HoldsLock, Committed
  <1>10. Exclusive'
    BY <1>1, <1>6, <1>7 DEF RunInv, TurnInv, Exclusive, HoldsLock
  <1>11. CallsAreBehind' /\ CommittedTurnsAreNotResent'
    BY <1>1, <1>4 DEF RunInv, TurnInv, CallsAreBehind, CommittedTurnsAreNotResent, Committed
  <1>12. KeptSound'
    BY <1>1, <1>6, <1>7 DEF RunInv, KeptSound, SoundAccount
  <1> QED
    BY <1>8, <1>9, <1>10, <1>11, <1>12 DEF RunInv, TurnInv

\* COMMIT: the turn's call is the run's last one.
LEMMA CommitKeeps ==
    ASSUME RunInv, NEW p \in Procs, Commit(p)
    PROVE  RunInv'
  <1> DEFINE r == proc[p].run
             bar == proc[p].bar
  <1>1. /\ proc[p] \in Places /\ Fits(proc[p]) /\ SoundAccount(proc[p].account)
        /\ proc[p].pc = "decide" /\ UNCHANGED <<calls, bill, wire>>
    BY DEF Commit, RunInv, RunTypeOK, TurnInv, Fitting, KeptSound
  <1>2. r \in Runs /\ bar = Committed(r) /\ bar \in Nat /\ proc[p].account \in Accounts
        /\ proc[p].call \in Nat \cup {None}
    BY <1>1 DEF Fits, HoldsLock, Places
  <1>3. PICK d \in Decisions(r, bar, proc[p].account, proc[p].result) :
          /\ journal' = [journal EXCEPT ![r] = Append(journal[r], proc[p].call)]
          /\ account' = [account EXCEPT ![r] = d]
          /\ proc' = [proc EXCEPT ![p] = Open(r, bar + 1, d)]
    BY <1>2 DEF Commit, Evidence
  <1> DEFINE x == Open(r, bar + 1, d)
  <1>4. d \in Accounts /\ SoundAccount(d)
    BY <1>1, <1>2, DecisionsSound
  <1>5. /\ x \in Places /\ x.pc = "open" /\ x.run = r /\ x.call = None
        /\ (r \notin Managers => x.bar = bar + 1) /\ SoundAccount(x.account)
    <2>1. bar + 1 \in Nat
      BY <1>2
    <2>2. r \in Runs /\ d \in Accounts /\ SoundAccount(d)
      BY <1>2, <1>4
    <2> HIDE DEF r, bar
    <2> QED
      BY <2>1, <2>2, OpenPlace
  <1> HIDE DEF x
  <1>6. /\ calls \in Seq(Calls) /\ Len(bill) = Len(calls) /\ wire \subseteq DOMAIN calls
        /\ bill \in Seq(Nat) /\ proc \in [Procs -> Places]
        /\ journal \in [Runs -> Seq(Nat \cup {None})] /\ account \in [Runs -> Accounts]
    BY DEF RunInv, RunTypeOK
  <1>7. \A q \in Procs : proc'[q] = IF q = p THEN x ELSE proc[q]
    BY <1>3, <1>6 DEF x
  <1>8. /\ journal' \in [Runs -> Seq(Nat \cup {None})]
        /\ \A s \in Runs : journal'[s] = IF s = r THEN Append(journal[r], proc[p].call)
                                         ELSE journal[s]
    BY <1>2, <1>3, <1>6
  <1>9. /\ Len(journal'[r]) = bar + 1
        /\ \A s \in Runs : s # r => Len(journal'[s]) = Committed(s)
        /\ \A s \in Runs : Committed(s) \in Nat
    <2>1. journal[r] \in Seq(Nat \cup {None}) /\ Len(journal[r]) = bar
      BY <1>2, <1>6 DEF Committed
    <2>2. Len(Append(journal[r], proc[p].call)) = bar + 1
      BY <1>2, <2>1
    <2> QED
      BY <1>2, <1>8, <2>2, CommittedNat DEF RunInv, Committed
  <1>10. RunTypeOK'
    BY <1>1, <1>2, <1>3, <1>4, <1>5, <1>6, <1>8 DEF RunTypeOK, x
  <1>11. Fitting'
    <2> SUFFICES ASSUME NEW q \in Procs PROVE Fits(proc[q])'
      BY DEF Fitting
    <2>1. CASE q = p
      <3>1. proc'[q] = x
        BY <1>7, <2>1
      <3> QED
        BY <1>2, <1>5, <1>8, <1>9, <3>1 DEF Fits, HoldsLock, Committed
    <2>2. CASE q # p
      <3>1. proc'[q] = proc[q] /\ Fits(proc[q]) /\ proc[q] \in Places
        BY <1>6, <1>7, <2>2 DEF RunInv, TurnInv, Fitting
      <3>2. HoldsLock(proc[q]) => proc[q].run # r
        BY <1>1, <2>2 DEF RunInv, TurnInv, Exclusive, HoldsLock
      <3>3. HoldsLock(proc[q]) => proc[q].bar = Len(journal'[proc[q].run])
        BY <1>9, <3>1, <3>2 DEF Fits, HoldsLock
      <3>4. ASSUME proc[q].pc = "open", proc[q].run \notin Managers
            PROVE  proc[q].bar <= Len(journal'[proc[q].run])
        <4>1. proc[q].run \in Runs /\ proc[q].bar <= Committed(proc[q].run) /\ proc[q].bar \in Nat
          BY <3>1, <3>4 DEF Fits, Places
        <4> QED
          BY <1>2, <1>9, <4>1
      <3> QED
        BY <1>1, <3>1, <3>3, <3>4 DEF Fits, HoldsLock, Committed
    <2> QED
      BY <2>1, <2>2
  <1>12. Exclusive'
    BY <1>5, <1>7 DEF RunInv, TurnInv, Exclusive, HoldsLock
  <1>13. CallsAreBehind'
    <2> SUFFICES ASSUME NEW c \in DOMAIN calls
                 PROVE  calls[c].bar <= Len(journal'[calls[c].run])
      BY <1>1 DEF CallsAreBehind, Committed
    <2>1. calls[c] \in Calls /\ calls[c].bar <= Committed(calls[c].run)
      BY <1>6 DEF RunInv, TurnInv, CallsAreBehind
    <2>2. calls[c].run \in Runs /\ calls[c].bar \in Nat
      BY <2>1 DEF Calls
    <2> QED
      BY <1>2, <1>9, <2>1, <2>2
  <1>14. CommittedTurnsAreNotResent'
    <2> SUFFICES ASSUME NEW s \in Runs, NEW m \in DOMAIN journal'[s], journal'[s][m] # None
                 PROVE  /\ journal'[s][m] \in DOMAIN calls
                        /\ calls[journal'[s][m]].run = s /\ calls[journal'[s][m]].bar = m - 1
                        /\ \A c \in DOMAIN calls : c > journal'[s][m] /\ calls[c].run = s
                              => calls[c].bar > m - 1
      BY <1>1 DEF CommittedTurnsAreNotResent
    <2>1. CASE s = r /\ m = bar + 1
      <3>1. journal'[s][m] = proc[p].call
        BY <1>2, <1>6, <1>8, <2>1 DEF Committed
      <3> QED
        BY <1>1, <1>2, <2>1, <3>1 DEF Fits
    <2>2. CASE ~(s = r /\ m = bar + 1)
      <3>1. m \in DOMAIN journal[s] /\ journal'[s][m] = journal[s][m]
        <4>1. CASE s # r
          BY <1>8, <4>1
        <4>2. CASE s = r
          <5>1. journal[r] \in Seq(Nat \cup {None}) /\ Len(journal[r]) = bar
            BY <1>2, <1>6 DEF Committed
          <5>2. journal'[r] = Append(journal[r], proc[p].call) /\ m # bar + 1
            BY <1>2, <1>8, <2>2, <4>2
          <5> QED
            BY <1>2, <4>2, <5>1, <5>2
        <4> QED
          BY <4>1, <4>2
      <3> QED
        BY <3>1 DEF RunInv, TurnInv, CommittedTurnsAreNotResent
    <2> QED
      BY <2>1, <2>2
  <1>15. KeptSound'
    <2>1. \A s \in Runs : account'[s] = IF s = r THEN d ELSE account[s]
      BY <1>2, <1>3, <1>6
    <2> QED
      BY <1>4, <1>5, <1>7, <2>1 DEF RunInv, KeptSound, SoundAccount
  <1> QED
    BY <1>10, <1>11, <1>12, <1>13, <1>14, <1>15 DEF RunInv, TurnInv

LEMMA RunInvStep == RunInv /\ [RunNext]_runVars => RunInv'
  <1> SUFFICES ASSUME RunInv, [RunNext]_runVars PROVE RunInv'
    OBVIOUS
  <1>1. ASSUME NEW p \in Procs, NEW r \in Runs, Start(p, r) PROVE RunInv'
    BY <1>1, StartKeeps
  <1>2. ASSUME NEW p \in Procs, BeginManaged(p) \/ BeginAuthored(p) PROVE RunInv'
    BY <1>2, BeginKeeps
  <1>3. ASSUME NEW p \in Procs, Reserve(p) PROVE RunInv'
    BY <1>3, ReserveKeeps
  <1>4. ASSUME NEW p \in Procs, Send(p) \/ Reply(p) \/ Refuse(p) \/ Fail(p) PROVE RunInv'
    BY <1>4, WireKeeps
  <1>5. ASSUME NEW p \in Procs, Settle(p) PROVE RunInv'
    BY <1>5, SettleKeeps
  <1>6. ASSUME NEW p \in Procs, Commit(p) PROVE RunInv'
    BY <1>6, CommitKeeps
  <1>7. ASSUME NEW p \in Procs, Stop(p) PROVE RunInv'
    BY <1>7, EndsKeeps DEF Stop
  <1>8. ASSUME NEW c \in wire, Process(c) PROVE RunInv'
    BY <1>8, ProcessKeeps
  <1>9. CASE UNCHANGED runVars
    BY <1>9 DEF runVars, RunInv, RunTypeOK, TurnInv, Fitting, Fits, HoldsLock, Exclusive,
       CallsAreBehind, CommittedTurnsAreNotResent, Committed, KeptSound, SoundAccount
  <1> QED
    BY <1>1, <1>2, <1>3, <1>4, <1>5, <1>6, <1>7, <1>8, <1>9 DEF RunNext

LEMMA RunInvAlways == RunSpec => []RunInv
  BY RunInvInit, RunInvStep, PTL DEF RunSpec

\* The variables keep their types.
THEOREM RunTypes == RunSpec => []RunTypeOK
  <1>1. RunInv => RunTypeOK
    BY DEF RunInv
  <1> QED
    BY RunInvAlways, <1>1, PTL

\* Committed bars are never submitted again (engine.py), for any number of processes,
\* runs and crashes, and whatever becomes of the calls.
THEOREM TurnsAreNotResent == RunSpec => []CommittedTurnsAreNotResent
  <1>1. RunInv => CommittedTurnsAreNotResent
    BY DEF RunInv, TurnInv
  <1> QED
    BY RunInvAlways, <1>1, PTL

-----------------------------------------------------------------------------
(* A sound account's next bar has one fill of a side.                      *)

LEMMA SidesOnce ==
    ASSUME NEW a \in Accounts, SoundAccount(a), NEW buys \in BOOLEAN, NEW stops \in BOOLEAN,
           MayHappen(a, buys, stops, FALSE),
           NEW i \in DOMAIN FilledSides(a, buys, stops),
           NEW j \in DOMAIN FilledSides(a, buys, stops), i # j
    PROVE  FilledSides(a, buys, stops)[i] # FilledSides(a, buys, stops)[j]
  <1> DEFINE f == FilledSides(a, buys, stops)
  <1>1. CASE a.exiting
    <2>1. ~buys /\ ~stops
      BY <1>1 DEF SoundAccount, MayHappen, Kept
    <2>2. f = <<"sell">>
      BY <1>1, <2>1 DEF FilledSides
    <2> QED
      BY <2>2
  <1>2. CASE ~a.exiting
    <2>1. CASE buys /\ stops
      <3>1. f = <<>> \o <<"buy">> \o <<"sell">>
        BY <1>2, <2>1 DEF FilledSides
      <3>2. <<>> \o <<"buy">> = <<"buy">>
        OBVIOUS
      <3>3. f = <<"buy">> \o <<"sell">>
        BY <3>1, <3>2
      <3> HIDE DEF f
      <3>4. DOMAIN f = 1..2 /\ f[1] = "buy" /\ f[2] = "sell"
        BY <3>3
      <3> QED
        BY <3>4 DEF f
    <2>2. CASE buys /\ ~stops
      <3>1. f = <<"buy">>
        BY <1>2, <2>2 DEF FilledSides
      <3> QED
        BY <3>1
    <2>3. CASE ~buys /\ stops
      <3>1. f = <<"sell">>
        BY <1>2, <2>3 DEF FilledSides
      <3> QED
        BY <3>1
    <2>4. CASE ~buys /\ ~stops
      <3>1. f = <<>>
        BY <1>2, <2>4 DEF FilledSides
      <3> QED
        BY <3>1
    <2> QED
      BY <2>1, <2>2, <2>3, <2>4
  <1> QED
    BY <1>1, <1>2

\* No account, in a journal or a process, has an exit without a position or an entry
\* beside one, and no bar fills a side twice.
THEOREM AccountsStaySound == RunSpec => []AccountsAreSound
  <1>1. RunInv => AccountsAreSound
    <2> SUFFICES ASSUME RunInv PROVE AccountsAreSound
      OBVIOUS
    <2>1. \A r \in Runs : account[r] \in Accounts /\ SoundAccount(account[r])
      BY DEF RunInv, RunTypeOK, KeptSound
    <2>2. \A p \in Procs : SoundAccount(proc[p].account)
      BY DEF RunInv, KeptSound
    <2> QED
      BY <2>1, <2>2, SidesOnce DEF AccountsAreSound
  <1> QED
    BY RunInvAlways, <1>1, PTL
-----------------------------------------------------------------------------
(* The spend ledger's sum.                                                 *)

\* What the ledger l counts for each of its calls.
Charges(l) == [c \in DOMAIN l |-> IF l[c].cost = None THEN l[c].held ELSE l[c].cost]
Sum(l) == SumFunctionOnSet(Charges(l), DOMAIN l)

LEMMA ChargedIsSum == Charged = Sum(calls)
  BY DEF Charged, Charge, Sum, Charges, SumFunction

LEMMA ChargesTyped ==
    ASSUME NEW l \in Seq(Calls)
    PROVE  IsFiniteSet(DOMAIN l) /\ (\A c \in DOMAIN l : Charges(l)[c] \in Nat) /\ Sum(l) \in Nat
  <1>1. DOMAIN l = 1..Len(l) /\ Len(l) \in Nat
    OBVIOUS
  <1>2. IsFiniteSet(DOMAIN l)
    BY <1>1, FS_Interval
  <1>3. ASSUME NEW c \in DOMAIN l PROVE Charges(l)[c] \in Nat
    <2>1. l[c] \in Calls
      OBVIOUS
    <2> QED
      BY <2>1 DEF Calls, Charges
  <1> QED
    BY <1>2, <1>3, SumType DEF Sum

\* A new call counts at its reservation.
LEMMA SumOfAppend ==
    ASSUME NEW l \in Seq(Calls), NEW n \in Calls, n.cost = None
    PROVE  Sum(Append(l, n)) = Sum(l) + n.held
  <1> DEFINE m == Append(l, n)
             k == Len(l) + 1
  <1>1. m \in Seq(Calls) /\ k \in DOMAIN m /\ DOMAIN m \ {k} = DOMAIN l /\ m[k] = n
        /\ \A c \in DOMAIN l : m[c] = l[c]
    <2>1. /\ Len(l) \in Nat /\ DOMAIN l = 1..Len(l)
          /\ m \in Seq(Calls) /\ Len(m) = k /\ DOMAIN m = 1..k
      OBVIOUS
    <2>2. m[k] = n /\ \A c \in DOMAIN l : m[c] = l[c]
      OBVIOUS
    <2>3. (1..k) \ {k} = 1..Len(l) /\ k \in 1..k
      BY <2>1
    <2> QED
      BY <2>1, <2>2, <2>3
  <1> HIDE DEF m, k
  <1>2. Sum(m) = Charges(m)[k] + SumFunctionOnSet(Charges(m), DOMAIN l)
    BY <1>1, ChargesTyped, SumSplit DEF Sum
  <1>3. Charges(m)[k] = n.held
    BY <1>1 DEF Charges
  <1>4. \A c \in DOMAIN l : Charges(l)[c] \in Nat /\ Charges(m)[c] = Charges(l)[c]
    BY <1>1, ChargesTyped DEF Charges
  <1>5. SumFunctionOnSet(Charges(m), DOMAIN l) = Sum(l)
    BY <1>4, ChargesTyped, SumEqual DEF Sum
  <1>6. n.held \in Nat /\ Sum(l) \in Nat
    BY ChargesTyped DEF Calls
  <1>7. Sum(m) = n.held + Sum(l)
    BY <1>2, <1>3, <1>5
  <1> QED
    BY <1>6, <1>7 DEF m

LEMMA SumOfLess ==
    ASSUME NEW l \in Seq(Calls), NEW m \in Seq(Calls), DOMAIN m = DOMAIN l,
           \A c \in DOMAIN l : Charges(m)[c] <= Charges(l)[c]
    PROVE  Sum(m) <= Sum(l)
  <1>1. \A c \in DOMAIN l : Charges(m)[c] \in Nat /\ Charges(l)[c] \in Nat
    BY ChargesTyped
  <1>2. IsFiniteSet(DOMAIN l)
    BY ChargesTyped
  <1> QED
    BY <1>1, <1>2, SumMonotone DEF Sum

-----------------------------------------------------------------------------
(* Bills are counted before they can come.                                 *)

BillsFit == \A c \in DOMAIN calls : bill[c] <= calls[c].held

\* A call that the provider may still process is counted at its reservation, and so
\* is one whose process has not settled it yet.
WireIsOpen == \A c \in wire : bill[c] = 0 /\ calls[c].cost = None
BillsAreCounted == \A c \in DOMAIN calls : calls[c].cost # None => bill[c] <= calls[c].cost
CallIsOpen(x) ==
    /\ x.pc \in {"send", "wait", "settle"} => calls[x.call].cost = None
    /\ x.pc = "send" => x.call \notin wire /\ bill[x.call] = 0
    /\ x.pc = "settle" /\ x.result # "unknown" => x.call \notin wire
    /\ x.pc = "settle" /\ x.result \in {"unbilled", "rejected"} => bill[x.call] = 0
CapIsKept == BillsFit => Charged <= Cap

SpendInv == WireIsOpen /\ BillsAreCounted /\ (\A p \in Procs : CallIsOpen(proc[p])) /\ CapIsKept

\* No two processes are on the same call.
LEMMA CallIsOwn ==
    ASSUME RunInv, NEW p \in Procs, NEW q \in Procs, p # q, proc[p].call # None, proc[q].call # None
    PROVE  proc[p].call # proc[q].call
  <1>1. Fits(proc[p]) /\ Fits(proc[q])
    BY DEF RunInv, TurnInv, Fitting
  <1>2. proc[p].run # proc[q].run
    BY <1>1 DEF RunInv, TurnInv, Exclusive, Fits
  <1> QED
    BY <1>1, <1>2 DEF Fits

LEMMA OnCall ==
    ASSUME RunInv, NEW p \in Procs, proc[p].pc \in {"send", "wait", "settle"}
    PROVE  proc[p].call # None /\ proc[p].call \in DOMAIN calls
  BY DEF RunInv, TurnInv, Fitting, Fits

LEMMA InitSpend == RunInit => SpendInv
  <1> SUFFICES ASSUME RunInit PROVE SpendInv
    OBVIOUS
  <1>1. calls = <<>> /\ wire = {} /\ DOMAIN calls = {} /\ \A p \in Procs : proc[p].pc = "idle"
    BY DEF RunInit, Idle
  <1>2. Charged = 0
    BY <1>1, SumOfNone, ChargedIsSum DEF Sum
  <1> QED
    BY <1>1, <1>2, RunAssumption DEF SpendInv, WireIsOpen, BillsAreCounted, CallIsOpen, CapIsKept

\* Steps that neither call nor bill.
LEMMA QuietKeepsSpend ==
    ASSUME RunInv, SpendInv, NEW p \in Procs, NEW x,
           x.pc \notin {"send", "wait", "settle"},
           proc' = [proc EXCEPT ![p] = x], UNCHANGED <<calls, bill, wire>>
    PROVE  SpendInv'
  <1>1. \A q \in Procs : proc'[q] = IF q = p THEN x ELSE proc[q]
    BY DEF RunInv, RunTypeOK
  <1>2. WireIsOpen' /\ BillsAreCounted'
    BY DEF SpendInv, WireIsOpen, BillsAreCounted
  <1>3. \A q \in Procs : CallIsOpen(proc[q])'
    BY <1>1 DEF SpendInv, CallIsOpen
  <1>4. CapIsKept'
    BY DEF SpendInv, CapIsKept, BillsFit, Charged, Charge
  <1> QED
    BY <1>2, <1>3, <1>4 DEF SpendInv

LEMMA EndsKeepsSpend ==
    ASSUME RunInv, SpendInv, NEW p \in Procs, Ends(p), UNCHANGED <<calls, bill, wire>>
    PROVE  SpendInv'
  BY QuietKeepsSpend DEF Ends, Idle

LEMMA OpenIsQuiet ==
    ASSUME NEW r, NEW bar, NEW a
    PROVE  Open(r, bar, a).pc = "open"
  BY DEF Open, Idle

LEMMA StartKeepsSpend ==
    ASSUME RunInv, SpendInv, NEW p \in Procs, NEW r \in Runs, Start(p, r)
    PROVE  SpendInv'
  BY OpenIsQuiet, QuietKeepsSpend DEF Start

LEMMA ObserveKeepsSpend ==
    ASSUME RunInv, SpendInv, NEW p \in Procs, NEW bar, NEW a, Observe(p, bar, a),
           UNCHANGED <<calls, bill, wire>>
    PROVE  SpendInv'
  <1>1. PICK buys \in BOOLEAN, stops \in BOOLEAN, falls \in BOOLEAN :
          \E pc \in {"reserve", "decide"} :
            proc' = [proc EXCEPT ![p] = [pc |-> pc, run |-> proc[p].run, bar |-> bar,
                       account |-> Advanced(a, buys, stops, falls),
                       call |-> None, result |-> None]]
    BY DEF Observe
  <1>2. PICK pc \in {"reserve", "decide"} :
            proc' = [proc EXCEPT ![p] = [pc |-> pc, run |-> proc[p].run, bar |-> bar,
                       account |-> Advanced(a, buys, stops, falls),
                       call |-> None, result |-> None]]
    BY <1>1
  <1> QED
    BY <1>2, QuietKeepsSpend

LEMMA BeginKeepsSpend ==
    ASSUME RunInv, SpendInv, NEW p \in Procs, BeginManaged(p) \/ BeginAuthored(p)
    PROVE  SpendInv'
  BY ObserveKeepsSpend, EndsKeepsSpend DEF BeginManaged, BeginAuthored

LEMMA CommitKeepsSpend ==
    ASSUME RunInv, SpendInv, NEW p \in Procs, Commit(p)
    PROVE  SpendInv'
  <1>1. CASE Ends(p)
    BY <1>1, EndsKeepsSpend DEF Commit
  <1>2. CASE ~Ends(p)
    <2>1. PICK d : proc' = [proc EXCEPT ![p] = Open(proc[p].run, proc[p].bar + 1, d)]
      BY <1>2 DEF Commit
    <2> QED
      BY <2>1, OpenIsQuiet, QuietKeepsSpend DEF Commit
  <1> QED
    BY <1>1, <1>2

\* reserve: the ledger counts the call's worst case, and has room for it.
LEMMA ReserveKeepsSpend ==
    ASSUME RunInv, SpendInv, NEW p \in Procs, Reserve(p)
    PROVE  SpendInv'
  <1>1. CASE Ends(p) /\ UNCHANGED <<calls, bill>>
    BY <1>1, EndsKeepsSpend DEF Reserve
  <1>2. CASE ~(Ends(p) /\ UNCHANGED <<calls, bill>>)
    <2> DEFINE k == Len(calls) + 1
               x == [proc[p] EXCEPT !.pc = "send", !.call = k]
    <2>1. PICK worst \in Prices :
            /\ Charged + worst <= Cap
            /\ calls' = Append(calls, [run |-> proc[p].run, bar |-> proc[p].bar,
                                       held |-> worst, cost |-> None])
            /\ bill' = Append(bill, 0)
            /\ proc' = [proc EXCEPT ![p].pc = "send", ![p].call = k]
      BY <1>2 DEF Reserve
    <2> DEFINE n == [run |-> proc[p].run, bar |-> proc[p].bar, held |-> worst, cost |-> None]
    <2>2. /\ calls \in Seq(Calls) /\ bill \in Seq(Nat) /\ Len(bill) = Len(calls)
          /\ wire \subseteq DOMAIN calls /\ proc \in [Procs -> Places] /\ UNCHANGED wire
      BY DEF RunInv, RunTypeOK, Reserve
    <2>3. n \in Calls /\ n.cost = None /\ n.held = worst /\ worst \in Nat
      <3>1. proc[p].run \in Runs /\ proc[p].bar \in Nat
        BY <2>2 DEF RunInv, TurnInv, Fitting, Fits, Places, Reserve
      <3> QED
        BY <3>1, RunAssumption DEF Calls
    <2>4. x.pc = "send" /\ x.call = k
      BY <2>2 DEF Places
    <2>5. \A q \in Procs : proc'[q] = IF q = p THEN x ELSE proc[q]
      BY <2>1, <2>2
    <2>6. calls' = Append(calls, n)
      BY <2>1
    <2> HIDE DEF n, x
    <2>7. /\ calls'[k] = n /\ bill'[k] = 0 /\ k \notin DOMAIN calls
          /\ \A c \in DOMAIN calls : c \in DOMAIN calls' /\ calls'[c] = calls[c] /\ bill'[c] = bill[c]
          /\ \A c \in DOMAIN calls' : c = k \/ c \in DOMAIN calls
      BY <2>1, <2>2, <2>6
    <2> HIDE DEF k
    <2>8. WireIsOpen' /\ BillsAreCounted'
      BY <2>2, <2>3, <2>7 DEF SpendInv, WireIsOpen, BillsAreCounted
    <2>9. \A q \in Procs : CallIsOpen(proc[q])'
      <3> TAKE q \in Procs
      <3>1. CASE q = p
        <4>1. proc'[q] = x
          BY <2>5, <3>1
        <4> QED
          BY <2>2, <2>3, <2>4, <2>7, <4>1 DEF CallIsOpen
      <3>2. CASE q # p
        <4>1. proc'[q] = proc[q] /\ CallIsOpen(proc[q])
          BY <2>5, <3>2 DEF SpendInv
        <4>2. proc[q].pc \in {"send", "wait", "settle"} => proc[q].call \in DOMAIN calls
          BY OnCall
        <4> QED
          BY <2>2, <2>7, <4>1, <4>2 DEF CallIsOpen
      <3> QED
        BY <3>1, <3>2
    <2>10. CapIsKept'
      <3>1. Sum(calls') = Charged + worst
        BY <2>2, <2>3, <2>6, SumOfAppend, ChargedIsSum
      <3>2. Charged' = Sum(calls')
        BY DEF Charged, Charge, Sum, Charges, SumFunction
      <3> QED
        BY <2>1, <3>1, <3>2 DEF CapIsKept
    <2> QED
      BY <2>8, <2>9, <2>10 DEF SpendInv
  <1> QED
    BY <1>1, <1>2

\* A step of p's call: the other processes' calls are not touched.
LEMMA OthersStayOpen ==
    ASSUME RunInv, SpendInv, NEW p \in Procs, proc[p].pc \in {"send", "wait", "settle"},
           NEW q \in Procs, q # p, proc'[q] = proc[q],
           \A c \in DOMAIN calls : c # proc[p].call =>
              /\ calls'[c].cost = calls[c].cost /\ bill'[c] = bill[c] /\ (c \in wire' => c \in wire)
    PROVE  CallIsOpen(proc[q])'
  <1>1. CASE proc[q].pc \in {"send", "wait", "settle"}
    <2>1. proc[q].call \in DOMAIN calls /\ proc[q].call # proc[p].call
      BY <1>1, OnCall, CallIsOwn
    <2>2. CallIsOpen(proc[q])
      BY DEF SpendInv
    <2> QED
      BY <2>1, <2>2 DEF CallIsOpen
  <1>2. CASE proc[q].pc \notin {"send", "wait", "settle"}
    BY <1>2 DEF CallIsOpen
  <1> QED
    BY <1>1, <1>2

\* A bill that comes for a call is counted already: its reservation is.
LEMMA BillKeepsCap ==
    ASSUME RunInv, SpendInv, NEW c \in DOMAIN calls, NEW b \in Nat, bill[c] = 0,
           UNCHANGED calls, bill' = [bill EXCEPT ![c] = b]
    PROVE  CapIsKept'
  <1>1. bill \in Seq(Nat) /\ DOMAIN bill = DOMAIN calls /\ calls[c].held \in Nat
    BY HeldNat DEF RunInv, RunTypeOK
  <1>2. BillsFit' => BillsFit
    BY <1>1 DEF BillsFit
  <1>3. UNCHANGED Charged
    BY DEF Charged, Charge
  <1> QED
    BY <1>2, <1>3 DEF SpendInv, CapIsKept

LEMMA WireKeepsSpend ==
    ASSUME RunInv, SpendInv, NEW p \in Procs, Send(p) \/ Reply(p) \/ Refuse(p) \/ Fail(p)
    PROVE  SpendInv'
  <1> DEFINE c == proc[p].call
  <1>1. /\ proc[p].pc \in {"send", "wait"} /\ c \in DOMAIN calls /\ UNCHANGED calls
        /\ calls[c].cost = None /\ CallIsOpen(proc[p])
    BY OnCall DEF Send, Reply, Refuse, Fail, SpendInv, CallIsOpen
  <1>2. /\ bill \in Seq(Nat) /\ DOMAIN bill = DOMAIN calls /\ wire \subseteq DOMAIN calls
        /\ proc \in [Procs -> Places] /\ calls[c].held \in Nat
    BY <1>1, HeldNat DEF RunInv, RunTypeOK
  <1>3. \A q \in Procs : q # p => proc'[q] = proc[q]
    BY <1>2 DEF Send, Reply, Refuse, Fail, Answered
  <1>4. CASE Send(p)
    <2>1. WireIsOpen' /\ BillsAreCounted' /\ CapIsKept'
      BY <1>1, <1>4 DEF Send, SpendInv, WireIsOpen, BillsAreCounted, CapIsKept, BillsFit,
         Charged, Charge, CallIsOpen
    <2>2. proc'[p].pc = "wait" /\ proc'[p].call = c
      BY <1>2, <1>4 DEF Send, Places
    <2>3. CallIsOpen(proc[p])'
      BY <1>1, <2>2 DEF CallIsOpen
    <2>4. \A q \in Procs : q # p => CallIsOpen(proc[q])'
      BY <1>1, <1>3, <1>4, OthersStayOpen DEF Send
    <2> QED
      BY <2>1, <2>3, <2>4 DEF SpendInv
  <1>5. CASE Reply(p)
    <2>1. PICK b \in 1..(calls[c].held + 1) : bill' = [bill EXCEPT ![c] = b]
      BY <1>5 DEF Reply
    <2>2. b \in Nat /\ c \in wire /\ wire' = wire \ {c} /\ bill[c] = 0
      BY <1>2, <1>5 DEF Reply, SpendInv, WireIsOpen
    <2>3. \A k \in DOMAIN calls : bill'[k] = IF k = c THEN b ELSE bill[k]
      BY <1>2, <2>1
    <2>4. WireIsOpen' /\ BillsAreCounted'
      BY <1>1, <1>2, <2>2, <2>3 DEF SpendInv, WireIsOpen, BillsAreCounted
    <2>5. CapIsKept'
      BY <1>1, <2>1, <2>2, BillKeepsCap
    <2>6. proc'[p].pc = "settle" /\ proc'[p].call = c
          /\ proc'[p].result \in {"replied", "overrun", "foreign"}
      BY <1>2, <1>5 DEF Reply, Answered, Places
    <2>7. CallIsOpen(proc[p])'
      BY <1>1, <2>2, <2>6 DEF CallIsOpen
    <2>8. \A q \in Procs : q # p => CallIsOpen(proc[q])'
      <3> HIDE DEF c
      <3> TAKE q \in Procs
      <3> HAVE q # p
      <3>1. \A k \in DOMAIN calls : k # proc[p].call =>
              /\ calls'[k].cost = calls[k].cost /\ bill'[k] = bill[k] /\ (k \in wire' => k \in wire)
        BY <1>1, <2>2, <2>3 DEF c
      <3> QED
        BY <1>1, <1>3, <3>1, OthersStayOpen
    <2> QED
      BY <2>4, <2>5, <2>7, <2>8 DEF SpendInv
  <1>6. CASE Refuse(p) \/ Fail(p)
    <2>1. UNCHANGED bill /\ wire' \subseteq wire
      BY <1>6 DEF Refuse, Fail
    <2>2. WireIsOpen' /\ BillsAreCounted' /\ CapIsKept'
      BY <1>1, <2>1 DEF SpendInv, WireIsOpen, BillsAreCounted, CapIsKept, BillsFit, Charged, Charge
    <2>3. proc'[p].pc = "settle" /\ proc'[p].call = c
      BY <1>2, <1>6 DEF Refuse, Fail, Answered, Places
    <2>4. proc'[p].result # "unknown" => c \in wire /\ wire' = wire \ {c}
      BY <1>2, <1>6 DEF Refuse, Fail, Answered, Places
    <2>5. CallIsOpen(proc[p])'
      BY <1>1, <2>1, <2>3, <2>4 DEF CallIsOpen, SpendInv, WireIsOpen
    <2>6. \A q \in Procs : q # p => CallIsOpen(proc[q])'
      BY <1>1, <1>3, <2>1, OthersStayOpen
    <2> QED
      BY <2>2, <2>5, <2>6 DEF SpendInv
  <1> QED
    BY <1>4, <1>5, <1>6

LEMMA ProcessKeepsSpend ==
    ASSUME RunInv, SpendInv, NEW c \in wire, Process(c)
    PROVE  SpendInv'
  <1>1. /\ c \in DOMAIN calls /\ calls[c].held \in Nat /\ bill[c] = 0 /\ calls[c].cost = None
        /\ bill \in Seq(Nat) /\ DOMAIN bill = DOMAIN calls /\ wire \subseteq DOMAIN calls
    BY HeldNat DEF RunInv, RunTypeOK, SpendInv, WireIsOpen
  <1>2. PICK b \in 1..calls[c].held : bill' = [bill EXCEPT ![c] = b]
    BY DEF Process
  <1>3. b \in Nat /\ wire' = wire \ {c} /\ UNCHANGED <<calls, proc>>
    BY <1>1 DEF Process
  <1>4. \A k \in DOMAIN calls : bill'[k] = IF k = c THEN b ELSE bill[k]
    BY <1>1, <1>2
  <1>5. WireIsOpen' /\ BillsAreCounted'
    BY <1>1, <1>3, <1>4 DEF SpendInv, WireIsOpen, BillsAreCounted
  <1>6. CapIsKept'
    BY <1>1, <1>2, <1>3, BillKeepsCap
  <1>7. \A q \in Procs : CallIsOpen(proc[q])'
    <2> TAKE q \in Procs
    <2>1. CASE proc[q].pc \in {"send", "wait", "settle"}
      <3>1. proc[q].call \in DOMAIN calls /\ CallIsOpen(proc[q])
        BY <2>1, OnCall DEF SpendInv
      <3> QED
        BY <1>1, <1>3, <1>4, <3>1 DEF CallIsOpen
    <2>2. CASE proc[q].pc \notin {"send", "wait", "settle"}
      BY <1>3, <2>2 DEF CallIsOpen
    <2> QED
      BY <2>1, <2>2
  <1> QED
    BY <1>5, <1>6, <1>7 DEF SpendInv

\* What a call is settled at covers its bill, and is no more than was reserved, if
\* the bill is not.
LEMMA CostCovers ==
    ASSUME RunTypeOK, NEW c \in DOMAIN calls, NEW result \in Results,
           result \in {"unbilled", "rejected"} => bill[c] = 0
    PROVE  Cost(c, result) # None =>
              /\ Cost(c, result) \in Nat /\ bill[c] <= Cost(c, result)
              /\ bill[c] <= calls[c].held => Cost(c, result) <= calls[c].held
  <1>1. bill[c] \in Nat /\ calls[c].held \in Nat
    BY HeldNat DEF RunTypeOK
  <1>2. \/ result \in {"replied", "overrun"} \/ result = "foreign"
        \/ result \in {"unbilled", "rejected"} \/ result = "unknown"
    BY DEF Results, Failures, Halts
  <1>3. CASE result \in {"replied", "overrun"}
    BY <1>1, <1>3 DEF Cost
  <1>4. CASE result = "foreign"
    BY <1>1, <1>4 DEF Cost
  <1>5. CASE result \in {"unbilled", "rejected"}
    BY <1>1, <1>5 DEF Cost
  <1>6. CASE result = "unknown"
    BY <1>6 DEF Cost
  <1> QED
    BY <1>2, <1>3, <1>4, <1>5, <1>6

LEMMA SettleKeepsSpend ==
    ASSUME RunInv, SpendInv, NEW p \in Procs, Settle(p)
    PROVE  SpendInv'
  <1> DEFINE c == proc[p].call
             cost == Cost(c, proc[p].result)
  <1>1. /\ proc[p].pc = "settle" /\ UNCHANGED <<bill, wire>> /\ c \in DOMAIN calls
        /\ calls' = [calls EXCEPT ![c].cost = cost]
        /\ CallIsOpen(proc[p]) /\ proc[p].result \in Results
    BY OnCall DEF Settle, SpendInv, RunInv, TurnInv, Fitting, Fits
  <1>2. cost # None => /\ cost \in Nat /\ bill[c] <= cost
                       /\ bill[c] <= calls[c].held => cost <= calls[c].held
    BY <1>1, CostCovers DEF RunInv, CallIsOpen
  <1>3. c \in wire => cost = None
    BY <1>1 DEF CallIsOpen, Cost
  <1> HIDE DEF cost
  <1>4. /\ calls \in Seq(Calls) /\ calls' \in Seq(Calls) /\ bill \in Seq(Nat)
        /\ DOMAIN bill = DOMAIN calls /\ proc \in [Procs -> Places]
        /\ wire \subseteq DOMAIN calls
    BY SettleKeeps DEF RunInv, RunTypeOK
  <1>5. calls[c] \in Calls /\ \A k \in DOMAIN calls : calls[k].held \in Nat
    BY <1>1, <1>4, HeldNat
  <1> HIDE DEF c
  <1>6. /\ DOMAIN calls' = DOMAIN calls
        /\ calls'[c].cost = cost /\ calls'[c].held = calls[c].held
        /\ \A k \in DOMAIN calls : k # c => calls'[k] = calls[k]
    BY <1>1, <1>4, <1>5 DEF Calls
  <1>7. WireIsOpen'
    BY <1>1, <1>3, <1>4, <1>6 DEF SpendInv, WireIsOpen
  <1>8. BillsAreCounted'
    BY <1>1, <1>2, <1>6 DEF SpendInv, BillsAreCounted
  <1>9. \A q \in Procs : CallIsOpen(proc[q])'
    <2> TAKE q \in Procs
    <2>1. CASE q = p
      <3>1. proc'[p].pc \in {"idle", "decide"}
        BY <1>4 DEF Settle, Ends, Idle, Places
      <3> QED
        BY <2>1, <3>1 DEF CallIsOpen
    <2>2. CASE q # p
      <3>1. proc'[q] = proc[q]
        BY <1>4, <2>2 DEF Settle, Ends
      <3>2. \A k \in DOMAIN calls : k # proc[p].call =>
              /\ calls'[k].cost = calls[k].cost /\ bill'[k] = bill[k] /\ (k \in wire' => k \in wire)
        BY <1>1, <1>6 DEF c
      <3> QED
        BY <1>1, <2>2, <3>1, <3>2, OthersStayOpen
    <2> QED
      BY <2>1, <2>2
  <1>10. CapIsKept'
    <2> SUFFICES ASSUME BillsFit' PROVE Charged' <= Cap
      BY DEF CapIsKept
    <2>1. BillsFit
      BY <1>1, <1>6 DEF BillsFit
    <2>2. \A k \in DOMAIN calls : Charges(calls')[k] <= Charges(calls)[k]
      <3> TAKE k \in DOMAIN calls
      <3>1. CASE k = c
        <4>1. calls[c].cost = None
          BY <1>1 DEF CallIsOpen, c
        <4>2. Charges(calls)[k] = calls[c].held
          BY <1>1, <3>1, <4>1 DEF Charges
        <4>3. Charges(calls')[k] = IF cost = None THEN calls[c].held ELSE cost
          BY <1>1, <1>6, <3>1 DEF Charges
        <4>4. bill[c] <= calls[c].held /\ calls[c].held \in Nat
          BY <1>1, <1>5, <2>1 DEF BillsFit
        <4> QED
          BY <1>2, <4>2, <4>3, <4>4
      <3>2. CASE k # c
        BY <1>4, <1>6, <3>2, ChargesTyped DEF Charges
      <3> QED
        BY <3>1, <3>2
    <2>3. Sum(calls') <= Sum(calls) /\ Sum(calls') \in Nat /\ Sum(calls) \in Nat
      BY <1>4, <1>6, <2>2, SumOfLess, ChargesTyped
    <2>4. Charged' = Sum(calls')
      BY DEF Charged, Charge, Sum, Charges, SumFunction
    <2>5. Sum(calls) <= Cap
      BY <2>1, ChargedIsSum DEF SpendInv, CapIsKept
    <2> QED
      BY <2>3, <2>4, <2>5, RunAssumption
  <1> QED
    BY <1>7, <1>8, <1>9, <1>10 DEF SpendInv

LEMMA SpendInvStep == RunInv /\ SpendInv /\ [RunNext]_runVars => SpendInv'
  <1> SUFFICES ASSUME RunInv, SpendInv, [RunNext]_runVars PROVE SpendInv'
    OBVIOUS
  <1>1. ASSUME NEW p \in Procs, NEW r \in Runs, Start(p, r) PROVE SpendInv'
    BY <1>1, StartKeepsSpend
  <1>2. ASSUME NEW p \in Procs, BeginManaged(p) \/ BeginAuthored(p) PROVE SpendInv'
    BY <1>2, BeginKeepsSpend
  <1>3. ASSUME NEW p \in Procs, Reserve(p) PROVE SpendInv'
    BY <1>3, ReserveKeepsSpend
  <1>4. ASSUME NEW p \in Procs, Send(p) \/ Reply(p) \/ Refuse(p) \/ Fail(p) PROVE SpendInv'
    BY <1>4, WireKeepsSpend
  <1>5. ASSUME NEW p \in Procs, Settle(p) PROVE SpendInv'
    BY <1>5, SettleKeepsSpend
  <1>6. ASSUME NEW p \in Procs, Commit(p) PROVE SpendInv'
    BY <1>6, CommitKeepsSpend
  <1>7. ASSUME NEW p \in Procs, Stop(p) PROVE SpendInv'
    BY <1>7, EndsKeepsSpend DEF Stop
  <1>8. ASSUME NEW c \in wire, Process(c) PROVE SpendInv'
    BY <1>8, ProcessKeepsSpend
  <1>9. CASE UNCHANGED runVars
    BY <1>9 DEF runVars, SpendInv, WireIsOpen, BillsAreCounted, CallIsOpen, CapIsKept, BillsFit,
       Charged, Charge
  <1> QED
    BY <1>1, <1>2, <1>3, <1>4, <1>5, <1>6, <1>7, <1>8, <1>9 DEF RunNext

\* What is billed is no more than what is charged.
LEMMA BilledIsCharged ==
    ASSUME RunTypeOK, BillsAreCounted, BillsFit
    PROVE  SumFunction(bill) <= Charged
  <1>1. calls \in Seq(Calls) /\ bill \in Seq(Nat) /\ DOMAIN bill = DOMAIN calls
    BY DEF RunTypeOK
  <1>2. \A c \in DOMAIN calls :
          Charges(calls)[c] \in Nat /\ bill[c] \in Nat /\ bill[c] <= Charges(calls)[c]
    BY <1>1, ChargesTyped DEF BillsAreCounted, BillsFit, Charges
  <1>3. SumFunctionOnSet(bill, DOMAIN calls) <= SumFunctionOnSet(Charges(calls), DOMAIN calls)
    BY <1>1, <1>2, ChargesTyped, SumMonotone
  <1> QED
    BY <1>1, <1>3, ChargedIsSum DEF Sum, SumFunction

\* The cap is hard (model_transport.py, "behind a hard spend ceiling"), for any number
\* of calls, processes and crashes, and any prices: a reservation stands in for every
\* bill that may still come.
THEOREM SpendIsCapped == RunSpec => []SpendStaysUnderCap
  <1>1. RunInv /\ SpendInv => SpendStaysUnderCap
    <2> SUFFICES ASSUME RunInv, SpendInv, BillsFit PROVE SumFunction(bill) <= Cap
      BY DEF SpendStaysUnderCap, BillsFit
    <2>1. SumFunction(bill) <= Charged /\ Charged <= Cap
      BY BilledIsCharged DEF RunInv, SpendInv, CapIsKept
    <2>2. calls \in Seq(Calls) /\ bill \in Seq(Nat) /\ IsFiniteSet(DOMAIN bill)
      <3>1. calls \in Seq(Calls) /\ bill \in Seq(Nat) /\ DOMAIN bill = DOMAIN calls
        BY DEF RunInv, RunTypeOK
      <3> QED
        BY <3>1, ChargesTyped
    <2>3. \A c \in DOMAIN bill : bill[c] \in Nat
      BY <2>2
    <2>4. SumFunction(bill) \in Nat
      BY <2>2, <2>3, SumType DEF SumFunction
    <2>5. Charged \in Nat
      BY <2>2, ChargesTyped, ChargedIsSum
    <2> QED
      BY <2>1, <2>4, <2>5, RunAssumption
  <1> QED
    BY RunInvInit, RunInvStep, InitSpend, SpendInvStep, <1>1, PTL DEF RunSpec

-----------------------------------------------------------------------------
(* What a reading finds.                                                   *)

\* A run's calls never go back to an earlier bar.
CallsGoForward ==
    \A c, d \in DOMAIN calls : c < d /\ calls[c].run = calls[d].run => calls[c].bar <= calls[d].bar

\* A bar that the author's schedule makes a turn of.
Scheduled(bar) == bar >= ScoredFrom /\ (bar - ScoredFrom) % Cadence = 0

\* An author decides on a scheduled bar after its call only.
HasCalled(x) == x.pc = "decide" /\ x.run \notin Managers /\ Scheduled(x.bar) => x.call # None
TurnsAreJournaled ==
    \A r \in Runs \ Managers : \A n \in DOMAIN journal[r] : Scheduled(n - 1) => journal[r][n] # None

ReadingInv == CallsGoForward /\ (\A p \in Procs : HasCalled(proc[p])) /\ TurnsAreJournaled

LEMMA InitReading == RunInit => ReadingInv
  BY DEF RunInit, ReadingInv, CallsGoForward, HasCalled, TurnsAreJournaled, Idle

\* Steps that leave the journal and the calls' bars.
LEMMA MoveKeepsReading ==
    ASSUME RunInv, ReadingInv, NEW p \in Procs, NEW x, proc' = [proc EXCEPT ![p] = x],
           HasCalled(x), UNCHANGED journal, DOMAIN calls' = DOMAIN calls,
           \A c \in DOMAIN calls : calls'[c].run = calls[c].run /\ calls'[c].bar = calls[c].bar
    PROVE  ReadingInv'
  <1>1. \A q \in Procs : proc'[q] = IF q = p THEN x ELSE proc[q]
    BY DEF RunInv, RunTypeOK
  <1>2. \A q \in Procs : HasCalled(proc[q])'
    BY <1>1 DEF ReadingInv, HasCalled, Scheduled
  <1>3. CallsGoForward' /\ TurnsAreJournaled'
    BY DEF ReadingInv, CallsGoForward, TurnsAreJournaled, Scheduled
  <1> QED
    BY <1>2, <1>3 DEF ReadingInv

LEMMA EndsKeepsReading ==
    ASSUME RunInv, ReadingInv, NEW p \in Procs, Ends(p), UNCHANGED <<journal, calls>>
    PROVE  ReadingInv'
  BY MoveKeepsReading DEF Ends, Idle, HasCalled

LEMMA StartKeepsReading ==
    ASSUME RunInv, ReadingInv, NEW p \in Procs, NEW r \in Runs, Start(p, r)
    PROVE  ReadingInv'
  BY OpenIsQuiet, MoveKeepsReading DEF Start, HasCalled

LEMMA ObserveKeepsReading ==
    ASSUME RunInv, ReadingInv, NEW p \in Procs, NEW bar, NEW a, Observe(p, bar, a),
           UNCHANGED <<journal, calls>>
    PROVE  ReadingInv'
  <1>1. PICK buys \in BOOLEAN, stops \in BOOLEAN, falls \in BOOLEAN :
          LET b == Advanced(a, buys, stops, falls)
              fills == FilledSides(a, buys, stops)
          IN  proc' = [proc EXCEPT ![p] =
                         [pc |-> IF TurnIsDue(proc[p].run, bar, b, fills) THEN "reserve" ELSE "decide",
                          run |-> proc[p].run, bar |-> bar, account |-> b,
                          call |-> None, result |-> None]]
    BY DEF Observe
  <1> DEFINE b == Advanced(a, buys, stops, falls)
             fills == FilledSides(a, buys, stops)
             x == [pc |-> IF TurnIsDue(proc[p].run, bar, b, fills) THEN "reserve" ELSE "decide",
                   run |-> proc[p].run, bar |-> bar, account |-> b, call |-> None, result |-> None]
  <1>2. proc' = [proc EXCEPT ![p] = x]
    BY <1>1
  <1>3. HasCalled(x)
    BY DEF HasCalled, Scheduled, TurnIsDue
  <1> HIDE DEF x
  <1> QED
    BY <1>2, <1>3, MoveKeepsReading

LEMMA BeginKeepsReading ==
    ASSUME RunInv, ReadingInv, NEW p \in Procs, BeginManaged(p) \/ BeginAuthored(p)
    PROVE  ReadingInv'
  BY ObserveKeepsReading, EndsKeepsReading DEF BeginManaged, BeginAuthored

LEMMA WireKeepsReading ==
    ASSUME RunInv, ReadingInv, NEW p \in Procs, Send(p) \/ Reply(p) \/ Refuse(p) \/ Fail(p)
    PROVE  ReadingInv'
  <1>1. PICK pc \in {"wait", "settle"} : \E result \in Results \cup {None} :
          proc' = [proc EXCEPT ![p] = [proc[p] EXCEPT !.pc = pc, !.result = result]]
    <2>1. proc \in [Procs -> Places] /\ proc[p] \in Places
      BY DEF RunInv, RunTypeOK
    <2>2. CASE Send(p)
      <3>1. proc' = [proc EXCEPT ![p] = [proc[p] EXCEPT !.pc = "wait", !.result = proc[p].result]]
        BY <2>1, <2>2 DEF Send, Places
      <3> QED
        BY <2>1, <3>1 DEF Places
    <2>3. CASE ~Send(p)
      <3>1. PICK result \in Results : Answered(p, result)
        BY <2>3 DEF Reply, Refuse, Fail, Results, Failures, Halts
      <3> QED
        BY <2>1, <3>1 DEF Answered
    <2> QED
      BY <2>2, <2>3
  <1>2. PICK result \in Results \cup {None} :
          proc' = [proc EXCEPT ![p] = [proc[p] EXCEPT !.pc = pc, !.result = result]]
    BY <1>1
  <1>3. [proc[p] EXCEPT !.pc = pc, !.result = result].pc = pc
    BY DEF RunInv, RunTypeOK, Places
  <1>4. HasCalled([proc[p] EXCEPT !.pc = pc, !.result = result])
    BY <1>3 DEF HasCalled
  <1>5. UNCHANGED <<journal, calls>>
    BY DEF Send, Reply, Refuse, Fail
  <1> QED
    BY <1>2, <1>4, <1>5, MoveKeepsReading

LEMMA SettleKeepsReading ==
    ASSUME RunInv, ReadingInv, NEW p \in Procs, Settle(p)
    PROVE  ReadingInv'
  <1> DEFINE c == proc[p].call
             x == IF proc[p].result \in Halts THEN Idle ELSE [proc[p] EXCEPT !.pc = "decide"]
  <1>1. c # None /\ c \in DOMAIN calls /\ UNCHANGED journal
    BY OnCall DEF Settle
  <1>2. calls \in Seq(Calls) /\ proc \in [Procs -> Places] /\ proc[p] \in Places
    BY DEF RunInv, RunTypeOK
  <1>3. HasCalled(x)
    BY <1>1, <1>2 DEF HasCalled, Idle, Places
  <1>4. proc' = [proc EXCEPT ![p] = x]
    BY <1>2 DEF Settle, Ends
  <1>5. PICK cost : calls' = [calls EXCEPT ![c].cost = cost]
    BY DEF Settle
  <1>6. DOMAIN calls' = DOMAIN calls
        /\ \A k \in DOMAIN calls : calls'[k].run = calls[k].run /\ calls'[k].bar = calls[k].bar
    <2>1. calls[c] \in Calls
      BY <1>1, <1>2
    <2> HIDE DEF c
    <2>2. [calls[c] EXCEPT !.cost = cost].run = calls[c].run
          /\ [calls[c] EXCEPT !.cost = cost].bar = calls[c].bar
      BY <2>1 DEF Calls
    <2>3. \A k \in DOMAIN calls :
            calls'[k] = IF k = c THEN [calls[c] EXCEPT !.cost = cost] ELSE calls[k]
      BY <1>2, <1>5
    <2> QED
      BY <1>5, <2>2, <2>3
  <1> HIDE DEF x
  <1> QED
    BY <1>1, <1>3, <1>4, <1>6, MoveKeepsReading

\* A new call is for the journal's next bar, which no earlier call of the run passes.
LEMMA ReserveKeepsReading ==
    ASSUME RunInv, ReadingInv, NEW p \in Procs, Reserve(p)
    PROVE  ReadingInv'
  <1>1. CASE Ends(p) /\ UNCHANGED <<calls, bill>>
    BY <1>1, EndsKeepsReading DEF Reserve
  <1>2. CASE ~(Ends(p) /\ UNCHANGED <<calls, bill>>)
    <2> DEFINE k == Len(calls) + 1
               x == [proc[p] EXCEPT !.pc = "send", !.call = k]
    <2>1. PICK worst \in Prices :
            /\ calls' = Append(calls, [run |-> proc[p].run, bar |-> proc[p].bar,
                                       held |-> worst, cost |-> None])
            /\ proc' = [proc EXCEPT ![p].pc = "send", ![p].call = k]
      BY <1>2 DEF Reserve
    <2> DEFINE n == [run |-> proc[p].run, bar |-> proc[p].bar, held |-> worst, cost |-> None]
    <2>2. calls \in Seq(Calls) /\ proc \in [Procs -> Places] /\ UNCHANGED journal
      BY DEF RunInv, RunTypeOK, Reserve
    <2>3. proc[p].run \in Runs /\ proc[p].bar = Committed(proc[p].run)
      BY DEF RunInv, TurnInv, Fitting, Fits, HoldsLock, Reserve
    <2>4. n.run = proc[p].run /\ n.bar = proc[p].bar /\ calls' = Append(calls, n)
      BY <2>1
    <2>5. x.pc = "send"
      BY <2>2 DEF Places
    <2>6. \A q \in Procs : proc'[q] = IF q = p THEN x ELSE proc[q]
      BY <2>1, <2>2
    <2> HIDE DEF n, x
    <2>7. /\ calls'[k] = n /\ k \in Nat
          /\ \A c \in DOMAIN calls : calls'[c] = calls[c] /\ c \in Nat /\ c < k
          /\ \A c \in DOMAIN calls' : c = k \/ c \in DOMAIN calls
      BY <2>2, <2>4
    <2> HIDE DEF k
    <2>8. CallsGoForward'
      <3> SUFFICES ASSUME NEW c \in DOMAIN calls', NEW d \in DOMAIN calls',
                          c < d, calls'[c].run = calls'[d].run
                   PROVE  calls'[c].bar <= calls'[d].bar
        BY DEF CallsGoForward
      <3>1. c \in DOMAIN calls
        BY <2>7
      <3>2. CASE d = k
        BY <2>3, <2>4, <2>7, <3>1, <3>2 DEF RunInv, TurnInv, CallsAreBehind
      <3>3. CASE d # k
        BY <2>7, <3>1, <3>3 DEF ReadingInv, CallsGoForward
      <3> QED
        BY <3>2, <3>3
    <2>9. \A q \in Procs : HasCalled(proc[q])'
      BY <2>5, <2>6 DEF ReadingInv, HasCalled, Scheduled
    <2>10. TurnsAreJournaled'
      BY <2>2 DEF ReadingInv, TurnsAreJournaled, Scheduled
    <2> QED
      BY <2>8, <2>9, <2>10 DEF ReadingInv
  <1> QED
    BY <1>1, <1>2

LEMMA CommitKeepsReading ==
    ASSUME RunInv, ReadingInv, NEW p \in Procs, Commit(p)
    PROVE  ReadingInv'
  <1> DEFINE r == proc[p].run
             bar == proc[p].bar
  <1>1. /\ proc[p].pc = "decide" /\ UNCHANGED calls /\ r \in Runs /\ bar = Committed(r)
        /\ proc[p].call \in Nat \cup {None} /\ HasCalled(proc[p])
    BY DEF Commit, RunInv, RunTypeOK, Places, TurnInv, Fitting, Fits, HoldsLock, ReadingInv
  <1>2. PICK d : /\ journal' = [journal EXCEPT ![r] = Append(journal[r], proc[p].call)]
                 /\ proc' = [proc EXCEPT ![p] = Open(r, bar + 1, d)]
    BY <1>1, CommittedNat DEF Commit, Evidence, RunInv
  <1> DEFINE x == Open(r, bar + 1, d)
  <1>3. x.pc = "open"
    BY OpenIsQuiet
  <1>4. /\ journal \in [Runs -> Seq(Nat \cup {None})] /\ proc \in [Procs -> Places]
    BY DEF RunInv, RunTypeOK
  <1>5. \A q \in Procs : proc'[q] = IF q = p THEN x ELSE proc[q]
    BY <1>2, <1>4
  <1> HIDE DEF x
  <1>6. CallsGoForward'
    BY <1>1 DEF ReadingInv, CallsGoForward
  <1>7. \A q \in Procs : HasCalled(proc[q])'
    BY <1>3, <1>5 DEF ReadingInv, HasCalled, Scheduled
  <1>8. TurnsAreJournaled'
    <2> SUFFICES ASSUME NEW s \in Runs \ Managers, NEW n \in DOMAIN journal'[s], Scheduled(n - 1)
                 PROVE  journal'[s][n] # None
      BY DEF TurnsAreJournaled, Scheduled
    <2>1. CASE s # r
      <3>1. journal'[s] = journal[s]
        BY <1>1, <1>2, <1>4, <2>1
      <3> QED
        BY <3>1 DEF ReadingInv, TurnsAreJournaled
    <2>2. CASE s = r
      <3>1. journal[r] \in Seq(Nat \cup {None}) /\ Len(journal[r]) = bar
            /\ journal'[r] = Append(journal[r], proc[p].call)
        BY <1>1, <1>2, <1>4 DEF Committed
      <3>2. CASE n \in DOMAIN journal[r]
        <4>1. journal'[r][n] = journal[r][n]
          BY <1>1, <3>1, <3>2
        <4> QED
          BY <2>2, <3>2, <4>1 DEF ReadingInv, TurnsAreJournaled
      <3>3. CASE n \notin DOMAIN journal[r]
        <4>1. n = bar + 1 /\ journal'[r][n] = proc[p].call
          BY <1>1, <2>2, <3>1, <3>3
        <4>2. Scheduled(bar)
          <5>1. bar \in Nat /\ n - 1 = bar
            BY <3>1, <4>1
          <5> QED
            BY <5>1
        <4> QED
          BY <1>1, <2>2, <4>1, <4>2 DEF HasCalled
      <3> QED
        BY <3>2, <3>3
    <2> QED
      BY <2>1, <2>2
  <1> QED
    BY <1>6, <1>7, <1>8 DEF ReadingInv

LEMMA ReadingInvStep == RunInv /\ ReadingInv /\ [RunNext]_runVars => ReadingInv'
  <1> SUFFICES ASSUME RunInv, ReadingInv, [RunNext]_runVars PROVE ReadingInv'
    OBVIOUS
  <1>1. ASSUME NEW p \in Procs, NEW r \in Runs, Start(p, r) PROVE ReadingInv'
    BY <1>1, StartKeepsReading
  <1>2. ASSUME NEW p \in Procs, BeginManaged(p) \/ BeginAuthored(p) PROVE ReadingInv'
    BY <1>2, BeginKeepsReading
  <1>3. ASSUME NEW p \in Procs, Reserve(p) PROVE ReadingInv'
    BY <1>3, ReserveKeepsReading
  <1>4. ASSUME NEW p \in Procs, Send(p) \/ Reply(p) \/ Refuse(p) \/ Fail(p) PROVE ReadingInv'
    BY <1>4, WireKeepsReading
  <1>5. ASSUME NEW p \in Procs, Settle(p) PROVE ReadingInv'
    BY <1>5, SettleKeepsReading
  <1>6. ASSUME NEW p \in Procs, Commit(p) PROVE ReadingInv'
    BY <1>6, CommitKeepsReading
  <1>7. ASSUME NEW p \in Procs, Stop(p) PROVE ReadingInv'
    BY <1>7, EndsKeepsReading DEF Stop
  <1>8. CASE UNCHANGED <<journal, proc, calls>>
    BY <1>8 DEF ReadingInv, CallsGoForward, HasCalled, TurnsAreJournaled, Scheduled
  <1> QED
    BY <1>1, <1>2, <1>3, <1>4, <1>5, <1>6, <1>7, <1>8 DEF RunNext, Process, runVars

\* The journaled turns name as many of the run's calls as there are turns.
LEMMA TurnsAreCalls ==
    ASSUME RunTypeOK, CommittedTurnsAreNotResent, NEW r \in Runs
    PROVE  Quantify(DOMAIN calls, LAMBDA c : calls[c].run = r)
             >= Quantify(DOMAIN journal[r], LAMBDA n : journal[r][n] # None)
  <1> DEFINE A == {n \in DOMAIN journal[r] : journal[r][n] # None}
             B == {c \in DOMAIN calls : calls[c].run = r}
             f == [n \in A |-> journal[r][n]]
  <1>1. calls \in Seq(Calls) /\ journal[r] \in Seq(Nat \cup {None})
    BY DEF RunTypeOK
  <1>2. f \in [A -> B]
    BY DEF CommittedTurnsAreNotResent
  <1>3. ASSUME NEW m \in A, NEW n \in A, f[m] = f[n] PROVE m = n
    <2>1. calls[f[m]].bar = m - 1 /\ calls[f[n]].bar = n - 1
      BY DEF CommittedTurnsAreNotResent
    <2>2. m \in Nat /\ n \in Nat
      BY <1>1
    <2> QED
      BY <1>3, <2>1, <2>2
  <1>4. IsFiniteSet(B)
    BY <1>1, ChargesTyped, FS_Subset
  <1> HIDE DEF A, B, f
  <1>5. f \in Injection(A, B)
    BY <1>2, <1>3 DEF Injection, IsInjective
  <1>6. IsFiniteSet(A) /\ Cardinality(A) <= Cardinality(B)
    BY <1>4, <1>5, FS_Injection
  <1>7. Cardinality(A) \in Nat /\ Cardinality(B) \in Nat
    BY <1>4, <1>6, FS_CardinalityType
  <1>8. Cardinality(B) >= Cardinality(A)
    BY <1>6, <1>7
  <1> QED
    BY <1>8 DEF A, B, Quantify

\* The reading of an honest run finds no breach (ledger_summary, _model_spend), for any
\* runs, interruptions and processes.
THEOREM ReadingsAreClean == RunSpec => []ReadingsFindNoBreach
  <1>1. RunInv /\ ReadingInv => ReadingsFindNoBreach
    <2> SUFFICES ASSUME RunInv, ReadingInv, NEW r \in Runs
                 PROVE  /\ \A c, d \in DOMAIN calls :
                              c < d /\ calls[c].run = r /\ calls[d].run = r => calls[c].bar <= calls[d].bar
                        /\ \A n \in DOMAIN journal[r] :
                              r \notin Managers /\ TurnIsDue(r, n - 1, account[r], <<>>)
                                => journal[r][n] # None
                        /\ Quantify(DOMAIN calls, LAMBDA c : calls[c].run = r)
                             >= Quantify(DOMAIN journal[r], LAMBDA n : journal[r][n] # None)
      BY DEF ReadingsFindNoBreach
    <2>1. \A c, d \in DOMAIN calls :
            c < d /\ calls[c].run = r /\ calls[d].run = r => calls[c].bar <= calls[d].bar
      BY DEF ReadingInv, CallsGoForward
    <2>2. \A n \in DOMAIN journal[r] :
            r \notin Managers /\ TurnIsDue(r, n - 1, account[r], <<>>) => journal[r][n] # None
      BY DEF ReadingInv, TurnsAreJournaled, Scheduled, TurnIsDue
    <2>3. RunTypeOK /\ CommittedTurnsAreNotResent
      BY DEF RunInv, TurnInv
    <2> QED
      BY <2>1, <2>2, <2>3, TurnsAreCalls
  <1> QED
    BY RunInvInit, RunInvStep, InitReading, ReadingInvStep, <1>1, PTL DEF RunSpec

=============================================================================
