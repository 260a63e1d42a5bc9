----------------------- MODULE AgentConversationProofs -----------------------
(***************************************************************************)
(* For any accounts, conversations, messages, faults and length of the       *)
(* queue: what is said stays with its account and its session, a message     *)
(* goes to the model only when its question is stored, and nothing that is   *)
(* said is lost.                                                            *)
(*                                                                         *)
(* The first argument follows one question.  While the screen still shows   *)
(* the conversation it was asked in, the last write that is waiting has it,  *)
(* or it is stored already (Bound).  A wait that ends well therefore leaves  *)
(* it stored, and with every write that is still waiting (Lasting): so it is *)
(* when the call goes out, and when another account is loaded.              *)
(*                                                                         *)
(* The second follows what the screen shows, from the effect of the render   *)
(* to the timer, to the end of the queue and to the store (Newest), and the  *)
(* one write the shutdown guard waits for in the end (Settling).            *)
(***************************************************************************)
EXTENDS AgentConversation, SequenceTheorems, TLAPS

\* A store that an account may be given: its own, and no answer without its
\* question.
Fits(account, store) ==
    /\ account \in Account /\ store \in SUBSET Said
    /\ \A m \in store : Owner(m[1]) = account /\ <<m[1], m[2], "question">> \in store

\* The screen shows the conversation of its account, or none.
ScreenOK ==
    /\ loaded # None => loaded = screen /\ Owner(active) = loaded /\ Fits(loaded, shown)
    /\ loaded = None => active = Fresh /\ shown = {}

\* The effect still to run is that of the screen; once it has run, nothing is
\* left to the timer of a conversation in which nothing runs.
EffectOK ==
    /\ effect # None => /\ loaded # None
                        /\ effect = [account |-> loaded, store |-> shown, running |-> running]
    /\ loaded # None /\ ~running /\ effect = None => scheduled = None

WritesFit(q) == \A i \in DOMAIN q : Fits(q[i].account, q[i].store)

StoresFit ==
    /\ scheduled # None => Fits(scheduled.account, scheduled.store)
    /\ \A account \in Account : Fits(account, saved[account])

\* The host is logged in as the screen says, but while an account changes.
PlaceOK ==
    /\ transition.at # "changed" => hostAccount = screen
    /\ transition.at \in {"changed", "emptied"} => hostAccount = transition.to
    /\ loaded = IF transition.at = "emptied" THEN None ELSE screen

\* The states of a send in which its question has been asked for good.
Asked == {"starting", "flushing", "calling", "refreshing"}

RunOK ==
    /\ send # "idle" => run.session \in Session /\ run.n \in 1 .. MaxRun
    /\ run.current => /\ send # "idle" /\ transition.at = "none"
                      /\ screen # None /\ Owner(run.session) = screen
    /\ running => send \in Asked
    /\ call.at # "none" => send = "calling"

\* A wait has its mark on one write, until that write is over.
MarksOK(q, h) ==
    \A w \in {"send", "account"} :
      /\ \A i \in DOMAIN q : w \in q[i].for => h[w] = "waiting"
      /\ \A i, j \in DOMAIN q : w \in q[i].for /\ w \in q[j].for => i = j

WaitsOK ==
    /\ heard["send"] # "none" => send \in {"storing", "flushing"}
    /\ heard["account"] # "none" => transition.at \in {"flushing", "emptied"}

-----------------------------------------------------------------------------
(* The question.                                                           *)

Mine == Owner(run.session)
Question == <<run.session, run.n, "question">>

\* Every write of the account in the queue has it, those from the j-th on, or
\* the last one has it.
AllHave(q, j, account, said) ==
    \A i \in DOMAIN q : i >= j /\ q[i].account = account => said \in q[i].store

LastHas(q, account, said) ==
    q # <<>> => q[Len(q)].account = account /\ said \in q[Len(q)].store

\* The write a wait is for has it, and all after it.
AwaitedHas(w, q, account, said) ==
    \E j \in DOMAIN q :
      /\ w \in q[j].for /\ q[j].account = account /\ said \in q[j].store
      /\ AllHave(q, j, account, said)

\* It is stored, and no write of queue q or of the timer s can take it away.
Covered(s) == s # None /\ s.account = Mine => Question \in s.store
LastingAt(q, s) == Question \in saved[Mine] /\ AllHave(q, 1, Mine, Question) /\ Covered(s)
Lasting == LastingAt(queue, scheduled)

\* Nothing is left to the timer without it.
TimerHas(s) == s # None => s.account = Mine /\ Question \in s.store

\* The last write has it; with no write left it is stored, or was refused.
Ends(q) == /\ LastHas(q, Mine, Question)
           /\ q = <<>> /\ ~failedTail => Question \in saved[Mine]

\* It is stored unless the last write is still to come, or was refused.
BoundAt(q, s) == transition.at \in {"none", "flushing"} /\ loaded = Mine /\ TimerHas(s) /\ Ends(q)
Bound == BoundAt(queue, scheduled)

\* A wait that went well leaves it stored.
Awaits(w) ==
    /\ heard[w] = "ok" => Lasting
    /\ heard[w] = "waiting" => Lasting \/ AwaitedHas(w, queue, Mine, Question)

QuestionOK ==
    /\ send = "storing" /\ run.current =>
         Question \in shown /\ TimerHas(scheduled) /\ (effect # None \/ Ends(queue))
    /\ send \in Asked =>
         /\ loaded = Mine => Question \in shown
         /\ Lasting \/ Bound
         /\ transition.at = "flushing" => Awaits("account")
         /\ transition.at \in {"host", "changed", "emptied"} => Lasting
    /\ send = "flushing" => Awaits("send")
    /\ send \in {"calling", "refreshing"} => Lasting

Base ==
    /\ TypeOK /\ ScreenOK /\ EffectOK /\ WritesFit(queue) /\ StoresFit /\ PlaceOK
    /\ RunOK /\ MarksOK(queue, heard) /\ WaitsOK

IInv == Base /\ QuestionOK

USE BoundsAssumption, NoneAssumption
USE DEF Waiter

-----------------------------------------------------------------------------
(* Queues.                                                                 *)

\* One queue has grown out of another by writes that fit, and that have the
\* question if they are of its account; only a shutdown has begun to wait.
Grown(q, r, account, said) ==
    /\ r \in Seq(Writes) /\ Len(q) <= Len(r)
    /\ \A i \in DOMAIN q : /\ r[i].account = q[i].account /\ r[i].store = q[i].store
                           /\ r[i].for \ {"settle"} = q[i].for \ {"settle"}
    /\ \A i \in DOMAIN r : i > Len(q) => /\ r[i].for \subseteq {"settle"}
                                         /\ Fits(r[i].account, r[i].store)
                                         /\ r[i].account = account => said \in r[i].store

\* All of the new writes are of that account.
OwnOnly(q, r, account) == \A i \in DOMAIN r : i > Len(q) => r[i].account = account

LEMMA Positions ==
    ASSUME NEW q \in Seq(Writes)
    PROVE  /\ Len(q) \in Nat /\ DOMAIN q = 1 .. Len(q)
           /\ \A i \in DOMAIN q : q[i] \in Writes
           /\ q = <<>> <=> Len(q) = 0
  OBVIOUS

LEMMA Appending ==
    ASSUME NEW q \in Seq(Writes), NEW w \in Writes, NEW r, r = Append(q, w)
    PROVE  /\ r \in Seq(Writes) /\ Len(r) = Len(q) + 1
           /\ \A i \in DOMAIN q : r[i] = q[i]
           /\ r[Len(r)] = w
  OBVIOUS

LEMMA Replacing ==
    ASSUME NEW q \in Seq(Writes), NEW v \in Writes, NEW w \in Writes
    PROVE  [Append(q, v) EXCEPT ![Len(Append(q, v))] = w] = Append(q, w)
<1> DEFINE p == Append(q, v)
           r == [p EXCEPT ![Len(p)] = w]
           s == Append(q, w)
<1>1. /\ p \in Seq(Writes) /\ s \in Seq(Writes) /\ Len(q) \in Nat
      /\ Len(p) = Len(q) + 1 /\ Len(s) = Len(q) + 1
      /\ \A i \in DOMAIN q : p[i] = q[i] /\ s[i] = q[i]
      /\ s[Len(s)] = w /\ DOMAIN q = 1 .. Len(q) /\ DOMAIN p = 1 .. Len(p)
  <2>1. Len(q) \in Nat /\ DOMAIN q = 1 .. Len(q)
    BY Positions
  <2>2. p \in Seq(Writes) /\ Len(p) = Len(q) + 1 /\ \A i \in DOMAIN q : p[i] = q[i]
    BY Appending
  <2>3. s \in Seq(Writes) /\ Len(s) = Len(q) + 1 /\ (\A i \in DOMAIN q : s[i] = q[i]) /\ s[Len(s)] = w
    BY Appending
  <2> QED BY <2>1, <2>2, <2>3, Positions
<1> HIDE DEF p, s
<1>2. r \in Seq(Writes) /\ Len(r) = Len(p)
  BY <1>1
<1>3. \A i \in 1 .. Len(r) : r[i] = s[i]
  <2>1. \A i \in DOMAIN p : r[i] = IF i = Len(p) THEN w ELSE p[i]
    OBVIOUS
  <2>2. \A i \in 1 .. Len(p) : i = Len(p) \/ i \in DOMAIN q
    BY <1>1
  <2> QED BY <1>1, <1>2, <2>1, <2>2
<1> HIDE DEF r
<1>4. r = s
  BY <1>1, <1>2, <1>3, SeqEqual
<1> QED BY <1>4 DEF r, p, s

\* One write joins the queue.
LEMMA OneMore ==
    ASSUME NEW q \in Seq(Writes), NEW account, NEW store, NEW for,
           Fits(account, store), for \subseteq {"settle"},
           NEW r, r = Append(q, Write(account, store, for)),
           NEW own, NEW said, account = own => said \in store
    PROVE  Grown(q, r, own, said) /\ (account = own => OwnOnly(q, r, own))
<1> DEFINE w == Write(account, store, for)
<1>1. w \in Writes /\ w.account = account /\ w.store = store /\ w.for = for
  BY DEF Write, Writes, Fits, Stores
<1>2. /\ r \in Seq(Writes) /\ Len(r) = Len(q) + 1
      /\ \A i \in DOMAIN q : r[i] = q[i]
      /\ r[Len(r)] = w
  BY <1>1, Appending
<1>3. \A i \in DOMAIN r : i > Len(q) => i = Len(r)
  BY <1>2, Positions
<1> HIDE DEF w
<1>4. \A i \in DOMAIN q : /\ r[i].account = q[i].account /\ r[i].store = q[i].store
                          /\ r[i].for \ {"settle"} = q[i].for \ {"settle"}
  BY <1>2
<1>5. \A i \in DOMAIN r : i > Len(q) => r[i] = w
  BY <1>2, <1>3
<1>6. Len(q) <= Len(r)
  BY <1>2, Positions
<1> QED BY <1>1, <1>2, <1>4, <1>5, <1>6 DEF Grown, OwnOnly

LEMMA GrownItself ==
    ASSUME NEW q \in Seq(Writes), NEW own, NEW said
    PROVE  Grown(q, q, own, said) /\ OwnOnly(q, q, own)
  BY Positions DEF Grown, OwnOnly

LEMMA GrownFurther ==
    ASSUME NEW q \in Seq(Writes), NEW p, NEW r, NEW own, NEW said,
           Grown(q, p, own, said), Grown(p, r, own, said)
    PROVE  /\ Grown(q, r, own, said)
           /\ OwnOnly(q, p, own) /\ OwnOnly(p, r, own) => OwnOnly(q, r, own)
<1>1. /\ p \in Seq(Writes) /\ r \in Seq(Writes) /\ Len(q) <= Len(p) /\ Len(p) <= Len(r)
  BY DEF Grown
<1>2. /\ DOMAIN q = 1 .. Len(q) /\ DOMAIN p = 1 .. Len(p) /\ DOMAIN r = 1 .. Len(r)
      /\ Len(q) \in Nat /\ Len(p) \in Nat /\ Len(r) \in Nat
  BY <1>1, Positions
<1>3. ASSUME NEW i \in DOMAIN q
      PROVE  /\ r[i].account = q[i].account /\ r[i].store = q[i].store
             /\ r[i].for \ {"settle"} = q[i].for \ {"settle"}
  <2>1. i \in DOMAIN p
    BY <1>1, <1>2, <1>3
  <2> QED BY <1>3, <2>1 DEF Grown
<1>4. ASSUME NEW i \in DOMAIN r, i > Len(q)
      PROVE  /\ r[i].for \subseteq {"settle"}
             /\ Fits(r[i].account, r[i].store)
             /\ r[i].account = own => said \in r[i].store
             /\ OwnOnly(q, p, own) /\ OwnOnly(p, r, own) => r[i].account = own
  <2>1. CASE i > Len(p)
    BY <1>4, <2>1 DEF Grown, OwnOnly
  <2>2. CASE ~(i > Len(p))
    <3>1. i \in DOMAIN p
      BY <1>2, <1>4, <2>2
    <3>2. /\ p[i].for \subseteq {"settle"} /\ Fits(p[i].account, p[i].store)
          /\ p[i].account = own => said \in p[i].store
          /\ OwnOnly(q, p, own) => p[i].account = own
      BY <1>4, <3>1 DEF Grown, OwnOnly
    <3>3. /\ r[i].account = p[i].account /\ r[i].store = p[i].store
          /\ r[i].for \ {"settle"} = p[i].for \ {"settle"}
      BY <3>1 DEF Grown
    <3> QED BY <3>2, <3>3
  <2> QED BY <2>1, <2>2
<1> QED BY <1>1, <1>2, <1>3, <1>4 DEF Grown, OwnOnly

\* What a queue keeps when it grows.
LEMMA GrowingKeeps ==
    ASSUME NEW q \in Seq(Writes), NEW r, NEW own, NEW said, Grown(q, r, own, said)
    PROVE  /\ r \in Seq(Writes)
           /\ WritesFit(q) => WritesFit(r)
           /\ \A h : MarksOK(q, h) => MarksOK(r, h)
           /\ AllHave(q, 1, own, said) => AllHave(r, 1, own, said)
           /\ \A w \in {"send", "account"} :
                AwaitedHas(w, q, own, said) => AwaitedHas(w, r, own, said)
           /\ OwnOnly(q, r, own) /\ LastHas(q, own, said) => LastHas(r, own, said)
           /\ OwnOnly(q, r, own) /\ r # q /\ Len(r) > Len(q) => LastHas(r, own, said)
           /\ r = <<>> => q = <<>>
<1>1. /\ r \in Seq(Writes) /\ Len(q) <= Len(r)
      /\ DOMAIN q = 1 .. Len(q) /\ DOMAIN r = 1 .. Len(r) /\ Len(q) \in Nat /\ Len(r) \in Nat
  BY Positions DEF Grown
<1>2. \A i \in DOMAIN r : \/ i \in DOMAIN q /\ r[i].account = q[i].account
                               /\ r[i].store = q[i].store
                               /\ r[i].for \ {"settle"} = q[i].for \ {"settle"}
                          \/ i > Len(q) /\ r[i].for \subseteq {"settle"}
                               /\ Fits(r[i].account, r[i].store)
                               /\ (r[i].account = own => said \in r[i].store)
  BY <1>1 DEF Grown
<1>3. WritesFit(q) => WritesFit(r)
  BY <1>2 DEF WritesFit
<1>4. \A w \in {"send", "account"} : \A i \in DOMAIN r :
        w \in r[i].for => i \in DOMAIN q /\ w \in q[i].for
  BY <1>2
<1>5. \A h : MarksOK(q, h) => MarksOK(r, h)
  BY <1>4 DEF MarksOK
<1>6. \A j \in Nat : AllHave(q, j, own, said) => AllHave(r, j, own, said)
  BY <1>2 DEF AllHave
<1>7. ASSUME NEW w \in {"send", "account"}, AwaitedHas(w, q, own, said)
      PROVE  AwaitedHas(w, r, own, said)
  <2>1. PICK j \in DOMAIN q : /\ w \in q[j].for /\ q[j].account = own /\ said \in q[j].store
                              /\ AllHave(q, j, own, said)
    BY <1>7 DEF AwaitedHas
  <2>2. j \in DOMAIN r /\ j \in Nat
    BY <1>1, <2>1
  <2>3. w \in r[j].for /\ r[j].account = own /\ said \in r[j].store
    BY <2>1 DEF Grown
  <2> QED BY <1>6, <2>1, <2>2, <2>3 DEF AwaitedHas
<1>8. OwnOnly(q, r, own) /\ Len(r) > Len(q) => LastHas(r, own, said)
  <2>1. Len(r) > Len(q) => Len(r) \in DOMAIN r
    BY <1>1
  <2> QED BY <1>1, <1>2, <2>1 DEF OwnOnly, LastHas
<1>9. OwnOnly(q, r, own) /\ LastHas(q, own, said) => LastHas(r, own, said)
  <2>1. SUFFICES ASSUME ~(Len(r) > Len(q)), LastHas(q, own, said) PROVE LastHas(r, own, said)
    BY <1>8
  <2>4. Len(r) = Len(q)
    <3>1. \A m, n \in Nat : m <= n /\ ~(n > m) => n = m
      OBVIOUS
    <3> QED BY <1>1, <2>1, <3>1
  <2>2. CASE q = <<>>
    BY <1>1, <2>4, <2>2, Positions DEF LastHas
  <2>3. CASE q # <<>>
    <3>1. Len(q) \in DOMAIN q
      BY <1>1, <2>3, Positions
    <3> QED BY <2>1, <2>4, <2>3, <3>1 DEF LastHas, Grown
  <2> QED BY <2>2, <2>3
<1>10. r = <<>> => q = <<>>
  BY <1>1, Positions
<1> QED BY <1>1, <1>3, <1>5, <1>6, <1>7, <1>8, <1>9, <1>10

\* A wait marks the last write.
LEMMA Marking ==
    ASSUME NEW q \in Seq(Writes), NEW w \in {"send", "account"}, NEW r, r = Await(w, q),
           NEW own, NEW said, heard \in [Waiter -> {"none", "waiting", "ok", "failed"}]
    PROVE  /\ r \in Seq(Writes) /\ (r = <<>> <=> q = <<>>)
           /\ WritesFit(q) => WritesFit(r)
           /\ heard[w] = "none" /\ MarksOK(q, heard) => MarksOK(r, Told(w, q))
           /\ AllHave(q, 1, own, said) => AllHave(r, 1, own, said)
           /\ \A v \in {"send", "account"} :
                AwaitedHas(v, q, own, said) => AwaitedHas(v, r, own, said)
           /\ LastHas(q, own, said) => LastHas(r, own, said)
           /\ LastHas(q, own, said) /\ q # <<>> => AwaitedHas(w, r, own, said)
<1>1. CASE q = <<>>
  <2>1. r = q /\ DOMAIN q = {}
    BY <1>1 DEF Await
  <2> QED BY <1>1, <2>1 DEF WritesFit, MarksOK, AllHave, AwaitedHas, LastHas
<1>2. CASE q # <<>>
  <2> DEFINE k == Len(q)
  <2>1. k \in Nat /\ DOMAIN q = 1 .. k /\ k \in DOMAIN q /\ \A i \in DOMAIN q : q[i] \in Writes
    BY <1>2, Positions
  <2>2. r = [q EXCEPT ![k] = [q[k] EXCEPT !.for = q[k].for \cup {w}]]
    BY <1>2 DEF Await
  <2>3. [q[k] EXCEPT !.for = q[k].for \cup {w}] \in Writes
    BY <2>1 DEF Writes
  <2>4. r \in Seq(Writes) /\ DOMAIN r = DOMAIN q /\ Len(r) = k /\ r # <<>>
    BY <1>2, <2>1, <2>2, <2>3
  <2>5. \A i \in DOMAIN q : /\ r[i].account = q[i].account /\ r[i].store = q[i].store
                            /\ r[i].for = q[i].for \cup (IF i = k THEN {w} ELSE {})
    BY <2>1, <2>2 DEF Writes
  <2> HIDE DEF k
  <2>6. WritesFit(q) => WritesFit(r)
    BY <2>4, <2>5 DEF WritesFit
  <2>7. heard[w] = "none" /\ MarksOK(q, heard) => MarksOK(r, Told(w, q))
    <3>1. SUFFICES ASSUME heard[w] = "none", MarksOK(q, heard) PROVE MarksOK(r, Told(w, q))
      OBVIOUS
    <3>2. \A i \in DOMAIN q : w \notin q[i].for
      BY <3>1 DEF MarksOK
    <3>3. \A v \in {"send", "account"} : \A i \in DOMAIN q : v \in r[i].for =>
             (v = w /\ i = k) \/ (v # w /\ v \in q[i].for)
      BY <2>5, <3>2
    <3>4. \A v \in {"send", "account"} : v # w => (\A i \in DOMAIN q : v \in q[i].for => heard[v] = "waiting")
      BY <3>1 DEF MarksOK
    <3>5. Told(w, q) = [heard EXCEPT ![w] = "waiting"]
      BY <1>2 DEF Told
    <3>6. \A v \in {"send", "account"} : \A i \in DOMAIN q : v \in r[i].for => Told(w, q)[v] = "waiting"
      BY <3>3, <3>4, <3>5
    <3>7. \A v \in {"send", "account"} : \A i, j \in DOMAIN q :
             v \in q[i].for /\ v \in q[j].for => i = j
      BY <3>1 DEF MarksOK
    <3>8. \A v \in {"send", "account"} : \A i, j \in DOMAIN q :
             v \in r[i].for /\ v \in r[j].for => i = j
      BY <3>3, <3>7
    <3> QED BY <2>4, <3>6, <3>8 DEF MarksOK
  <2>8. \A j \in Nat : AllHave(q, j, own, said) => AllHave(r, j, own, said)
    BY <2>4, <2>5 DEF AllHave
  <2>9. ASSUME NEW v \in {"send", "account"}, AwaitedHas(v, q, own, said)
        PROVE  AwaitedHas(v, r, own, said)
    <3>1. PICK j \in DOMAIN q : /\ v \in q[j].for /\ q[j].account = own /\ said \in q[j].store
                                /\ AllHave(q, j, own, said)
      BY <2>9 DEF AwaitedHas
    <3>2. j \in Nat
      BY <2>1, <3>1
    <3> QED BY <2>4, <2>5, <2>8, <3>1, <3>2 DEF AwaitedHas
  <2>10. LastHas(q, own, said) => LastHas(r, own, said)
    BY <1>2, <2>1, <2>4, <2>5 DEF LastHas, k
  <2>11. LastHas(q, own, said) => AwaitedHas(w, r, own, said)
    <3>1. ASSUME LastHas(q, own, said)
          PROVE  w \in r[k].for /\ r[k].account = own /\ said \in r[k].store
      BY <1>2, <2>1, <2>5, <3>1 DEF LastHas, k
    <3>2. \A i \in DOMAIN r : i >= k => i = k
      BY <2>1, <2>4
    <3> QED BY <2>1, <2>4, <3>1, <3>2 DEF AwaitedHas, AllHave
  <2> QED BY <1>2, <2>4, <2>6, <2>7, <2>8, <2>9, <2>10, <2>11
<1> QED BY <1>1, <1>2

\* The first write is over.
LEMMA Departing ==
    ASSUME NEW q \in Seq(Writes), q # <<>>, NEW r, r = Tail(q), MarksOK(q, heard)
    PROVE  /\ r \in Seq(Writes) /\ 1 \in DOMAIN q /\ Head(q) = q[1] /\ q[1] \in Writes
           /\ WritesFit(q) => WritesFit(r)
           /\ \A w \in {"send", "account"} :
                /\ w \in q[1].for => \A i \in DOMAIN r : w \notin r[i].for
                /\ \A i \in DOMAIN r : w \in r[i].for => heard[w] = "waiting"
                /\ \A i, j \in DOMAIN r : w \in r[i].for /\ w \in r[j].for => i = j
<1>1. /\ r \in Seq(Writes) /\ 1 \in DOMAIN q /\ Head(q) = q[1] /\ q[1] \in Writes
      /\ Len(q) \in Nat /\ Len(q) # 0 /\ DOMAIN q = 1 .. Len(q)
      /\ Len(r) = Len(q) - 1 /\ DOMAIN r = 1 .. (Len(q) - 1)
  BY Positions
<1>2. \A i \in DOMAIN r : i \in Nat /\ i >= 1 /\ i + 1 \in DOMAIN q /\ i + 1 # 1 /\ r[i] = q[i + 1]
  BY <1>1
<1>3. WritesFit(q) => WritesFit(r)
  BY <1>2 DEF WritesFit
<1>4. ASSUME NEW w \in {"send", "account"}
      PROVE  /\ w \in q[1].for => \A i \in DOMAIN r : w \notin r[i].for
             /\ \A i \in DOMAIN r : w \in r[i].for => heard[w] = "waiting"
             /\ \A i, j \in DOMAIN r : w \in r[i].for /\ w \in r[j].for => i = j
  <2>1. /\ \A i \in DOMAIN q : w \in q[i].for => heard[w] = "waiting"
        /\ \A i, j \in DOMAIN q : w \in q[i].for /\ w \in q[j].for => i = j
    BY DEF MarksOK
  <2>2. w \in q[1].for => \A i \in DOMAIN r : w \notin r[i].for
    BY <1>1, <1>2, <2>1
  <2>3. \A i \in DOMAIN r : w \in r[i].for => heard[w] = "waiting"
    BY <1>2, <2>1
  <2>4. ASSUME NEW i \in DOMAIN r, NEW j \in DOMAIN r, w \in r[i].for, w \in r[j].for
        PROVE  i = j
    <3>1. i + 1 = j + 1
      BY <1>2, <2>1, <2>4
    <3> QED BY <1>2, <3>1
  <2> QED BY <2>2, <2>3, <2>4
<1> QED BY <1>1, <1>3, <1>4

\* What the queue still has then.
LEMMA Departed ==
    ASSUME NEW q \in Seq(Writes), q # <<>>, NEW r, r = Tail(q), MarksOK(q, heard),
           NEW own, NEW said
    PROVE  /\ AllHave(q, 1, own, said) => AllHave(r, 1, own, said)
           /\ LastHas(q, own, said) =>
                \/ r = <<>> /\ q[1].account = own /\ said \in q[1].store
                \/ r # <<>> /\ LastHas(r, own, said)
<1>1. /\ r \in Seq(Writes) /\ 1 \in DOMAIN q /\ Head(q) = q[1] /\ q[1] \in Writes
      /\ Len(q) \in Nat /\ Len(q) # 0 /\ DOMAIN q = 1 .. Len(q)
      /\ Len(r) = Len(q) - 1 /\ DOMAIN r = 1 .. (Len(q) - 1)
  BY Positions
<1>2. \A i \in DOMAIN r : i \in Nat /\ i >= 1 /\ i + 1 \in DOMAIN q /\ i + 1 # 1 /\ r[i] = q[i + 1]
  BY <1>1
<1>3. AllHave(q, 1, own, said) => AllHave(r, 1, own, said)
  BY <1>2 DEF AllHave
<1>4. LastHas(q, own, said) =>
        \/ r = <<>> /\ q[1].account = own /\ said \in q[1].store
        \/ r # <<>> /\ LastHas(r, own, said)
  <2>1. CASE Len(q) = 1
    <3>1. r = <<>>
      BY <1>1, <2>1, Positions
    <3> QED BY <1>1, <2>1, <3>1 DEF LastHas
  <2>2. CASE Len(q) # 1
    <3>1. r # <<>> /\ Len(r) \in DOMAIN r /\ r[Len(r)] = q[Len(q)]
      BY <1>1, <1>2, <2>2, Positions
    <3> QED BY <1>1, <3>1 DEF LastHas
  <2> QED BY <2>1, <2>2
<1> QED BY <1>3, <1>4

\* What a wait is for is among the writes, or it is over.
LEMMA DepartedFor ==
    ASSUME NEW q \in Seq(Writes), q # <<>>, NEW w,
           \A i, j \in DOMAIN q : w \in q[i].for /\ w \in q[j].for => i = j,
           NEW own, NEW said, AwaitedHas(w, q, own, said)
    PROVE  \/ w \notin q[1].for /\ AwaitedHas(w, Tail(q), own, said)
           \/ /\ w \in q[1].for /\ q[1].account = own /\ said \in q[1].store
              /\ AllHave(Tail(q), 1, own, said)
<1> DEFINE r == Tail(q)
<1>1. /\ r \in Seq(Writes) /\ 1 \in DOMAIN q /\ Head(q) = q[1] /\ q[1] \in Writes
      /\ Len(q) \in Nat /\ Len(q) # 0 /\ DOMAIN q = 1 .. Len(q)
      /\ Len(r) = Len(q) - 1 /\ DOMAIN r = 1 .. (Len(q) - 1)
  BY Positions
<1>2. \A i \in DOMAIN r : i \in Nat /\ i >= 1 /\ i + 1 \in DOMAIN q /\ i + 1 # 1 /\ r[i] = q[i + 1]
  BY <1>1
<1> HIDE DEF r
<1>3. \A i \in DOMAIN q : i \in Nat /\ (i # 1 => i - 1 \in DOMAIN r /\ r[i - 1] = q[i])
  BY <1>1, <1>2
<1>4. \A j \in Nat : AllHave(q, j + 1, own, said) => AllHave(r, j, own, said)
  BY <1>2 DEF AllHave
<1>5. AllHave(q, 1, own, said) => AllHave(r, 1, own, said)
  BY <1>2 DEF AllHave
<1>6. PICK j \in DOMAIN q : /\ w \in q[j].for /\ q[j].account = own /\ said \in q[j].store
                            /\ AllHave(q, j, own, said)
  BY DEF AwaitedHas
<1>7. CASE j = 1
  BY <1>5, <1>6, <1>7 DEF r
<1>8. CASE j # 1
  <2>1. j - 1 \in DOMAIN r /\ r[j - 1] = q[j] /\ j - 1 \in Nat /\ (j - 1) + 1 = j
    BY <1>2, <1>3, <1>8
  <2>2. AllHave(r, j - 1, own, said)
    BY <1>4, <1>6, <2>1
  <2>3. w \notin q[1].for
    BY <1>1, <1>6, <1>8
  <2> QED BY <1>6, <2>1, <2>2, <2>3 DEF AwaitedHas, r
<1> QED BY <1>7, <1>8 DEF r

-----------------------------------------------------------------------------
(* Renders and the timer.                                                  *)

\* The effect that is left, if it writes at once.
LEMMA ChainGrows ==
    ASSUME TypeOK, ScreenOK, EffectOK, NEW q \in Seq(Writes), NEW own, NEW said,
           loaded = own => said \in shown
    PROVE  /\ Grown(q, Chained(effect, q), own, said)
           /\ loaded = own => OwnOnly(q, Chained(effect, q), own)
           /\ effect # None /\ ~running => Len(Chained(effect, q)) > Len(q)
<1>1. CASE effect = None \/ effect.running
  <2>1. Chained(effect, q) = q
    BY <1>1 DEF Chained
  <2>2. effect # None => effect.running = running
    BY DEF EffectOK
  <2> QED BY <1>1, <2>1, <2>2, GrownItself
<1>2. CASE effect # None /\ ~effect.running
  <2>1. /\ effect.account = loaded /\ effect.store = shown
        /\ Fits(loaded, shown)
    BY <1>2 DEF EffectOK, ScreenOK
  <2>2. Chained(effect, q) = Append(q, Write(loaded, shown, {}))
    BY <1>2, <2>1 DEF Chained
  <2>3. /\ Grown(q, Chained(effect, q), own, said)
        /\ loaded = own => OwnOnly(q, Chained(effect, q), own)
    BY <2>1, <2>2, OneMore
  <2>4. Write(loaded, shown, {}) \in Writes
    BY <2>1 DEF Write, Writes, Fits, Stores
  <2>5. Len(Chained(effect, q)) = Len(q) + 1
    BY <2>2, <2>4, Appending
  <2> QED BY <2>3, <2>5, Positions
<1> QED BY <1>1, <1>2

\* What the timer holds, if it holds anything.
LEMMA TimerGrows ==
    ASSUME TypeOK, StoresFit, NEW own, NEW said,
           scheduled # None /\ scheduled.account = own => said \in scheduled.store
    PROVE  /\ Grown(queue, Flushed, own, said)
           /\ (scheduled # None => scheduled.account = own) => OwnOnly(queue, Flushed, own)
           /\ Flushed = <<>> => queue = <<>> /\ scheduled = None
<1>0. queue \in Seq(Writes)
  BY DEF TypeOK
<1>1. CASE scheduled = None
  <2>1. Flushed = queue
    BY <1>1 DEF Flushed
  <2> QED BY <1>0, <1>1, <2>1, GrownItself
<1>2. CASE scheduled # None
  <2>1. Fits(scheduled.account, scheduled.store)
    BY <1>2 DEF StoresFit
  <2>2. Flushed = Append(queue, Write(scheduled.account, scheduled.store, {}))
    BY <1>2 DEF Flushed
  <2>3. /\ Grown(queue, Flushed, own, said)
        /\ scheduled.account = own => OwnOnly(queue, Flushed, own)
    BY <1>0, <1>2, <2>1, <2>2, OneMore
  <2>4. Write(scheduled.account, scheduled.store, {}) \in Writes
    BY <2>1 DEF Write, Writes, Fits, Stores
  <2>5. Flushed # <<>>
    BY <1>0, <2>2, <2>4, Appending, Positions
  <2> QED BY <1>2, <2>3, <2>5
<1> QED BY <1>1, <1>2

\* A timer, and what is left of it when the effect has run.
TimerFits(s) == s = None \/ (/\ s \in [account : Account, store : Stores]
                            /\ Fits(s.account, s.store))

LEMMA EffectDelays ==
    ASSUME TypeOK, ScreenOK, EffectOK, NEW s, TimerFits(s)
    PROVE  /\ TimerFits(Delayed(effect, s))
           /\ effect # None /\ ~running => Delayed(effect, s) = None
           /\ effect = None => Delayed(effect, s) = s
           /\ (loaded = Mine => Question \in shown) /\ Covered(s) => Covered(Delayed(effect, s))
           /\ loaded = Mine /\ Question \in shown /\ TimerHas(s) => TimerHas(Delayed(effect, s))
<1>1. CASE effect = None
  BY <1>1 DEF Delayed
<1>2. CASE effect # None
  <2>1. /\ effect.account = loaded /\ effect.store = shown /\ effect.running = running
        /\ Fits(loaded, shown)
    BY <1>2 DEF EffectOK, ScreenOK
  <2>2. Delayed(effect, s) = IF running THEN [account |-> loaded, store |-> shown] ELSE None
    BY <1>2, <2>1 DEF Delayed
  <2>3. [account |-> loaded, store |-> shown] \in [account : Account, store : Stores]
    BY <2>1 DEF Fits, Stores
  <2> QED BY <1>2, <2>1, <2>2, <2>3 DEF TimerFits, Covered, TimerHas
<1> QED BY <1>1, <1>2

LEMMA TimerTyped ==
    ASSUME TypeOK, StoresFit
    PROVE  TimerFits(scheduled)
  BY DEF TypeOK, StoresFit, TimerFits

LEMMA ChainKeeps ==
    ASSUME TypeOK, ScreenOK, EffectOK, NEW q \in Seq(Writes)
    PROVE  /\ Chained(effect, q) \in Seq(Writes)
           /\ WritesFit(q) => WritesFit(Chained(effect, q))
           /\ \A h : MarksOK(q, h) => MarksOK(Chained(effect, q), h)
<1>1. Grown(q, Chained(effect, q), None, None)
  <2>1. CASE loaded = None
    <3>1. effect = None
      BY <2>1 DEF EffectOK
    <3>2. Chained(effect, q) = q
      BY <3>1 DEF Chained
    <3> QED BY <3>2, GrownItself
  <2>2. CASE loaded # None
    BY <2>2, ChainGrows
  <2> QED BY <2>1, <2>2
<1> QED BY <1>1, GrowingKeeps

LEMMA TimerKeeps ==
    ASSUME TypeOK, StoresFit
    PROVE  /\ Flushed \in Seq(Writes)
           /\ WritesFit(queue) => WritesFit(Flushed)
           /\ \A h : MarksOK(queue, h) => MarksOK(Flushed, h)
<1>1. Grown(queue, Flushed, None, None)
  <2>1. scheduled # None => scheduled.account # None
    BY DEF StoresFit, Fits
  <2> QED BY <2>1, TimerGrows
<1>2. queue \in Seq(Writes)
  BY DEF TypeOK
<1> QED BY <1>1, <1>2, GrowingKeeps

\* A render leaves its own effect, and the writes of the one before.
LEMMA Rendering ==
    ASSUME TypeOK, ScreenOK, EffectOK, NEW q \in Seq(Writes), NEW s, TimerFits(s),
           NEW account \in Account \cup {None}, NEW of, NEW store, NEW busy \in BOOLEAN,
           of # None => of = account /\ Fits(of, store), of = None => store = {},
           Render(account, of, store, busy, q, s)
    PROVE  /\ screen' = account /\ loaded' = of /\ shown' = store /\ running' = busy
           /\ loaded' \in Account \cup {None} /\ shown' \in Stores
           /\ effect' = None \/ effect' \in Effect
           /\ effect' = IF of = None THEN None
                        ELSE [account |-> of, store |-> store, running |-> busy]
           /\ of # None => effect' # None
           /\ EffectOK'
           /\ scheduled' = Delayed(effect, s) /\ TimerFits(scheduled')
           /\ queue' = Chained(effect, q) /\ queue' \in Seq(Writes)
           /\ WritesFit(q) => WritesFit(queue')
           /\ \A h : MarksOK(q, h) => MarksOK(queue', h)
<1>1. /\ screen' = account /\ loaded' = of /\ shown' = store /\ running' = busy
      /\ queue' = Chained(effect, q) /\ scheduled' = Delayed(effect, s)
  BY DEF Render
<1>2. of \in Account \cup {None} /\ store \in Stores
  BY DEF Fits, Stores
<1>3. effect' = IF of = None THEN None ELSE [account |-> of, store |-> store, running |-> busy]
  BY DEF Render
<1>4. of # None => [account |-> of, store |-> store, running |-> busy] \in Effect
  BY <1>2 DEF Effect, Stores
<1>5. of # None => effect' # None /\ effect' \in Effect
  BY <1>3, <1>4
<1>6. EffectOK'
  BY <1>1, <1>3, <1>5 DEF EffectOK
<1>9. TimerFits(Delayed(effect, s))
  BY EffectDelays
<1>10. /\ Chained(effect, q) \in Seq(Writes)
       /\ WritesFit(q) => WritesFit(Chained(effect, q))
       /\ \A h : MarksOK(q, h) => MarksOK(Chained(effect, q), h)
  BY ChainKeeps
<1> QED BY <1>1, <1>2, <1>3, <1>5, <1>6, <1>9, <1>10

-----------------------------------------------------------------------------
(* A step that goes on with the same send and the same change of account.  *)

\* The question has been put to the queue.
Known == (send = "storing" /\ run.current) \/ send \in Asked

LEMMA KnownFacts ==
    ASSUME IInv, Known
    PROVE  /\ Mine \in Account
           /\ loaded = Mine => Question \in shown
           /\ Covered(scheduled)
<1>1. Mine \in Account
  <2>1. run.session \in Session
    BY DEF IInv, Base, RunOK, Known, Asked
  <2> QED BY <2>1 DEF Mine, Owner, Session
<1>2. CASE send = "storing" /\ run.current
  BY <1>1, <1>2 DEF IInv, QuestionOK, Covered, TimerHas
<1>3. CASE send \in Asked
  BY <1>1, <1>3 DEF IInv, QuestionOK, Lasting, LastingAt, Bound, BoundAt, Covered, TimerHas
<1> QED BY <1>1, <1>2, <1>3 DEF Known

LEMMA Steady ==
    ASSUME IInv,
           send' = send, saved' = saved, transition' = transition,
           failedTail' = failedTail, loaded' = loaded, shown \subseteq shown',
           run'.session = run.session, run'.n = run.n, run'.current => run.current,
           heard'["send"] = heard["send"], heard'["account"] = heard["account"],
           Known => /\ Grown(queue, queue', Mine, Question)
                    /\ loaded = Mine /\ TimerHas(scheduled) => OwnOnly(queue, queue', Mine)
                    /\ loaded = Mine /\ TimerHas(scheduled) => TimerHas(scheduled')
                    /\ Covered(scheduled'),
           send = "storing" /\ run.current =>
             \/ effect' # None
             \/ effect' = effect
             \/ queue' # <<>> /\ LastHas(queue', Mine, Question)
    PROVE  QuestionOK'
<1>1. Mine' = Mine /\ Question' = Question /\ (Known' => Known)
  BY DEF Mine, Question, Known
<1>2. ASSUME Known
      PROVE  /\ AllHave(queue, 1, Mine, Question) => AllHave(queue', 1, Mine, Question)
             /\ \A w \in {"send", "account"} : AwaitedHas(w, queue, Mine, Question)
                                             => AwaitedHas(w, queue', Mine, Question)
             /\ loaded = Mine /\ TimerHas(scheduled) /\ LastHas(queue, Mine, Question)
                => LastHas(queue', Mine, Question)
             /\ queue' = <<>> => queue = <<>>
  <2>1. queue \in Seq(Writes)
    BY DEF IInv, Base, TypeOK
  <2> QED BY <1>2, <2>1, GrowingKeeps
<1>3. Known => (Lasting => Lasting')
  BY <1>1, <1>2 DEF Lasting, LastingAt, Covered
<1>4. Known => (loaded = Mine /\ TimerHas(scheduled) /\ Ends(queue) => Ends(queue)')
  BY <1>1, <1>2 DEF Ends
<1>5. Known => (Bound => Bound')
  BY <1>1, <1>4 DEF Bound, BoundAt, TimerHas
<1>6. ASSUME NEW w \in {"send", "account"}, Known, Awaits(w) PROVE Awaits(w)'
  BY <1>1, <1>2, <1>3, <1>6 DEF Awaits
<1>7. ASSUME send = "storing", run.current
      PROVE  /\ Question' \in shown' /\ TimerHas(scheduled)'
             /\ effect' # None \/ Ends(queue)'
  <2>1. Known /\ Question \in shown /\ TimerHas(scheduled) /\ (effect # None \/ Ends(queue))
    BY <1>7 DEF IInv, QuestionOK, Known
  <2>2. loaded = Mine
    BY <1>7 DEF IInv, Base, RunOK, PlaceOK, Mine
  <2>3. TimerHas(scheduled)'
    BY <1>1, <2>1, <2>2 DEF TimerHas
  <2>4. effect' = effect => effect' # None \/ Ends(queue)'
    BY <1>4, <2>1, <2>2
  <2>5. queue' # <<>> /\ LastHas(queue', Mine, Question) => Ends(queue)'
    BY <1>1 DEF Ends
  <2> QED BY <1>1, <1>7, <2>1, <2>3, <2>4, <2>5
<1>8. ASSUME send \in Asked
      PROVE  /\ loaded' = Mine' => Question' \in shown'
             /\ Lasting' \/ Bound'
             /\ transition'.at = "flushing" => Awaits("account")'
             /\ transition'.at \in {"host", "changed", "emptied"} => Lasting'
             /\ send = "flushing" => Awaits("send")'
             /\ send \in {"calling", "refreshing"} => Lasting'
  <2>1. /\ Known
        /\ loaded = Mine => Question \in shown
        /\ Lasting \/ Bound
        /\ transition.at = "flushing" => Awaits("account")
        /\ transition.at \in {"host", "changed", "emptied"} => Lasting
        /\ send = "flushing" => Awaits("send")
        /\ send \in {"calling", "refreshing"} => Lasting
    BY <1>8 DEF IInv, QuestionOK, Known
  <2> QED BY <1>1, <1>3, <1>5, <1>6, <2>1
<1> QED BY <1>7, <1>8 DEF QuestionOK, Asked

\* A render of the same conversation, which may have grown.
LEMMA SteadyRender ==
    ASSUME IInv, NEW store, NEW busy \in BOOLEAN, shown \subseteq store,
           loaded # None => Fits(loaded, store), loaded = None => store = {},
           Render(screen, loaded, store, busy, queue, scheduled),
           send' = send, saved' = saved, transition' = transition, failedTail' = failedTail,
           run'.session = run.session, run'.n = run.n, run'.current => run.current,
           heard' = heard
    PROVE  QuestionOK'
<1>1. queue \in Seq(Writes) /\ TimerFits(scheduled) /\ screen \in Account \cup {None}
      /\ TypeOK /\ ScreenOK /\ EffectOK
  BY TimerTyped DEF IInv, Base, TypeOK
<1>2. loaded # None => loaded = screen
  BY <1>1 DEF ScreenOK
<1>3. /\ loaded' = loaded /\ shown' = store
      /\ loaded # None => effect' # None
      /\ scheduled' = Delayed(effect, scheduled) /\ queue' = Chained(effect, queue)
  BY <1>1, <1>2, Rendering
<1>4. send = "storing" /\ run.current => loaded # None
  BY DEF IInv, Base, RunOK, PlaceOK
<1>5. ASSUME Known
      PROVE  /\ Grown(queue, queue', Mine, Question)
             /\ loaded = Mine /\ TimerHas(scheduled) => OwnOnly(queue, queue', Mine)
             /\ loaded = Mine /\ TimerHas(scheduled) => TimerHas(scheduled')
             /\ Covered(scheduled')
  <2>1. (loaded = Mine => Question \in shown) /\ Covered(scheduled)
    BY <1>5, KnownFacts
  <2>2. /\ Grown(queue, queue', Mine, Question)
        /\ loaded = Mine => OwnOnly(queue, queue', Mine)
    BY <1>1, <1>3, <2>1, ChainGrows
  <2> QED BY <1>1, <1>3, <2>1, <2>2, EffectDelays
<1> QED BY <1>3, <1>4, <1>5, Steady

-----------------------------------------------------------------------------
(* The writes.                                                             *)

LEMMA RunEffectKeeps ==
    ASSUME IInv, RunEffect
    PROVE  IInv'
<1>1. /\ effect # None /\ effect' = None
      /\ queue' = Chained(effect, queue) /\ scheduled' = Delayed(effect, scheduled)
      /\ UNCHANGED <<display, failedTail, heard, sending, changing, host>>
  BY DEF RunEffect
<1> USE DEF display, sending, changing, host
<1>2. Base /\ TypeOK /\ ScreenOK /\ EffectOK /\ queue \in Seq(Writes) /\ TimerFits(scheduled)
  BY TimerTyped DEF IInv, Base, TypeOK
<1>3. /\ queue' \in Seq(Writes) /\ WritesFit(queue') /\ MarksOK(queue', heard)
  BY <1>1, <1>2, ChainKeeps DEF Base
<1>4. TimerFits(scheduled') /\ (~running => scheduled' = None)
  BY <1>1, <1>2, EffectDelays
<1>5. TypeOK'
  BY <1>1, <1>2, <1>3, <1>4 DEF TypeOK, TimerFits
<1>6. ScreenOK' /\ EffectOK' /\ PlaceOK' /\ RunOK' /\ WaitsOK'
  BY <1>1, <1>2, <1>4 DEF Base, ScreenOK, EffectOK, PlaceOK, RunOK, WaitsOK
<1>7. WritesFit(queue)' /\ StoresFit' /\ MarksOK(queue, heard)'
  BY <1>1, <1>2, <1>3, <1>4 DEF Base, StoresFit, WritesFit, MarksOK, TimerFits
<1>8. ASSUME Known
      PROVE  /\ Grown(queue, queue', Mine, Question)
             /\ loaded = Mine => OwnOnly(queue, queue', Mine)
             /\ loaded = Mine /\ TimerHas(scheduled) => TimerHas(scheduled')
             /\ Covered(scheduled')
             /\ ~running /\ loaded = Mine => queue' # <<>> /\ LastHas(queue', Mine, Question)
  <2>1. (loaded = Mine => Question \in shown) /\ Covered(scheduled)
    BY <1>8, KnownFacts
  <2>2. /\ Grown(queue, queue', Mine, Question)
        /\ loaded = Mine => OwnOnly(queue, queue', Mine)
        /\ ~running => Len(queue') > Len(queue)
    BY <1>1, <1>2, <2>1, ChainGrows
  <2>3. ~running => Len(queue') # 0 /\ queue' # queue
    BY <1>2, <1>3, <2>2, Positions
  <2>4. ~running /\ loaded = Mine => queue' # <<>> /\ LastHas(queue', Mine, Question)
    BY <1>2, <1>3, <2>2, <2>3, GrowingKeeps, Positions
  <2> QED BY <1>1, <1>2, <2>1, <2>2, <2>4, EffectDelays
<1>9. send = "storing" /\ run.current => ~running /\ loaded = Mine
  BY <1>2 DEF Base, RunOK, PlaceOK, Mine, Asked
<1>10. QuestionOK'
  BY <1>1, <1>8, <1>9, Steady DEF Known
<1> QED BY <1>5, <1>6, <1>7, <1>10 DEF IInv, Base

LEMMA DebounceEndsKeeps ==
    ASSUME IInv, DebounceEnds
    PROVE  IInv'
<1>1. /\ queue' = Flushed /\ scheduled' = None
      /\ UNCHANGED <<display, effect, failedTail, heard, sending, changing, host>>
  BY DEF DebounceEnds
<1> USE DEF display, sending, changing, host
<1>2. Base /\ TypeOK /\ StoresFit /\ queue \in Seq(Writes)
  BY DEF IInv, Base, TypeOK
<1>3. /\ queue' \in Seq(Writes) /\ WritesFit(queue') /\ MarksOK(queue', heard)
  BY <1>1, <1>2, TimerKeeps DEF Base
<1>5. TypeOK'
  BY <1>1, <1>2, <1>3 DEF TypeOK
<1>6. ScreenOK' /\ EffectOK' /\ PlaceOK' /\ RunOK' /\ WaitsOK'
  BY <1>1, <1>2 DEF Base, ScreenOK, EffectOK, PlaceOK, RunOK, WaitsOK
<1>7. WritesFit(queue)' /\ StoresFit' /\ MarksOK(queue, heard)'
  BY <1>1, <1>2, <1>3 DEF Base, StoresFit, WritesFit, MarksOK
<1>8. ASSUME Known
      PROVE  /\ Grown(queue, queue', Mine, Question)
             /\ loaded = Mine /\ TimerHas(scheduled) => OwnOnly(queue, queue', Mine)
             /\ loaded = Mine /\ TimerHas(scheduled) => TimerHas(scheduled')
             /\ Covered(scheduled')
  <2>1. Covered(scheduled)
    BY <1>8, KnownFacts
  <2> QED BY <1>1, <1>2, <2>1, TimerGrows DEF Covered, TimerHas
<1>10. QuestionOK'
  BY <1>1, <1>8, Steady
<1> QED BY <1>5, <1>6, <1>7, <1>10 DEF IInv, Base

LEMMA WriteEndsKeeps ==
    ASSUME IInv, WriteSaved \/ WriteFails
    PROVE  IInv'
<1> DEFINE q1 == queue[1]
<1>1. /\ queue # <<>> /\ queue' = Tail(queue)
      /\ UNCHANGED <<display, effect, scheduled, sending, changing,
                     hostAccount, call, cancelling>>
      /\ faults' \in 0 .. MaxFault
      /\ \/ /\ Head(queue).account = hostAccount /\ ~failedTail' /\ hostAccount # None
            /\ saved' = [saved EXCEPT ![hostAccount] = Head(queue).store]
            /\ heard' = [w \in Waiter |-> IF w \in Head(queue).for THEN "ok" ELSE heard[w]]
         \/ /\ failedTail' /\ saved' = saved
            /\ heard' = [w \in Waiter |-> IF w \in Head(queue).for THEN "failed" ELSE heard[w]]
      /\ failedTail' \in BOOLEAN
  <2>1. faults \in 0 .. MaxFault
    BY DEF IInv, Base, TypeOK
  <2>2. CASE WriteSaved
    BY <2>1, <2>2 DEF WriteSaved, Resolve, Refused, Foreign
  <2>3. CASE WriteFails
    <3>1. faults' \in 0 .. MaxFault
      BY <2>1, <2>3 DEF WriteFails
    <3> QED BY <2>3, <3>1 DEF WriteFails, Resolve
  <2> QED BY <2>2, <2>3
<1> USE DEF display, sending, changing, host
<1>2. Base /\ TypeOK /\ queue \in Seq(Writes) /\ heard \in [Waiter -> {"none", "waiting", "ok", "failed"}]
  BY DEF IInv, Base, TypeOK
<1>3. /\ queue' \in Seq(Writes) /\ 1 \in DOMAIN queue /\ Head(queue) = q1 /\ q1 \in Writes
      /\ WritesFit(queue')
      /\ \A w \in {"send", "account"} :
           /\ w \in q1.for => \A i \in DOMAIN queue' : w \notin queue'[i].for
           /\ \A i \in DOMAIN queue' : w \in queue'[i].for => heard[w] = "waiting"
           /\ \A i, j \in DOMAIN queue' : w \in queue'[i].for /\ w \in queue'[j].for => i = j
           /\ w \in q1.for => heard[w] = "waiting"
  <2>1. MarksOK(queue, heard) /\ WritesFit(queue)
    BY <1>2 DEF Base
  <2>2. /\ queue' \in Seq(Writes) /\ 1 \in DOMAIN queue /\ Head(queue) = q1 /\ q1 \in Writes
        /\ WritesFit(queue')
        /\ \A w \in {"send", "account"} :
             /\ w \in q1.for => \A i \in DOMAIN queue' : w \notin queue'[i].for
             /\ \A i \in DOMAIN queue' : w \in queue'[i].for => heard[w] = "waiting"
             /\ \A i, j \in DOMAIN queue' : w \in queue'[i].for /\ w \in queue'[j].for => i = j
    <3>1. queue # <<>> /\ queue' = Tail(queue) /\ queue \in Seq(Writes)
      BY <1>1, <1>2
    <3>2. \A w \in {"send", "account"} :
             /\ w \in queue[1].for => \A i \in DOMAIN queue' : w \notin queue'[i].for
             /\ \A i \in DOMAIN queue' : w \in queue'[i].for => heard[w] = "waiting"
             /\ \A i, j \in DOMAIN queue' : w \in queue'[i].for /\ w \in queue'[j].for => i = j
      BY ONLY <2>1, <3>1, Departing
    <3>3. /\ queue' \in Seq(Writes) /\ 1 \in DOMAIN queue /\ Head(queue) = queue[1] /\ queue[1] \in Writes
        /\ WritesFit(queue')
      BY ONLY <2>1, <3>1, Departing
    <3> QED BY <3>2, <3>3
  <2>3. \A w \in {"send", "account"} : w \in q1.for => heard[w] = "waiting"
    BY <2>1, <2>2 DEF MarksOK
  <2> QED BY <2>2, <2>3
<1>4. Fits(q1.account, q1.store)
  BY <1>2, <1>3 DEF Base, WritesFit
<1> HIDE DEF q1
<1>5. TypeOK'
  <2>1. heard' \in [Waiter -> {"none", "waiting", "ok", "failed"}]
    BY <1>1, <1>2
  <2>2. saved' \in [Account -> Stores]
    BY <1>1, <1>2, <1>3, <1>4 DEF TypeOK, Fits, Stores
  <2> QED BY <1>1, <1>2, <1>3, <2>1, <2>2 DEF TypeOK
<1>6. ScreenOK' /\ EffectOK' /\ PlaceOK' /\ RunOK'
  BY <1>1, <1>2 DEF Base, ScreenOK, EffectOK, PlaceOK, RunOK
<1>7. WaitsOK'
  BY <1>1, <1>2, <1>3 DEF Base, WaitsOK
<1>8. WritesFit(queue)' /\ StoresFit'
  BY <1>1, <1>2, <1>3, <1>4 DEF Base, StoresFit, WritesFit, TypeOK
<1>9. MarksOK(queue, heard)'
  <2>1. \A w \in {"send", "account"} : w \notin q1.for => heard'[w] = heard[w]
    BY <1>1, <1>3
  <2> QED BY <1>3, <2>1 DEF MarksOK
<1>10. Mine' = Mine /\ Question' = Question
  BY <1>1 DEF Mine, Question
<1>11. ASSUME Known
       PROVE  /\ Lasting => Lasting'
              /\ TimerHas(scheduled) /\ Ends(queue) => Ends(queue)'
              /\ Bound => Bound'
              /\ \A w \in {"send", "account"} : Awaits(w) => Awaits(w)'
  <2>1. Mine \in Account /\ Covered(scheduled)
    BY <1>11, KnownFacts
  <2>2. saved' = saved \/ (/\ hostAccount \in Account /\ q1.account = hostAccount
                           /\ saved' = [saved EXCEPT ![hostAccount] = q1.store])
    BY <1>1, <1>2, <1>3 DEF TypeOK
  <2>3. saved \in [Account -> Stores]
    BY <1>2 DEF TypeOK
  <2>4. \/ saved'[Mine] = saved[Mine]
        \/ saved'[Mine] = q1.store /\ q1.account = Mine
    BY <2>1, <2>2, <2>3
  <2>5. q1.account = Mine /\ ~failedTail' => saved'[Mine] = q1.store
    BY <1>1, <1>3, <2>1, <2>3
  <2>6. /\ AllHave(queue, 1, Mine, Question) => AllHave(queue', 1, Mine, Question)
        /\ LastHas(queue, Mine, Question) =>
             \/ queue' = <<>> /\ q1.account = Mine /\ Question \in q1.store
             \/ queue' # <<>> /\ LastHas(queue', Mine, Question)
        /\ \A w \in {"send", "account"} : AwaitedHas(w, queue, Mine, Question) =>
             \/ w \notin q1.for /\ AwaitedHas(w, queue', Mine, Question)
             \/ /\ w \in q1.for /\ q1.account = Mine /\ Question \in q1.store
                /\ AllHave(queue', 1, Mine, Question)
    <3>1. MarksOK(queue, heard) /\ queue \in Seq(Writes) /\ queue # <<>> /\ queue' = Tail(queue)
      BY <1>1, <1>2 DEF Base
    <3>2. /\ AllHave(queue, 1, Mine, Question) => AllHave(queue', 1, Mine, Question)
          /\ LastHas(queue, Mine, Question) =>
               \/ queue' = <<>> /\ queue[1].account = Mine /\ Question \in queue[1].store
               \/ queue' # <<>> /\ LastHas(queue', Mine, Question)
      BY ONLY <3>1, Departed
    <3>3. ASSUME NEW w \in {"send", "account"}, AwaitedHas(w, queue, Mine, Question)
          PROVE  \/ w \notin queue[1].for /\ AwaitedHas(w, queue', Mine, Question)
                 \/ /\ w \in queue[1].for /\ queue[1].account = Mine
                    /\ Question \in queue[1].store
                    /\ AllHave(queue', 1, Mine, Question)
      <4>1. \A i, j \in DOMAIN queue : w \in queue[i].for /\ w \in queue[j].for => i = j
        BY <3>1 DEF MarksOK
      <4> QED BY ONLY <3>1, <3>3, <4>1, DepartedFor
    <3> QED BY <3>2, <3>3 DEF q1
  <2>7. AllHave(queue, 1, Mine, Question) /\ q1.account = Mine => Question \in q1.store
    BY <1>2, <1>3, Positions DEF AllHave, q1
  <2>8. Lasting => Lasting'
    BY <1>1, <1>10, <2>4, <2>6, <2>7 DEF Lasting, LastingAt, Covered
  <2>9. TimerHas(scheduled) /\ Ends(queue) => Ends(queue)'
    BY <1>1, <1>10, <2>5, <2>6 DEF Ends, LastHas
  <2>10. Bound => Bound'
    BY <1>1, <1>10, <2>9 DEF Bound, BoundAt, TimerHas
  <2>11. ASSUME NEW w \in {"send", "account"}, Awaits(w) PROVE Awaits(w)'
    <3>1. w \notin q1.for => heard'[w] = heard[w]
      BY <1>1, <1>3
    <3>2. CASE Lasting
      BY <2>8, <3>2 DEF Awaits
    <3>3. CASE ~Lasting /\ w \notin q1.for
      BY <1>10, <2>6, <2>11, <3>1, <3>3 DEF Awaits
    <3>4. CASE ~Lasting /\ w \in q1.for
      <4>1. heard[w] = "waiting" /\ AwaitedHas(w, queue, Mine, Question)
        BY <1>3, <2>11, <3>4 DEF Awaits
      <4>2. q1.account = Mine /\ Question \in q1.store /\ AllHave(queue', 1, Mine, Question)
        BY <2>6, <3>4, <4>1
      <4>3. failedTail' => heard'[w] = "failed"
        BY <1>1, <1>3, <3>4
      <4>4. ~failedTail' => Lasting'
        BY <1>1, <1>10, <2>1, <2>5, <4>2 DEF Lasting, LastingAt, Covered
      <4> QED BY <1>1, <4>3, <4>4 DEF Awaits
    <3> QED BY <3>2, <3>3, <3>4
  <2> QED BY <2>8, <2>9, <2>10, <2>11
<1>12. QuestionOK'
  <2>1. QuestionOK
    BY DEF IInv
  <2>2. ASSUME send = "storing", run.current
        PROVE  Question' \in shown' /\ TimerHas(scheduled)' /\ (effect' # None \/ Ends(queue)')
    BY <1>1, <1>10, <1>11, <2>1, <2>2 DEF QuestionOK, Known, TimerHas
  <2>3. ASSUME send \in Asked
        PROVE  /\ loaded' = Mine' => Question' \in shown'
               /\ Lasting' \/ Bound'
               /\ transition'.at = "flushing" => Awaits("account")'
               /\ transition'.at \in {"host", "changed", "emptied"} => Lasting'
               /\ send = "flushing" => Awaits("send")'
               /\ send \in {"calling", "refreshing"} => Lasting'
    <3>1. Known
      BY <2>3 DEF Known
    <3> QED BY <1>1, <1>10, <1>11, <2>1, <2>3, <3>1 DEF QuestionOK
  <2> QED BY <1>1, <2>2, <2>3 DEF QuestionOK, Asked
<1> QED BY <1>5, <1>6, <1>7, <1>8, <1>9, <1>12 DEF IInv, Base

-----------------------------------------------------------------------------
(* Sending a message.                                                      *)

ScreenTyped ==
    /\ screen \in Account \cup {None} /\ loaded \in Account \cup {None}
    /\ shown \in Stores /\ running \in BOOLEAN /\ (effect = None \/ effect \in Effect)
    /\ (scheduled = None \/ scheduled \in [account : Account, store : Stores])
    /\ queue \in Seq(Writes)

\* A render of the conversation of the screen.
LEMMA RenderBase ==
    ASSUME IInv, NEW q \in Seq(Writes), WritesFit(q), MarksOK(q, heard'),
           NEW s, TimerFits(s), NEW store, NEW busy \in BOOLEAN,
           loaded # None => Fits(loaded, store), loaded = None => store = {},
           Render(screen, loaded, store, busy, q, s), saved' = saved,
           active' = active \/ (loaded # None /\ Owner(active') = loaded)
    PROVE  /\ ScreenTyped' /\ ScreenOK' /\ EffectOK' /\ WritesFit(queue)' /\ StoresFit'
           /\ MarksOK(queue, heard)'
           /\ screen' = screen /\ loaded' = loaded /\ shown' = store /\ running' = busy
<1>1. /\ Base /\ TypeOK /\ ScreenOK /\ EffectOK /\ screen \in Account \cup {None}
      /\ loaded # None => loaded = screen
  BY DEF IInv, Base, TypeOK, ScreenOK
<1>2. /\ screen' = screen /\ loaded' = loaded /\ shown' = store /\ running' = busy
      /\ loaded' \in Account \cup {None} /\ shown' \in Stores
      /\ effect' = None \/ effect' \in Effect
      /\ EffectOK' /\ TimerFits(scheduled') /\ queue' \in Seq(Writes)
      /\ WritesFit(queue') /\ MarksOK(queue', heard')
  BY <1>1, Rendering
<1>3. ScreenTyped'
  BY <1>1, <1>2 DEF ScreenTyped, TimerFits
<1>4. ScreenOK' /\ WritesFit(queue)' /\ StoresFit' /\ MarksOK(queue, heard)'
  BY <1>1, <1>2 DEF Base, ScreenOK, WritesFit, StoresFit, MarksOK, TimerFits, Fits
<1> QED BY <1>2, <1>3, <1>4

\* A store takes what a run says in its session, when it has the question.
LEMMA Saying ==
    ASSUME IInv, send \in Asked, NEW parts \in SUBSET Part
    PROVE  /\ shown \subseteq With(shown, run.session, parts)
           /\ loaded # None => Fits(loaded, With(shown, run.session, parts))
           /\ loaded = None => With(shown, run.session, parts) = {}
<1>1. ScreenOK /\ run.session \in Session /\ run.n \in 1 .. MaxRun
  BY DEF IInv, Base, RunOK, Asked
<1>2. Mine \in Account /\ (loaded = Mine => Question \in shown)
  BY KnownFacts DEF Known
<1>3. CASE loaded = None
  <2>1. Owner(active) = None /\ shown = {}
    BY <1>1, <1>3 DEF ScreenOK, Owner, Fresh
  <2> QED BY <1>2, <1>3, <2>1 DEF With, Mine
<1>4. CASE loaded # None /\ Mine # loaded
  BY <1>1, <1>4 DEF With, ScreenOK, Mine
<1>5. CASE loaded # None /\ Mine = loaded
  <2> DEFINE new == {<<run.session, run.n, p>> : p \in parts}
  <2>1. With(shown, run.session, parts) = shown \cup new /\ Fits(loaded, shown)
    BY <1>1, <1>5 DEF With, ScreenOK, Mine
  <2>2. \A m \in new : /\ m \in Said /\ Owner(m[1]) = loaded
                       /\ <<m[1], m[2], "question">> \in shown
    BY <1>1, <1>2, <1>5 DEF Said, Owner, Mine, Question
  <2> HIDE DEF new
  <2> QED BY <1>5, <2>1, <2>2 DEF Fits
<1> QED BY <1>3, <1>4, <1>5

\* A send that ends, or has only begun, owes no question.
LEMMA Idle ==
    ASSUME send' \in {"idle", "preparing"}
    PROVE  QuestionOK'
  BY DEF QuestionOK, Asked

Runs == [n : 0 .. MaxRun, session : Session \cup {Fresh}, current : BOOLEAN,
         streamed : 0 .. MaxDelta, drawn : 0 .. MaxDelta]

LEMMA SendKeeps ==
    ASSUME IInv, Send
    PROVE  IInv'
<1>1. /\ send = "idle" /\ transition.at = "none" /\ ~running /\ next <= MaxRun
      /\ screen # None /\ loaded = screen
      /\ send' = "preparing" /\ next' = next + 1
      /\ UNCHANGED <<display, writes, failedTail, heard, abort, changing, host>>
  BY DEF Send
<1>2. Base /\ next \in 1 .. MaxRun + 1 /\ active \in Session \cup {Fresh} /\ MaxRun \in Nat
  BY DEF IInv, Base, TypeOK
<1>3. run' = [n |-> next, session |-> active, current |-> TRUE, streamed |-> 0, drawn |-> 0]
  BY DEF Send, NoRun
<1>4. next \in 1 .. MaxRun /\ next' \in 1 .. MaxRun + 1 /\ active \in Session /\ Owner(active) = screen
  BY <1>1, <1>2 DEF Base, ScreenOK, Fresh, Owner
<1> USE DEF display, writes, changing, host
<1>5. TypeOK'
  <2>1. run' \in Runs
    BY <1>3, <1>4 DEF Runs
  <2> QED BY <1>1, <1>2, <1>4, <2>1 DEF Base, TypeOK, Runs
<1>6. ScreenOK' /\ EffectOK' /\ WritesFit(queue)' /\ StoresFit' /\ PlaceOK'
  BY <1>1, <1>2 DEF Base, ScreenOK, EffectOK, WritesFit, StoresFit, PlaceOK
<1>7. RunOK'
  <2>1. run'.session = active /\ run'.n = next
    BY <1>3
  <2>2. call.at = "none" /\ ~running'
    BY <1>1, <1>2 DEF Base, RunOK
  <2> QED BY <1>1, <1>4, <2>1, <2>2 DEF RunOK
<1>8. MarksOK(queue, heard)' /\ WaitsOK'
  BY <1>1, <1>2 DEF Base, MarksOK, WaitsOK
<1> QED BY <1>1, <1>5, <1>6, <1>7, <1>8, Idle DEF IInv, Base

LEMMA LeavingKeeps ==
    ASSUME IInv, Abandon \/ NotSent
    PROVE  IInv'
<1>1. /\ send \in {"preparing", "storing"} /\ send' = "idle" /\ run' = NoRun
      /\ \/ heard' = heard /\ send = "preparing"
         \/ heard' = [heard EXCEPT !["send"] = "none"] /\ heard["send"] # "waiting"
      /\ UNCHANGED <<display, writes, failedTail, abort, next, changing, host>>
  <2>1. CASE Abandon
    BY <2>1 DEF Abandon, Finish
  <2>2. CASE NotSent
    BY <2>2 DEF NotSent, Finish
  <2> QED BY <2>1, <2>2
<1>2. Base /\ heard \in [Waiter -> {"none", "waiting", "ok", "failed"}]
  BY DEF IInv, Base, TypeOK
<1> USE DEF display, writes, changing, host
<1>3. TypeOK'
  <2>1. run' \in Runs
    BY <1>1 DEF Runs, NoRun
  <2>2. heard' \in [Waiter -> {"none", "waiting", "ok", "failed"}]
    BY <1>1, <1>2
  <2> QED BY <1>1, <1>2, <2>1, <2>2 DEF Base, TypeOK, Runs
<1>4. ScreenOK' /\ EffectOK' /\ WritesFit(queue)' /\ StoresFit' /\ PlaceOK'
  BY <1>1, <1>2 DEF Base, ScreenOK, EffectOK, WritesFit, StoresFit, PlaceOK
<1>5. RunOK'
  BY <1>1, <1>2 DEF Base, RunOK, NoRun, Asked
<1>6. heard'["account"] = heard["account"] /\ (heard["send"] = "waiting" => heard'["send"] = "waiting")
      /\ heard'["send"] = "none"
  BY <1>1, <1>2 DEF Base, WaitsOK
<1>7. MarksOK(queue, heard)' /\ WaitsOK'
  BY <1>1, <1>2, <1>6 DEF Base, MarksOK, WaitsOK
<1> QED BY <1>1, <1>3, <1>4, <1>5, <1>7, Idle DEF IInv, Base

LEMMA AskKeeps ==
    ASSUME IInv, Ask
    PROVE  IInv'
<1> DEFINE asked == With(shown, run.session, {"question"})
           q1 == Append(queue, Write(screen, asked, {}))
           q2 == Append(queue, Write(screen, asked, {"send"}))
<1>1. /\ send = "preparing" /\ run.current /\ send' = "storing"
      /\ Render(screen, loaded, asked, running, q2, scheduled)
      /\ heard' = [heard EXCEPT !["send"] = "waiting"]
      /\ UNCHANGED <<active, failedTail, run, abort, next, changing, host>>
  BY DEF Ask
<1>2. /\ Base /\ TypeOK /\ ScreenOK /\ EffectOK /\ queue \in Seq(Writes) /\ TimerFits(scheduled)
      /\ heard \in [Waiter -> {"none", "waiting", "ok", "failed"}] /\ running \in BOOLEAN
      /\ WritesFit(queue) /\ MarksOK(queue, heard) /\ screen \in Account \cup {None}
  BY TimerTyped DEF IInv, Base, TypeOK
<1>3. /\ run.session \in Session /\ run.n \in 1 .. MaxRun /\ transition.at = "none"
      /\ screen # None /\ Mine = screen /\ loaded = screen /\ ~running /\ heard["send"] = "none"
      /\ Owner(active) = loaded /\ Fits(loaded, shown) /\ call.at = "none"
  BY <1>1, <1>2 DEF Base, RunOK, PlaceOK, WaitsOK, ScreenOK, Mine, Asked
<1>4. asked = shown \cup {Question}
  BY <1>3 DEF With, Mine, Question
<1>5. Fits(loaded, asked)
  <2>1. Question \in Said /\ Owner(Question[1]) = loaded
        /\ <<Question[1], Question[2], "question">> = Question
    BY <1>3 DEF Question, Said, Part, Mine
  <2> QED BY <1>3, <1>4, <2>1 DEF Fits
<1> HIDE DEF asked
<1>6. /\ q1 \in Seq(Writes) /\ WritesFit(q1) /\ MarksOK(q1, heard) /\ q1 # <<>>
  <2>1. Grown(queue, q1, None, None)
    BY <1>2, <1>3, <1>5, OneMore
  <2>2. Write(screen, asked, {}) \in Writes
    BY <1>2, <1>3, <1>5 DEF Write, Writes, Fits, Stores
  <2>3. q1 # <<>>
    BY <1>2, <2>2, Appending, Positions
  <2> QED BY <1>2, <2>1, <2>3, GrowingKeeps
<1>7. q2 = Await("send", q1)
  <2> DEFINE v == Write(screen, asked, {})
             w == Write(screen, asked, {"send"})
  <2>1. v \in Writes /\ w \in Writes
    BY <1>2, <1>3, <1>5 DEF Write, Writes, Fits, Stores
  <2>2. [v EXCEPT !.for = @ \cup {"send"}] = w
    BY DEF Write
  <2> HIDE DEF v, w
  <2>3. q1 = Append(queue, v) /\ q2 = Append(queue, w)
    BY DEF v, w
  <2>4. q1[Len(q1)] = v
    BY <1>2, <2>1, <2>3, Appending
  <2>5. [q1 EXCEPT ![Len(q1)] = w] = q2
    <3>1. [Append(queue, v) EXCEPT ![Len(Append(queue, v))] = w] = Append(queue, w)
      BY <1>2, <2>1, Replacing
    <3> QED BY <2>3, <3>1
  <2>6. Await("send", q1) = [q1 EXCEPT ![Len(q1)] = [v EXCEPT !.for = @ \cup {"send"}]]
    BY <1>6, <2>4 DEF Await
  <2> QED BY <2>2, <2>5, <2>6
<1>8. heard' = Told("send", q1)
  BY <1>1, <1>6 DEF Told
<1> HIDE DEF q1, q2
<1>9. q2 \in Seq(Writes) /\ WritesFit(q2) /\ MarksOK(q2, heard')
  BY <1>2, <1>3, <1>6, <1>7, <1>8, Marking
<1>10. /\ ScreenTyped' /\ ScreenOK' /\ EffectOK' /\ WritesFit(queue)' /\ StoresFit'
       /\ MarksOK(queue, heard)'
       /\ screen' = screen /\ loaded' = loaded /\ shown' = asked /\ running' = running
  <2>1. active' = active /\ saved' = saved
    BY <1>1 DEF host
  <2>2. (loaded # None => Fits(loaded, asked)) /\ (loaded = None => asked = {})
    BY <1>2, <1>3, <1>5
  <2>3. IInv /\ Render(screen, loaded, asked, running, q2, scheduled)
    BY <1>1
  <2>4. running \in BOOLEAN /\ TimerFits(scheduled)
    BY <1>2
  <2> QED BY ONLY <1>9, <2>1, <2>2, <2>3, <2>4, RenderBase
<1> USE DEF changing, host
<1>11. TypeOK'
  BY <1>1, <1>2, <1>10 DEF TypeOK, ScreenTyped
<1>12. PlaceOK' /\ RunOK' /\ WaitsOK'
  BY <1>1, <1>2, <1>3, <1>10 DEF Base, PlaceOK, RunOK, WaitsOK, Asked
<1>13. effect' # None /\ scheduled' = None
  <2>1. effect' # None /\ scheduled' = Delayed(effect, scheduled)
    BY <1>1, <1>2, <1>3, <1>5, <1>9, Rendering
  <2>2. effect = None => scheduled = None
    BY <1>2, <1>3 DEF EffectOK
  <2> QED BY <1>2, <1>3, <2>1, <2>2, EffectDelays
<1>14. QuestionOK'
  <2>1. Question' = Question /\ Question \in asked
    BY <1>1, <1>4 DEF Question
  <2> QED BY <1>1, <1>10, <1>13, <2>1 DEF QuestionOK, TimerHas, Asked
<1> QED BY <1>10, <1>11, <1>12, <1>14 DEF IInv, Base

LEMMA StartKeeps ==
    ASSUME IInv, Start
    PROVE  IInv'
<1>1. /\ send = "storing" /\ heard["send"] = "ok" /\ run.current
      /\ heard' = [heard EXCEPT !["send"] = "none"]
      /\ abort' = "ready" /\ send' = "starting"
      /\ Render(screen, loaded, shown, TRUE, queue, scheduled)
      /\ UNCHANGED <<active, failedTail, run, next, changing, host>>
  BY DEF Start
<1>2. /\ Base /\ TypeOK /\ ScreenOK /\ EffectOK /\ queue \in Seq(Writes) /\ TimerFits(scheduled)
      /\ heard \in [Waiter -> {"none", "waiting", "ok", "failed"}] /\ screen \in Account \cup {None}
      /\ WritesFit(queue) /\ MarksOK(queue, heard) /\ (loaded = None => shown = {})
      /\ (loaded # None => Fits(loaded, shown) /\ loaded = screen)
  BY TimerTyped DEF IInv, Base, TypeOK, ScreenOK
<1>3. /\ run.session \in Session /\ run.n \in 1 .. MaxRun /\ transition.at = "none"
      /\ screen # None /\ Mine = screen /\ loaded = screen /\ ~running /\ call.at = "none"
  BY <1>1, <1>2 DEF Base, RunOK, PlaceOK, Mine, Asked
<1>4. heard'["account"] = heard["account"] /\ heard'["send"] = "none"
      /\ heard' \in [Waiter -> {"none", "waiting", "ok", "failed"}]
  BY <1>1, <1>2
<1>5. MarksOK(queue, heard')
  BY <1>1, <1>2, <1>4 DEF MarksOK
<1>6. /\ ScreenTyped' /\ ScreenOK' /\ EffectOK' /\ WritesFit(queue)' /\ StoresFit'
      /\ MarksOK(queue, heard)'
      /\ screen' = screen /\ loaded' = loaded /\ shown' = shown /\ running'
  <2>1. active' = active /\ saved' = saved /\ Render(screen, loaded, shown, TRUE, queue, scheduled)
    BY <1>1 DEF host
  <2> QED BY <1>2, <1>5, <2>1, RenderBase
<1> USE DEF changing, host
<1>7. TypeOK'
  BY <1>1, <1>2, <1>4, <1>6 DEF TypeOK, ScreenTyped
<1>8. PlaceOK' /\ RunOK' /\ WaitsOK'
  BY <1>1, <1>2, <1>3, <1>4, <1>6 DEF Base, PlaceOK, RunOK, WaitsOK, Asked
<1>9. queue' = Chained(effect, queue) /\ scheduled' = Delayed(effect, scheduled)
  BY <1>1 DEF Render
<1>10. Mine' = Mine /\ Question' = Question
  BY <1>1 DEF Mine, Question
<1>11. Question \in shown /\ TimerHas(scheduled) /\ (effect # None \/ Ends(queue))
  BY <1>1 DEF IInv, QuestionOK
<1>12. TimerHas(scheduled)'
  <2>1. TimerHas(scheduled')
    BY <1>2, <1>3, <1>9, <1>11, EffectDelays
  <2> QED BY <1>10, <2>1 DEF TimerHas
<1>13. Ends(queue)'
  <2>1. CASE effect = None
    <3>1. queue' = queue
      BY <1>9, <2>1 DEF Chained
    <3> QED BY <1>1, <1>10, <1>11, <2>1, <3>1 DEF Ends
  <2>2. CASE effect # None
    <3>1. /\ Grown(queue, queue', Mine, Question) /\ OwnOnly(queue, queue', Mine)
          /\ Len(queue') > Len(queue)
      BY <1>2, <1>3, <1>9, <1>11, <2>2, ChainGrows
    <3>2. queue' \in Seq(Writes)
      BY <1>6 DEF ScreenTyped
    <3>3. queue' # <<>> /\ queue' # queue
      BY <1>2, <3>1, <3>2, Positions
    <3>4. LastHas(queue', Mine, Question)
      BY <1>2, <3>1, <3>3, GrowingKeeps
    <3> QED BY <1>10, <3>3, <3>4 DEF Ends
  <2> QED BY <2>1, <2>2
<1>14. QuestionOK'
  BY <1>1, <1>3, <1>6, <1>10, <1>11, <1>12, <1>13 DEF QuestionOK, Bound, BoundAt
<1> QED BY <1>6, <1>7, <1>8, <1>14 DEF IInv, Base

LEMMA FlushKeeps ==
    ASSUME IInv, Flush
    PROVE  IInv'
<1>1. /\ send = "starting" /\ send' = "flushing"
      /\ queue' = Await("send", queue) /\ heard' = Told("send", queue)
      /\ UNCHANGED <<display, effect, scheduled, failedTail, run, abort, next, changing, host>>
  BY DEF Flush
<1>2. /\ Base /\ TypeOK /\ queue \in Seq(Writes)
      /\ heard \in [Waiter -> {"none", "waiting", "ok", "failed"}]
      /\ WritesFit(queue) /\ MarksOK(queue, heard) /\ heard["send"] = "none"
  BY <1>1 DEF IInv, Base, TypeOK, WaitsOK
<1>3. /\ queue' \in Seq(Writes) /\ (queue' = <<>> <=> queue = <<>>)
      /\ WritesFit(queue') /\ MarksOK(queue', heard')
      /\ AllHave(queue, 1, Mine, Question) => AllHave(queue', 1, Mine, Question)
      /\ AwaitedHas("account", queue, Mine, Question) => AwaitedHas("account", queue', Mine, Question)
      /\ LastHas(queue, Mine, Question) => LastHas(queue', Mine, Question)
      /\ LastHas(queue, Mine, Question) /\ queue # <<>> => AwaitedHas("send", queue', Mine, Question)
  BY <1>1, <1>2, Marking
<1>4. /\ heard'["account"] = heard["account"]
      /\ heard' \in [Waiter -> {"none", "waiting", "ok", "failed"}]
      /\ heard'["send"] = IF queue # <<>> THEN "waiting" ELSE IF failedTail THEN "failed" ELSE "ok"
  BY <1>1, <1>2 DEF Told
<1> USE DEF display, changing, host
<1>5. TypeOK'
  BY <1>1, <1>2, <1>3, <1>4 DEF TypeOK
<1>6. ScreenOK' /\ EffectOK' /\ StoresFit' /\ PlaceOK'
  BY <1>1, <1>2 DEF Base, ScreenOK, EffectOK, StoresFit, PlaceOK
<1>7. RunOK' /\ WaitsOK'
  BY <1>1, <1>2, <1>4 DEF Base, RunOK, WaitsOK, Asked
<1>8. WritesFit(queue)' /\ MarksOK(queue, heard)'
  BY <1>3 DEF WritesFit, MarksOK
<1>9. Mine' = Mine /\ Question' = Question
  BY <1>1 DEF Mine, Question
<1>10. /\ loaded = Mine => Question \in shown
       /\ Lasting \/ Bound
       /\ transition.at = "flushing" => Awaits("account")
       /\ transition.at \in {"host", "changed", "emptied"} => Lasting
  BY <1>1 DEF IInv, QuestionOK, Asked
<1>11. Lasting => Lasting'
  BY <1>1, <1>3, <1>9 DEF Lasting, LastingAt, Covered
<1>12. Bound => Bound'
  BY <1>1, <1>3, <1>9 DEF Bound, BoundAt, TimerHas, Ends
<1>13. Awaits("account") => Awaits("account")'
  BY <1>3, <1>4, <1>9, <1>11 DEF Awaits
<1>14. Awaits("send")'
  <2>1. CASE queue = <<>>
    <3>1. ~failedTail => Lasting
      <4>1. AllHave(queue, 1, Mine, Question)
        BY <2>1 DEF AllHave
      <4> QED BY <1>10, <2>1, <4>1 DEF Lasting, LastingAt, Bound, BoundAt, Ends, TimerHas, Covered
    <3> QED BY <1>4, <1>11, <2>1, <3>1 DEF Awaits
  <2>2. CASE queue # <<>>
    BY <1>3, <1>4, <1>9, <1>10, <1>11, <2>2 DEF Awaits, Bound, BoundAt, Ends
  <2> QED BY <2>1, <2>2
<1>15. QuestionOK'
  BY <1>1, <1>9, <1>10, <1>11, <1>12, <1>13, <1>14 DEF QuestionOK
<1> QED BY <1>5, <1>6, <1>7, <1>8, <1>15 DEF IInv, Base

LEMMA NoCallTyped ==
    /\ NoCall \in [at : {"none", "sent", "running", "over"}, cancelled : BOOLEAN, ok : BOOLEAN]
    /\ NoCall.at = "none"
  BY DEF NoCall

\* The call goes out, and its answer comes.
LEMMA CallKeeps ==
    ASSUME IInv, Call \/ Reply
    PROVE  IInv'
<1>1. /\ \/ /\ send = "flushing" /\ heard["send"] = "ok" /\ send' = "calling"
            /\ heard' = [heard EXCEPT !["send"] = "none"] /\ call' = [NoCall EXCEPT !.at = "sent"]
         \/ send = "calling" /\ send' = "refreshing" /\ heard' = heard /\ call' = NoCall
      /\ UNCHANGED <<display, writes, failedTail, run, abort, next, changing,
                     hostAccount, saved, cancelling, faults>>
  <2>1. CASE Call
    BY <2>1 DEF Call
  <2>2. CASE Reply
    BY <2>2 DEF Reply
  <2> QED BY <2>1, <2>2
<1>2. Base /\ TypeOK /\ QuestionOK /\ heard \in [Waiter -> {"none", "waiting", "ok", "failed"}]
  BY DEF IInv, Base, TypeOK
<1>3. /\ heard'["account"] = heard["account"] /\ heard'["send"] = "none"
      /\ heard' \in [Waiter -> {"none", "waiting", "ok", "failed"}]
  BY <1>1, <1>2 DEF Base, WaitsOK
<1> USE DEF display, writes, changing
<1>4. TypeOK'
  <2>1. call' \in [at : {"none", "sent", "running", "over"}, cancelled : BOOLEAN, ok : BOOLEAN]
    BY <1>1, NoCallTyped
  <2> QED BY <1>1, <1>2, <1>3, <2>1 DEF TypeOK
<1>5. ScreenOK' /\ EffectOK' /\ WritesFit(queue)' /\ StoresFit' /\ PlaceOK'
  BY <1>1, <1>2 DEF Base, ScreenOK, EffectOK, WritesFit, StoresFit, PlaceOK
<1>6. RunOK' /\ WaitsOK'
  BY <1>1, <1>2, <1>3 DEF Base, RunOK, WaitsOK, Asked, NoCall
<1>7. MarksOK(queue, heard)'
  <2>1. heard["send"] # "waiting"
    BY <1>1, <1>2 DEF Base, WaitsOK
  <2> QED BY <1>1, <1>2, <1>3, <2>1 DEF Base, MarksOK
<1>8. Lasting /\ (loaded = Mine => Question \in shown)
      /\ (transition.at = "flushing" => Awaits("account"))
  BY <1>1, <1>2 DEF QuestionOK, Awaits, Asked
<1>9. Lasting' /\ (Awaits("account") => Awaits("account")')
  BY <1>1, <1>3, <1>8 DEF Lasting, LastingAt, Covered, Awaits, Mine, Question
<1>10. QuestionOK'
  BY <1>1, <1>8, <1>9 DEF QuestionOK, Mine, Question
<1> QED BY <1>4, <1>5, <1>6, <1>7, <1>10 DEF IInv, Base

\* The send ends: the answer, or what came of it, is shown.
LEMMA DoneKeeps ==
    ASSUME IInv, Answer \/ Broken
    PROVE  IInv'
<1>1. PICK parts \in SUBSET Part : Done(parts)
  <2>1. Streamed(run.streamed) \in SUBSET Part
    BY DEF Streamed, Part
  <2>2. CASE Answer
    <3>1. {"answer"} \cup Streamed(run.streamed) \in SUBSET Part
      BY <2>1 DEF Part
    <3> QED BY <2>2, <3>1 DEF Answer
  <2>3. CASE Broken
    <3>1. Streamed(run.streamed) \cup (IF run.streamed > 0 THEN {"cut"} ELSE {}) \in SUBSET Part
      BY <2>1 DEF Part
    <3> QED BY <2>3, <3>1 DEF Broken
  <2> QED BY <2>2, <2>3
<1> DEFINE store == With(shown, run.session, parts)
<1>2. /\ Render(screen, loaded, store, FALSE, queue, scheduled)
      /\ abort' = "none" /\ send' = "idle" /\ run' = NoRun
  BY <1>1 DEF Done, Finish
<1>3. /\ send \in Asked
      /\ \/ heard' = heard /\ send = "refreshing" /\ call' = call
         \/ /\ heard' = [heard EXCEPT !["send"] = "none"] /\ call' = NoCall
            /\ heard["send"] = "failed" \/ send = "calling"
      /\ UNCHANGED <<active, failedTail, next, changing, hostAccount, saved, cancelling, faults>>
  <2>1. CASE Answer
    BY <2>1 DEF Answer, Asked, host
  <2>2. CASE Broken
    BY <2>2 DEF Broken, Asked
  <2> QED BY <2>1, <2>2
<1>4. /\ Base /\ TypeOK /\ queue \in Seq(Writes) /\ TimerFits(scheduled)
      /\ heard \in [Waiter -> {"none", "waiting", "ok", "failed"}]
      /\ WritesFit(queue) /\ MarksOK(queue, heard)
  BY TimerTyped DEF IInv, Base, TypeOK
<1>5. /\ heard'["account"] = heard["account"] /\ heard'["send"] = "none"
      /\ heard["send"] # "waiting" /\ call'.at = "none"
      /\ heard' \in [Waiter -> {"none", "waiting", "ok", "failed"}]
  BY <1>3, <1>4 DEF Base, WaitsOK, RunOK, NoCall
<1>6. MarksOK(queue, heard')
  BY <1>4, <1>5 DEF MarksOK
<1>7. /\ loaded # None => Fits(loaded, store)
      /\ loaded = None => store = {}
  BY <1>3, Saying
<1> HIDE DEF store
<1>8. /\ ScreenTyped' /\ ScreenOK' /\ EffectOK' /\ WritesFit(queue)' /\ StoresFit'
      /\ MarksOK(queue, heard)'
      /\ screen' = screen /\ loaded' = loaded /\ ~running'
  <2>1. active' = active /\ saved' = saved /\ Render(screen, loaded, store, FALSE, queue, scheduled)
    BY <1>2, <1>3
  <2> QED BY <1>4, <1>6, <1>7, <2>1, RenderBase
<1> USE DEF changing
<1>9. TypeOK'
  <2>1. run' \in Runs
    BY <1>2 DEF Runs, NoRun
  <2>2. call' \in [at : {"none", "sent", "running", "over"}, cancelled : BOOLEAN, ok : BOOLEAN]
    BY <1>3, <1>4, NoCallTyped DEF TypeOK
  <2> QED BY <1>2, <1>3, <1>4, <1>5, <1>8, <2>1, <2>2 DEF TypeOK, ScreenTyped, Runs
<1>10. PlaceOK' /\ RunOK' /\ WaitsOK'
  BY <1>2, <1>3, <1>4, <1>5, <1>8 DEF Base, PlaceOK, RunOK, WaitsOK, NoRun
<1> QED BY <1>2, <1>8, <1>9, <1>10, Idle DEF IInv, Base

\* What streams in is kept, and shown.
LEMMA DeltaKeeps ==
    ASSUME IInv, Delta
    PROVE  IInv'
<1>1. /\ run.streamed < MaxDelta /\ run' = [run EXCEPT !.streamed = @ + 1]
      /\ UNCHANGED <<display, writes, failedTail, heard, send, abort, next, changing, host>>
  BY DEF Delta
<1>2. Base /\ TypeOK /\ run \in Runs
  BY DEF IInv, Base, TypeOK, Runs
<1>3. /\ run' \in Runs /\ run'.session = run.session /\ run'.n = run.n
      /\ run'.current = run.current
  BY <1>1, <1>2 DEF Runs
<1> USE DEF display, writes, changing, host
<1>4. TypeOK'
  BY <1>1, <1>2, <1>3 DEF TypeOK, Runs
<1>5. ScreenOK' /\ EffectOK' /\ WritesFit(queue)' /\ StoresFit' /\ PlaceOK'
  BY <1>1, <1>2 DEF Base, ScreenOK, EffectOK, WritesFit, StoresFit, PlaceOK
<1>6. RunOK' /\ MarksOK(queue, heard)' /\ WaitsOK'
  BY <1>1, <1>2, <1>3 DEF Base, RunOK, MarksOK, WaitsOK
<1>7. Known => Grown(queue, queue', Mine, Question) /\ OwnOnly(queue, queue', Mine)
               /\ Covered(scheduled')
  BY <1>1, <1>2, GrownItself, KnownFacts DEF TypeOK
<1>8. QuestionOK'
  BY <1>1, <1>3, <1>7, Steady
<1> QED BY <1>4, <1>5, <1>6, <1>8 DEF IInv, Base

LEMMA ShowDeltaKeeps ==
    ASSUME IInv, ShowDelta
    PROVE  IInv'
<1> DEFINE store == With(shown, run.session, Streamed(run.streamed))
<1>1. /\ send = "calling" /\ run.drawn < run.streamed
      /\ Render(screen, loaded, store, running, queue, scheduled)
      /\ run' = [run EXCEPT !.drawn = @ + 1]
      /\ UNCHANGED <<active, failedTail, heard, send, abort, next, changing, host>>
  BY DEF ShowDelta
<1>2. /\ Base /\ TypeOK /\ run \in Runs /\ queue \in Seq(Writes) /\ TimerFits(scheduled)
      /\ WritesFit(queue) /\ MarksOK(queue, heard) /\ running \in BOOLEAN
  BY TimerTyped DEF IInv, Base, TypeOK, Runs
<1>3. /\ run' \in Runs /\ run'.session = run.session /\ run'.n = run.n
      /\ run'.current = run.current
  BY <1>1, <1>2 DEF Runs
<1>4. /\ loaded # None => Fits(loaded, store)
      /\ loaded = None => store = {}
      /\ shown \subseteq store
  <2>1. Streamed(run.streamed) \in SUBSET Part
    BY DEF Streamed, Part
  <2> QED BY <1>1, <2>1, Saying DEF Asked
<1> HIDE DEF store
<1>5. heard' = heard /\ active' = active /\ saved' = saved /\ MarksOK(queue, heard')
  BY <1>1, <1>2 DEF host
<1>6. /\ ScreenTyped' /\ ScreenOK' /\ EffectOK' /\ WritesFit(queue)' /\ StoresFit'
      /\ MarksOK(queue, heard)'
      /\ screen' = screen /\ loaded' = loaded /\ running' = running
  BY <1>1, <1>2, <1>4, <1>5, RenderBase
<1> USE DEF changing, host
<1>7. TypeOK'
  BY <1>1, <1>2, <1>3, <1>6 DEF TypeOK, ScreenTyped, Runs
<1>8. PlaceOK' /\ RunOK' /\ WaitsOK'
  BY <1>1, <1>2, <1>3, <1>6 DEF Base, PlaceOK, RunOK, WaitsOK
<1>9. QuestionOK'
  BY <1>1, <1>2, <1>3, <1>4, <1>5, SteadyRender
<1> QED BY <1>6, <1>7, <1>8, <1>9 DEF IInv, Base

-----------------------------------------------------------------------------
(* Stopping, and changing the account.                                     *)

LEMMA AbortTyped ==
    ASSUME TypeOK, AbortNext, CancelNext
    PROVE  abort' \in {"none", "ready", "aborted"} /\ cancelling' \in BOOLEAN
<1>1. abort' \in {"none", "ready", "aborted"}
  BY DEF TypeOK, AbortNext
<1>2. cancelling' \in BOOLEAN
  BY DEF CancelNext
<1> QED BY <1>1, <1>2

LEMMA StopKeeps ==
    ASSUME IInv, Stop
    PROVE  IInv'
<1>1. /\ AbortNext /\ CancelNext
      /\ Render(screen, loaded, shown, FALSE, queue, scheduled)
      /\ UNCHANGED <<active, failedTail, heard, send, run, next, changing,
                     hostAccount, saved, call, faults>>
  BY DEF Stop
<1>2. /\ Base /\ TypeOK /\ queue \in Seq(Writes) /\ TimerFits(scheduled)
      /\ WritesFit(queue) /\ MarksOK(queue, heard)
      /\ (loaded # None => Fits(loaded, shown)) /\ (loaded = None => shown = {})
  BY TimerTyped DEF IInv, Base, TypeOK, ScreenOK
<1>3. heard' = heard /\ active' = active /\ saved' = saved /\ MarksOK(queue, heard')
  BY <1>1, <1>2
<1>4. /\ ScreenTyped' /\ ScreenOK' /\ EffectOK' /\ WritesFit(queue)' /\ StoresFit'
      /\ MarksOK(queue, heard)'
      /\ screen' = screen /\ loaded' = loaded /\ ~running'
  BY <1>1, <1>2, <1>3, RenderBase
<1> USE DEF changing
<1>5. TypeOK'
  BY <1>1, <1>2, <1>4, AbortTyped DEF TypeOK, ScreenTyped
<1>6. PlaceOK' /\ RunOK' /\ WaitsOK'
  BY <1>1, <1>2, <1>4 DEF Base, PlaceOK, RunOK, WaitsOK
<1>7. QuestionOK'
  BY <1>1, <1>2, <1>3, SteadyRender
<1> QED BY <1>4, <1>5, <1>6, <1>7 DEF IInv, Base

\* Leaving the conversation of a run.
LEMMA LeaveFacts ==
    ASSUME TypeOK, run' = Leave(run)
    PROVE  /\ run' \in Runs /\ run'.session = run.session /\ run'.n = run.n
           /\ ~run'.current
  BY DEF TypeOK, Leave, Runs

LEMMA SwitchSessionKeeps ==
    ASSUME IInv, SwitchSession
    PROVE  IInv'
<1>1. /\ ~running /\ screen # None /\ loaded = screen
      /\ active' \in Session /\ Owner(active') = screen
      /\ run' = Leave(run)
      /\ Render(screen, loaded, shown, FALSE, queue, scheduled)
      /\ UNCHANGED <<failedTail, heard, send, abort, next, changing, host>>
  BY DEF SwitchSession
<1>2. /\ Base /\ TypeOK /\ queue \in Seq(Writes) /\ TimerFits(scheduled)
      /\ WritesFit(queue) /\ MarksOK(queue, heard)
      /\ (loaded # None => Fits(loaded, shown)) /\ (loaded = None => shown = {})
  BY TimerTyped DEF IInv, Base, TypeOK, ScreenOK
<1>3. heard' = heard /\ saved' = saved /\ MarksOK(queue, heard')
  BY <1>1, <1>2 DEF host
<1>4. /\ ScreenTyped' /\ ScreenOK' /\ EffectOK' /\ WritesFit(queue)' /\ StoresFit'
      /\ MarksOK(queue, heard)'
      /\ screen' = screen /\ loaded' = loaded /\ ~running'
  BY <1>1, <1>2, <1>3, RenderBase
<1>5. /\ run' \in Runs /\ run'.session = run.session /\ run'.n = run.n
      /\ ~run'.current
  BY <1>1, <1>2, LeaveFacts
<1> USE DEF changing, host
<1>6. TypeOK'
  BY <1>1, <1>2, <1>4, <1>5 DEF TypeOK, ScreenTyped, Runs
<1>7. PlaceOK' /\ RunOK' /\ WaitsOK'
  BY <1>1, <1>2, <1>4, <1>5 DEF Base, PlaceOK, RunOK, WaitsOK
<1>8. QuestionOK'
  BY <1>1, <1>2, <1>3, <1>5, SteadyRender
<1> QED BY <1>4, <1>6, <1>7, <1>8 DEF IInv, Base

\* The timer's write joins the queue, and the change of account waits for all.
LEMMA Waited ==
    ASSUME IInv, heard["account"] = "none", NEW q, q = Await("account", Flushed)
    PROVE  /\ q \in Seq(Writes) /\ WritesFit(q) /\ MarksOK(q, Told("account", Flushed))
           /\ Told("account", Flushed) \in [Waiter -> {"none", "waiting", "ok", "failed"}]
           /\ Told("account", Flushed)["send"] = heard["send"]
           /\ Told("account", Flushed)["account"] =
                IF Flushed # <<>> THEN "waiting" ELSE IF failedTail THEN "failed" ELSE "ok"
           /\ send \in Asked =>
                /\ Lasting => LastingAt(q, None)
                /\ Bound => BoundAt(q, None)
                /\ AwaitedHas("send", queue, Mine, Question) => AwaitedHas("send", q, Mine, Question)
                /\ Flushed # <<>> => Lasting \/ AwaitedHas("account", q, Mine, Question)
                /\ Flushed = <<>> /\ ~failedTail => LastingAt(q, None)
<1>1. /\ TypeOK /\ StoresFit /\ WritesFit(queue) /\ MarksOK(queue, heard)
      /\ queue \in Seq(Writes)
      /\ heard \in [Waiter -> {"none", "waiting", "ok", "failed"}]
  BY DEF IInv, Base, TypeOK
<1>2. Flushed \in Seq(Writes) /\ WritesFit(Flushed) /\ MarksOK(Flushed, heard)
  BY <1>1, TimerKeeps
<1>3. q \in Seq(Writes) /\ WritesFit(q) /\ MarksOK(q, Told("account", Flushed))
  BY <1>1, <1>2, Marking
<1>4. /\ Told("account", Flushed) \in [Waiter -> {"none", "waiting", "ok", "failed"}]
      /\ Told("account", Flushed)["send"] = heard["send"]
      /\ Told("account", Flushed)["account"] =
           IF Flushed # <<>> THEN "waiting" ELSE IF failedTail THEN "failed" ELSE "ok"
  BY <1>1 DEF Told
<1>5. ASSUME send \in Asked
      PROVE  /\ Lasting => LastingAt(q, None)
             /\ Bound => BoundAt(q, None)
             /\ AwaitedHas("send", queue, Mine, Question) => AwaitedHas("send", q, Mine, Question)
             /\ Flushed # <<>> => Lasting \/ AwaitedHas("account", q, Mine, Question)
             /\ Flushed = <<>> /\ ~failedTail => LastingAt(q, None)
  <2>1. Covered(scheduled) /\ (Lasting \/ Bound)
    BY <1>5, KnownFacts DEF Known, IInv, QuestionOK
  <2>2. /\ Grown(queue, Flushed, Mine, Question)
        /\ TimerHas(scheduled) => OwnOnly(queue, Flushed, Mine)
        /\ Flushed = <<>> => queue = <<>>
    BY <1>1, <2>1, TimerGrows DEF Covered, TimerHas
  <2>3. /\ AllHave(queue, 1, Mine, Question) => AllHave(Flushed, 1, Mine, Question)
        /\ AwaitedHas("send", queue, Mine, Question) => AwaitedHas("send", Flushed, Mine, Question)
        /\ TimerHas(scheduled) /\ LastHas(queue, Mine, Question) => LastHas(Flushed, Mine, Question)
    BY <1>1, <2>2, GrowingKeeps
  <2>4. /\ q = <<>> <=> Flushed = <<>>
        /\ AllHave(Flushed, 1, Mine, Question) => AllHave(q, 1, Mine, Question)
        /\ AwaitedHas("send", Flushed, Mine, Question) => AwaitedHas("send", q, Mine, Question)
        /\ LastHas(Flushed, Mine, Question) => LastHas(q, Mine, Question)
        /\ LastHas(Flushed, Mine, Question) /\ Flushed # <<>> => AwaitedHas("account", q, Mine, Question)
    BY <1>1, <1>2, Marking
  <2>5. Lasting => LastingAt(q, None)
    BY <2>3, <2>4 DEF Lasting, LastingAt, Covered
  <2>6. Bound => BoundAt(q, None)
    BY <2>2, <2>3, <2>4 DEF Bound, BoundAt, Ends, TimerHas
  <2>7. Flushed # <<>> => Lasting \/ AwaitedHas("account", q, Mine, Question)
    BY <2>1, <2>3, <2>4 DEF Bound, BoundAt, Ends
  <2>8. Flushed = <<>> /\ ~failedTail => LastingAt(q, None)
    <3>1. q = <<>> => AllHave(q, 1, Mine, Question)
      BY DEF AllHave
    <3>2. Bound /\ Flushed = <<>> /\ ~failedTail => Question \in saved[Mine]
      BY <2>2 DEF Bound, BoundAt, Ends
    <3> QED BY <2>1, <2>4, <2>5, <3>1, <3>2 DEF LastingAt, Covered
  <2> QED BY <2>3, <2>4, <2>5, <2>6, <2>7, <2>8
<1> QED BY <1>3, <1>4, <1>5

LEMMA ChangeAccountKeeps ==
    ASSUME IInv, ChangeAccount
    PROVE  IInv'
<1> DEFINE q == Await("account", Flushed)
<1>1. /\ transition.at = "none"
      /\ transition'.at = "flushing"
      /\ transition' \in [at : {"none", "flushing", "host", "changed", "emptied"},
                          to : Account \cup {None}]
      /\ run' = Leave(run) /\ AbortNext /\ CancelNext
      /\ \/ Render(screen, loaded, shown, FALSE, q, None)
         \/ /\ queue' = q /\ scheduled' = None
            /\ UNCHANGED <<screen, loaded, shown, running, effect>>
      /\ heard' = Told("account", Flushed)
      /\ UNCHANGED <<active, failedTail, send, next, settle,
                     hostAccount, saved, call, faults>>
  <2>1. PICK a \in Account \cup {None} : transition' = [at |-> "flushing", to |-> a]
    BY DEF ChangeAccount
  <2>2. IF Aborts THEN Render(screen, loaded, shown, FALSE, q, None)
        ELSE /\ queue' = q /\ scheduled' = None
             /\ UNCHANGED <<screen, loaded, shown, running, effect>>
    BY DEF ChangeAccount
  <2> HIDE DEF q
  <2>3. \/ Render(screen, loaded, shown, FALSE, q, None)
        \/ /\ queue' = q /\ scheduled' = None
           /\ UNCHANGED <<screen, loaded, shown, running, effect>>
    BY <2>2
  <2>4. /\ transition.at = "none" /\ run' = Leave(run) /\ AbortNext /\ CancelNext
        /\ heard' = Told("account", Flushed)
        /\ UNCHANGED <<active, failedTail, send, next, settle,
                       hostAccount, saved, call, faults>>
    BY DEF ChangeAccount
  <2> QED BY <2>1, <2>3, <2>4
<1>2. /\ Base /\ TypeOK /\ ScreenOK /\ EffectOK /\ StoresFit /\ heard["account"] = "none"
      /\ screen \in Account \cup {None} /\ TimerFits(None)
      /\ (loaded # None => Fits(loaded, shown) /\ loaded = screen) /\ (loaded = None => shown = {})
  BY <1>1 DEF IInv, Base, TypeOK, ScreenOK, WaitsOK, TimerFits
<1>3. /\ q \in Seq(Writes) /\ WritesFit(q) /\ MarksOK(q, heard')
      /\ heard' \in [Waiter -> {"none", "waiting", "ok", "failed"}]
      /\ heard'["send"] = heard["send"]
      /\ heard'["account"] = IF Flushed # <<>> THEN "waiting" ELSE IF failedTail THEN "failed" ELSE "ok"
  BY <1>1, <1>2, Waited
<1>4. /\ run' \in Runs /\ run'.session = run.session /\ run'.n = run.n
      /\ ~run'.current
  BY <1>1, <1>2, LeaveFacts
<1>5. Mine' = Mine /\ Question' = Question
  BY <1>4 DEF Mine, Question
<1>6. send \in Asked =>
        /\ Lasting => LastingAt(q, None)
        /\ Bound => BoundAt(q, None)
        /\ AwaitedHas("send", queue, Mine, Question) => AwaitedHas("send", q, Mine, Question)
        /\ Flushed # <<>> => Lasting \/ AwaitedHas("account", q, Mine, Question)
        /\ Flushed = <<>> /\ ~failedTail => LastingAt(q, None)
  BY <1>2, Waited
<1> HIDE DEF q
<1>7. /\ ScreenTyped' /\ ScreenOK' /\ EffectOK' /\ WritesFit(queue)' /\ StoresFit'
      /\ MarksOK(queue, heard)'
      /\ screen' = screen /\ loaded' = loaded /\ shown' = shown
      /\ running' => running
  <2>1. CASE Render(screen, loaded, shown, FALSE, q, None)
    <3>1. active' = active /\ saved' = saved
      BY <1>1
    <3> QED BY <1>2, <1>3, <2>1, <3>1, RenderBase
  <2>2. CASE /\ queue' = q /\ scheduled' = None
             /\ UNCHANGED <<screen, loaded, shown, running, effect>>
    <3>1. ScreenTyped'
      BY <1>2, <1>3, <2>2 DEF ScreenTyped, TypeOK
    <3> QED BY <1>1, <1>2, <1>3, <2>2, <3>1 DEF ScreenOK, EffectOK, WritesFit, StoresFit, MarksOK
  <2> QED BY <1>1, <2>1, <2>2
<1>8. TypeOK'
  BY <1>1, <1>2, <1>3, <1>4, <1>7, AbortTyped DEF TypeOK, ScreenTyped, Runs
<1>9. PlaceOK' /\ RunOK' /\ WaitsOK'
  BY <1>1, <1>2, <1>3, <1>4, <1>7 DEF Base, PlaceOK, RunOK, WaitsOK
<1>10. ASSUME send \in Asked
       PROVE  /\ AllHave(q, 1, Mine, Question) => AllHave(queue', 1, Mine, Question)
              /\ \A w \in {"send", "account"} :
                   AwaitedHas(w, q, Mine, Question) => AwaitedHas(w, queue', Mine, Question)
              /\ loaded = Mine /\ LastHas(q, Mine, Question) => LastHas(queue', Mine, Question)
              /\ queue' = <<>> => q = <<>>
              /\ Covered(scheduled') /\ (loaded = Mine => TimerHas(scheduled'))
  <2>1. loaded = Mine => Question \in shown
    BY <1>10, KnownFacts DEF Known
  <2>2. CASE Render(screen, loaded, shown, FALSE, q, None)
    <3>1. queue' = Chained(effect, q) /\ scheduled' = Delayed(effect, None)
      BY <2>2 DEF Render
    <3>2. /\ Grown(q, queue', Mine, Question)
          /\ loaded = Mine => OwnOnly(q, queue', Mine)
      BY <1>2, <1>3, <2>1, <3>1, ChainGrows
    <3>3. Covered(scheduled') /\ (loaded = Mine => TimerHas(scheduled'))
      <4>1. Covered(None) /\ TimerHas(None)
        BY DEF Covered, TimerHas
      <4> QED BY <1>2, <2>1, <3>1, <4>1, EffectDelays
    <3> QED BY <1>3, <3>2, <3>3, GrowingKeeps
  <2>3. CASE queue' = q /\ scheduled' = None
    BY <2>3 DEF Covered, TimerHas
  <2> QED BY <1>1, <2>2, <2>3
<1>11. ASSUME send \in Asked
       PROVE  /\ loaded' = Mine' => Question' \in shown'
              /\ Lasting' \/ Bound'
              /\ Awaits("account")'
              /\ send = "flushing" => Awaits("send")'
              /\ send \in {"calling", "refreshing"} => Lasting'
  <2>1. /\ loaded = Mine => Question \in shown
        /\ Lasting \/ Bound
        /\ send = "flushing" => Awaits("send")
        /\ send \in {"calling", "refreshing"} => Lasting
    BY <1>11 DEF IInv, QuestionOK
  <2>2. LastingAt(q, None) => Lasting'
    BY <1>1, <1>5, <1>10, <1>11 DEF Lasting, LastingAt, Covered
  <2>3. BoundAt(q, None) => Bound'
    BY <1>1, <1>5, <1>7, <1>10, <1>11 DEF Bound, BoundAt, Ends, TimerHas
  <2>4. Lasting' \/ Bound'
    BY <1>6, <1>11, <2>1, <2>2, <2>3
  <2>5. Awaits("account")'
    BY <1>3, <1>5, <1>6, <1>10, <1>11, <2>2 DEF Awaits
  <2>6. Awaits("send") => Awaits("send")'
    BY <1>3, <1>5, <1>6, <1>10, <1>11, <2>2 DEF Awaits
  <2> QED BY <1>5, <1>6, <1>7, <1>11, <2>1, <2>2, <2>4, <2>5, <2>6
<1>12. QuestionOK'
  BY <1>1, <1>4, <1>11 DEF QuestionOK, Asked
<1> QED BY <1>7, <1>8, <1>9, <1>12 DEF IInv, Base

LEMMA EmptyKeeps ==
    ASSUME IInv, Empty
    PROVE  IInv'
<1> DEFINE q == Await("account", Flushed)
<1>1. /\ transition.at = "changed" /\ transition' = [transition EXCEPT !.at = "emptied"]
      /\ Render(transition.to, None, {}, running, q, None)
      /\ active' = Fresh /\ heard' = Told("account", Flushed) /\ run' = Leave(run)
      /\ UNCHANGED <<failedTail, send, abort, next, settle, host>>
  BY DEF Empty
<1>2. /\ Base /\ TypeOK /\ ScreenOK /\ EffectOK /\ StoresFit /\ heard["account"] = "none"
      /\ transition.to \in Account \cup {None} /\ TimerFits(None) /\ running \in BOOLEAN
      /\ ~run.current /\ transition' = [at |-> "emptied", to |-> transition.to]
  BY <1>1 DEF IInv, Base, TypeOK, WaitsOK, TimerFits, RunOK
<1>3. /\ q \in Seq(Writes) /\ WritesFit(q) /\ MarksOK(q, heard')
      /\ heard' \in [Waiter -> {"none", "waiting", "ok", "failed"}]
      /\ heard'["send"] = heard["send"]
  BY <1>1, <1>2, Waited
<1>4. /\ run' \in Runs /\ run'.session = run.session /\ run'.n = run.n
      /\ ~run'.current
  BY <1>1, <1>2, LeaveFacts
<1>5. Mine' = Mine /\ Question' = Question
  BY <1>4 DEF Mine, Question
<1>6. send \in Asked =>
        /\ Lasting => LastingAt(q, None)
        /\ AwaitedHas("send", queue, Mine, Question) => AwaitedHas("send", q, Mine, Question)
  BY <1>2, Waited
<1> HIDE DEF q
<1>7. /\ screen' = transition.to /\ loaded' = None /\ shown' = {} /\ running' = running
      /\ effect' = None /\ EffectOK' /\ TimerFits(scheduled')
      /\ queue' = Chained(effect, q) /\ scheduled' = Delayed(effect, None)
      /\ queue' \in Seq(Writes) /\ WritesFit(queue') /\ MarksOK(queue', heard')
  BY <1>1, <1>2, <1>3, Rendering
<1> USE DEF host
<1>8. TypeOK'
  <2>1. transition' \in [at : {"none", "flushing", "host", "changed", "emptied"},
                         to : Account \cup {None}]
    BY <1>2
  <2>2. active' \in Session \cup {Fresh} /\ shown' \in Stores
        /\ (scheduled' = None \/ scheduled' \in [account : Account, store : Stores])
    BY <1>1, <1>7 DEF Stores, TimerFits
  <2> QED BY <1>1, <1>2, <1>3, <1>4, <1>7, <2>1, <2>2 DEF TypeOK, Runs
<1>9. ScreenOK' /\ WritesFit(queue)' /\ StoresFit' /\ MarksOK(queue, heard)'
  BY <1>1, <1>2, <1>7 DEF ScreenOK, WritesFit, StoresFit, MarksOK, TimerFits
<1>10. PlaceOK' /\ RunOK' /\ WaitsOK'
  BY <1>1, <1>2, <1>3, <1>4, <1>7 DEF Base, PlaceOK, RunOK, WaitsOK
<1>11. ASSUME send \in Asked
       PROVE  Lasting' /\ loaded' # Mine' /\ (send = "flushing" => Awaits("send")')
  <2>1. Mine \in Account /\ (loaded = Mine => Question \in shown)
        /\ Lasting
    BY <1>1, <1>11, KnownFacts DEF Known, IInv, QuestionOK
  <2>2. Grown(q, queue', Mine, Question)
    BY <1>2, <1>3, <1>7, <2>1, ChainGrows
  <2>3. AllHave(q, 1, Mine, Question) => AllHave(queue', 1, Mine, Question)
    BY <1>3, <2>2, GrowingKeeps
  <2>4. Covered(scheduled')
    <3>1. Covered(None)
      BY DEF Covered
    <3> QED BY <1>2, <1>7, <2>1, <3>1, EffectDelays
  <2>5. Lasting'
    BY <1>1, <1>5, <1>6, <1>11, <2>1, <2>3, <2>4 DEF Lasting, LastingAt, Covered
  <2> QED BY <1>5, <1>7, <2>1, <2>5 DEF Awaits
<1>12. QuestionOK'
  BY <1>1, <1>2, <1>4, <1>11 DEF QuestionOK, Asked
<1> QED BY <1>7, <1>8, <1>9, <1>10, <1>12 DEF IInv, Base

LEMMA LoadKeeps ==
    ASSUME IInv, Load
    PROVE  IInv'
<1>1. /\ transition.at = "emptied" /\ heard["account"] # "waiting"
      /\ heard' = [heard EXCEPT !["account"] = "none"]
      /\ transition' = [at |-> "none", to |-> None]
      /\ \/ screen = None /\ UNCHANGED <<display, writes>>
         \/ /\ screen # None /\ active' = <<screen, 1>>
            /\ Render(screen, screen, saved[hostAccount], running, queue, scheduled)
      /\ UNCHANGED <<failedTail, sending, settle, host>>
  BY DEF Load
<1>2. /\ Base /\ TypeOK /\ ScreenOK /\ EffectOK /\ StoresFit /\ queue \in Seq(Writes)
      /\ WritesFit(queue) /\ MarksOK(queue, heard) /\ running \in BOOLEAN
      /\ heard \in [Waiter -> {"none", "waiting", "ok", "failed"}]
      /\ screen \in Account \cup {None} /\ TimerFits(scheduled)
      /\ loaded = None /\ effect = None /\ hostAccount = screen /\ ~run.current
  BY <1>1, TimerTyped DEF IInv, Base, TypeOK, PlaceOK, RunOK, EffectOK
<1>3. /\ heard'["account"] = "none" /\ heard'["send"] = heard["send"]
      /\ heard' \in [Waiter -> {"none", "waiting", "ok", "failed"}]
  BY <1>1, <1>2
<1>4. MarksOK(queue, heard')
  BY <1>1, <1>2, <1>3 DEF MarksOK
<1> USE DEF sending, host
<1>5. queue' = queue /\ scheduled' = scheduled /\ screen' = screen /\ running' = running /\ loaded' = screen
  <2>1. Chained(effect, queue) = queue /\ Delayed(effect, scheduled) = scheduled
    BY <1>2 DEF Chained, Delayed
  <2> QED BY <1>1, <1>2, <2>1 DEF Render, display, writes
<1>6. /\ ScreenTyped' /\ ScreenOK' /\ EffectOK' /\ active' \in Session \cup {Fresh}
      /\ screen # None => shown' = saved[screen]
  <2>1. CASE screen = None
    BY <1>1, <1>2, <2>1 DEF display, writes, ScreenTyped, TypeOK, ScreenOK, EffectOK
  <2>2. CASE screen # None
    <3>1. Fits(screen, saved[screen]) /\ Render(screen, screen, saved[screen], running, queue, scheduled)
      BY <1>1, <1>2, <2>2 DEF StoresFit
    <3>2. /\ shown' = saved[screen] /\ shown' \in Stores
          /\ effect' = None \/ effect' \in Effect
          /\ EffectOK'
      BY <1>2, <2>2, <3>1, Rendering
    <3>3. Owner(active') = screen /\ active' \in Session
      BY <1>1, <1>2, <2>2 DEF Owner, Session
    <3>4. ScreenTyped'
      BY <1>2, <1>5, <3>2 DEF ScreenTyped, TypeOK
    <3>5. ScreenOK'
      BY <1>5, <2>2, <3>1, <3>2, <3>3 DEF ScreenOK
    <3> QED BY <3>2, <3>3, <3>4, <3>5
  <2> QED BY <2>1, <2>2
<1>7. TypeOK'
  BY <1>1, <1>2, <1>3, <1>6 DEF TypeOK, ScreenTyped
<1>8. WritesFit(queue)' /\ StoresFit' /\ MarksOK(queue, heard)'
  BY <1>1, <1>2, <1>4, <1>5 DEF WritesFit, StoresFit, MarksOK
<1>9. PlaceOK' /\ RunOK' /\ WaitsOK'
  BY <1>1, <1>2, <1>3, <1>5 DEF Base, PlaceOK, RunOK, WaitsOK
<1>10. send \in Asked => Lasting /\ Mine \in Account
  BY <1>1, KnownFacts DEF IInv, QuestionOK, Known
<1>11. send \in Asked => Lasting' /\ (loaded' = Mine' => Question' \in shown')
  BY <1>1, <1>2, <1>5, <1>6, <1>10 DEF Lasting, LastingAt, Covered, Mine, Question
<1>12. QuestionOK'
  BY <1>1, <1>2, <1>11 DEF QuestionOK, Asked, Awaits
<1> QED BY <1>6, <1>7, <1>8, <1>9, <1>12 DEF IInv, Base

LEMMA TransitionKeeps ==
    ASSUME IInv, TransitionFails \/ AskHost
    PROVE  IInv'
<1>1. /\ transition.at \in {"flushing", "host"} /\ heard["account"] # "waiting"
      /\ \/ transition' = [at |-> "none", to |-> None]
         \/ transition' = [at |-> "host", to |-> transition.to] /\ transition.at = "flushing"
              /\ heard["account"] = "ok"
      /\ heard' = [heard EXCEPT !["account"] = "none"]
      /\ UNCHANGED <<display, writes, failedTail, sending, settle, host>>
  <2>1. /\ transition.at = "host" => heard["account"] = "none"
        /\ transition = [at |-> transition.at, to |-> transition.to]
    BY DEF IInv, Base, WaitsOK, TypeOK
  <2>2. CASE TransitionFails
    BY <2>1, <2>2 DEF TransitionFails
  <2>3. CASE AskHost
    BY <2>1, <2>3 DEF AskHost
  <2> QED BY <2>2, <2>3
<1>2. /\ Base /\ TypeOK /\ QuestionOK /\ transition.to \in Account \cup {None}
      /\ heard \in [Waiter -> {"none", "waiting", "ok", "failed"}]
  BY DEF IInv, Base, TypeOK
<1>3. /\ heard'["account"] = "none" /\ heard'["send"] = heard["send"]
      /\ heard' \in [Waiter -> {"none", "waiting", "ok", "failed"}]
  BY <1>1, <1>2
<1> USE DEF display, writes, sending, host
<1>4. TypeOK'
  <2>1. transition' \in [at : {"none", "flushing", "host", "changed", "emptied"},
                         to : Account \cup {None}]
    BY <1>1, <1>2
  <2> QED BY <1>1, <1>2, <1>3, <2>1 DEF TypeOK
<1>5. ScreenOK' /\ EffectOK' /\ WritesFit(queue)' /\ StoresFit'
  BY <1>1, <1>2 DEF Base, ScreenOK, EffectOK, WritesFit, StoresFit
<1>6. transition'.at \in {"none", "host"}
  BY <1>1
<1>7. PlaceOK' /\ RunOK' /\ WaitsOK'
  BY <1>1, <1>2, <1>3, <1>6 DEF Base, PlaceOK, RunOK, WaitsOK
<1>8. MarksOK(queue, heard)'
  BY <1>1, <1>2, <1>3 DEF Base, MarksOK
<1>9. Mine' = Mine /\ Question' = Question
  BY <1>1 DEF Mine, Question
<1>10. /\ Lasting => Lasting'
       /\ transition'.at = "none" /\ Bound => Bound'
       /\ Awaits("send") /\ (Lasting => Lasting') => Awaits("send")'
  BY <1>1, <1>3, <1>9 DEF Lasting, LastingAt, Covered, Bound, BoundAt, Ends, TimerHas, Awaits
<1>11. ~run.current
  BY <1>1, <1>2 DEF Base, RunOK
<1>12. send \in Asked /\ transition'.at = "host" => Lasting
  <2>1. transition'.at = "host" => transition.at = "flushing" /\ heard["account"] = "ok"
    BY <1>1
  <2> QED BY <1>2, <2>1 DEF QuestionOK, Awaits
<1>13. QuestionOK'
  BY <1>1, <1>2, <1>6, <1>9, <1>10, <1>11, <1>12 DEF QuestionOK, Asked
<1> QED BY <1>4, <1>5, <1>7, <1>8, <1>13 DEF IInv, Base

LEMMA HostChangesKeeps ==
    ASSUME IInv, HostChanges
    PROVE  IInv'
<1>1. /\ transition.at = "host" /\ hostAccount' = transition.to
      /\ call' = [call EXCEPT !.cancelled = @ \/ call.at = "running"]
      /\ transition' = [transition EXCEPT !.at = "changed"]
      /\ UNCHANGED <<display, writes, failedTail, heard, sending, settle,
                     saved, cancelling, faults>>
  BY DEF HostChanges
<1>2. /\ Base /\ TypeOK /\ QuestionOK /\ transition.to \in Account \cup {None}
      /\ transition' = [at |-> "changed", to |-> transition.to]
  BY <1>1 DEF IInv, Base, TypeOK
<1> USE DEF display, writes, sending
<1>3. call' \in [at : {"none", "sent", "running", "over"}, cancelled : BOOLEAN, ok : BOOLEAN]
      /\ call'.at = call.at
  BY <1>1, <1>2 DEF TypeOK
<1>4. TypeOK'
  <2>1. transition' \in [at : {"none", "flushing", "host", "changed", "emptied"},
                         to : Account \cup {None}]
    BY <1>2
  <2> QED BY <1>1, <1>2, <1>3, <2>1 DEF TypeOK
<1>5. ScreenOK' /\ EffectOK' /\ WritesFit(queue)' /\ StoresFit' /\ MarksOK(queue, heard)'
  BY <1>1, <1>2 DEF Base, ScreenOK, EffectOK, WritesFit, StoresFit, MarksOK
<1>6. PlaceOK' /\ RunOK' /\ WaitsOK'
  BY <1>1, <1>2, <1>3 DEF Base, PlaceOK, RunOK, WaitsOK
<1>7. QuestionOK'
  <2>1. Mine' = Mine /\ Question' = Question /\ (Lasting => Lasting')
    BY <1>1 DEF Mine, Question, Lasting, LastingAt, Covered
  <2>2. ~run.current
    BY <1>1, <1>2 DEF Base, RunOK
  <2> QED BY <1>1, <1>2, <2>1, <2>2 DEF QuestionOK, Awaits, Asked
<1> QED BY <1>4, <1>5, <1>6, <1>7 DEF IInv, Base

-----------------------------------------------------------------------------
(* The shutdown guard, and the call in the host.                           *)

LEMMA SettleKeeps ==
    ASSUME IInv, Settle
    PROVE  IInv'
<1>1. /\ transition.at = "none" /\ settle' = "stopping"
      /\ run' = Leave(run) /\ AbortNext /\ CancelNext
      /\ \/ Render(screen, loaded, shown, FALSE, queue, scheduled)
         \/ UNCHANGED <<screen, loaded, shown, running, writes>>
      /\ UNCHANGED <<active, failedTail, heard, send, next, transition,
                     hostAccount, saved, call, faults>>
  <2>1. IF Aborts THEN Render(screen, loaded, shown, FALSE, queue, scheduled)
        ELSE UNCHANGED <<screen, loaded, shown, running, writes>>
    BY DEF Settle
  <2>2. \/ Render(screen, loaded, shown, FALSE, queue, scheduled)
        \/ UNCHANGED <<screen, loaded, shown, running, writes>>
    BY <2>1
  <2> QED BY <2>2 DEF Settle
<1>2. /\ Base /\ TypeOK /\ queue \in Seq(Writes) /\ TimerFits(scheduled)
      /\ WritesFit(queue) /\ MarksOK(queue, heard)
      /\ (loaded # None => Fits(loaded, shown)) /\ (loaded = None => shown = {})
  BY TimerTyped DEF IInv, Base, TypeOK, ScreenOK
<1>3. heard' = heard /\ active' = active /\ saved' = saved /\ MarksOK(queue, heard')
  BY <1>1, <1>2
<1>4. /\ run' \in Runs /\ run'.session = run.session /\ run'.n = run.n
      /\ ~run'.current
  BY <1>1, <1>2, LeaveFacts
<1>5. /\ ScreenTyped' /\ ScreenOK' /\ EffectOK' /\ WritesFit(queue)' /\ StoresFit'
      /\ MarksOK(queue, heard)'
      /\ screen' = screen /\ loaded' = loaded /\ (running' => running)
  <2>1. CASE Render(screen, loaded, shown, FALSE, queue, scheduled)
    BY <1>2, <1>3, <2>1, RenderBase
  <2>2. CASE UNCHANGED <<screen, loaded, shown, running, writes>>
    <3>1. ScreenTyped'
      BY <1>2, <2>2 DEF ScreenTyped, TypeOK, writes
    <3>2. ScreenOK' /\ EffectOK' /\ WritesFit(queue)' /\ StoresFit' /\ MarksOK(queue, heard)'
      BY <1>2, <1>3, <2>2 DEF Base, ScreenOK, EffectOK, WritesFit, StoresFit, MarksOK, writes
    <3> QED BY <2>2, <3>1, <3>2
  <2> QED BY <1>1, <2>1, <2>2
<1>6. TypeOK'
  BY <1>1, <1>2, <1>4, <1>5, AbortTyped DEF TypeOK, ScreenTyped, Runs
<1>7. PlaceOK' /\ RunOK' /\ WaitsOK'
  BY <1>1, <1>2, <1>4, <1>5 DEF Base, PlaceOK, RunOK, WaitsOK
<1>8. QuestionOK'
  <2>1. CASE Render(screen, loaded, shown, FALSE, queue, scheduled)
    <3>1. send' = send /\ transition' = transition /\ failedTail' = failedTail
      BY <1>1
    <3> QED BY <1>2, <1>3, <1>4, <2>1, <3>1, SteadyRender
  <2>2. CASE UNCHANGED <<screen, loaded, shown, running, writes>>
    <3>1. Known => Grown(queue, queue', Mine, Question) /\ OwnOnly(queue, queue', Mine)
                   /\ Covered(scheduled')
      BY <1>2, <2>2, GrownItself, KnownFacts DEF writes
    <3>2. effect' = effect /\ scheduled' = scheduled
      BY <2>2 DEF writes
    <3> QED BY <1>1, <1>3, <1>4, <2>2, <3>1, <3>2, Steady
  <2> QED BY <1>1, <2>1, <2>2
<1> QED BY <1>5, <1>6, <1>7, <1>8 DEF IInv, Base

\* A shutdown waits without a mark that a send or an account could take for its own.
LEMMA SettleMarking ==
    ASSUME NEW q \in Seq(Writes), NEW r, r = Await("settle", q),
           NEW h, \A w \in {"send", "account"} : h[w] = heard[w]
    PROVE  /\ r \in Seq(Writes)
           /\ WritesFit(q) => WritesFit(r)
           /\ MarksOK(q, heard) => MarksOK(r, h)
<1>1. CASE q = <<>>
  BY <1>1 DEF Await, MarksOK
<1>2. CASE q # <<>>
  <2> DEFINE k == Len(q)
  <2>1. k \in Nat /\ DOMAIN q = 1 .. k /\ k \in DOMAIN q /\ \A i \in DOMAIN q : q[i] \in Writes
    BY <1>2, Positions
  <2>2. r = [q EXCEPT ![k] = [q[k] EXCEPT !.for = q[k].for \cup {"settle"}]]
    BY <1>2 DEF Await
  <2>3. [q[k] EXCEPT !.for = q[k].for \cup {"settle"}] \in Writes
    BY <2>1 DEF Writes
  <2>4. r \in Seq(Writes) /\ DOMAIN r = DOMAIN q
    <3>1. \A v \in Writes : [q EXCEPT ![k] = v] \in Seq(Writes)
                          /\ DOMAIN [q EXCEPT ![k] = v] = DOMAIN q
      BY <2>1
    <3> QED BY <2>2, <2>3, <3>1
  <2>5. \A i \in DOMAIN q : /\ r[i].account = q[i].account /\ r[i].store = q[i].store
                            /\ r[i].for \subseteq q[i].for \cup {"settle"}
    BY <2>1, <2>2 DEF Writes
  <2>6. \A w \in {"send", "account"} : \A i \in DOMAIN q : w \in r[i].for => w \in q[i].for
    BY <2>5
  <2> QED BY <2>4, <2>5, <2>6 DEF WritesFit, MarksOK
<1> QED BY <1>1, <1>2

LEMMA SettleFlushKeeps ==
    ASSUME IInv, SettleFlush
    PROVE  IInv'
<1> DEFINE q == Chained(effect, queue)
           s == Delayed(effect, scheduled)
           all == IF s = None THEN q ELSE Append(q, Write(s.account, s.store, {}))
<1>1. /\ send = "idle"
      /\ queue' = Await("settle", all) /\ heard' = Told("settle", all)
      /\ scheduled' = None /\ effect' = None /\ settle' = "flushing"
      /\ UNCHANGED <<display, failedTail, sending, transition, host>>
  BY DEF SettleFlush
<1>2. /\ Base /\ TypeOK /\ ScreenOK /\ EffectOK /\ queue \in Seq(Writes)
      /\ TimerFits(scheduled) /\ WritesFit(queue) /\ MarksOK(queue, heard)
      /\ heard \in [Waiter -> {"none", "waiting", "ok", "failed"}]
  BY TimerTyped DEF IInv, Base, TypeOK
<1>3. q \in Seq(Writes) /\ WritesFit(q) /\ MarksOK(q, heard) /\ TimerFits(s)
  BY <1>2, ChainKeeps, EffectDelays
<1> HIDE DEF q, s
<1>4. all \in Seq(Writes) /\ WritesFit(all) /\ MarksOK(all, heard)
  <2>1. CASE s = None
    BY <1>3, <2>1
  <2>2. CASE s # None
    <3>1. Fits(s.account, s.store) /\ s.account # None
      BY <1>3, <2>2 DEF TimerFits, Fits
    <3>2. all = Append(q, Write(s.account, s.store, {}))
      BY <2>2
    <3> HIDE DEF all
    <3>3. Grown(q, all, None, None)
      BY <1>3, <3>1, <3>2, OneMore
    <3> QED BY <1>3, <3>3, GrowingKeeps
  <2> QED BY <2>1, <2>2
<1> HIDE DEF all
<1>5. /\ heard' \in [Waiter -> {"none", "waiting", "ok", "failed"}]
      /\ \A w \in {"send", "account"} : heard'[w] = heard[w]
  BY <1>1, <1>2 DEF Told
<1>6. queue' \in Seq(Writes) /\ WritesFit(queue') /\ MarksOK(queue', heard')
  BY <1>1, <1>4, <1>5, SettleMarking
<1> USE DEF display, sending, host
<1>7. TypeOK'
  BY <1>1, <1>2, <1>5, <1>6 DEF TypeOK
<1>8. ScreenOK' /\ EffectOK' /\ WritesFit(queue)' /\ StoresFit' /\ MarksOK(queue, heard)'
  BY <1>1, <1>2, <1>6 DEF Base, ScreenOK, EffectOK, WritesFit, StoresFit, MarksOK
<1>9. PlaceOK' /\ RunOK' /\ WaitsOK'
  BY <1>1, <1>2, <1>5 DEF Base, PlaceOK, RunOK, WaitsOK
<1>10. send' = "idle"
  BY <1>1
<1> QED BY <1>7, <1>8, <1>9, <1>10, Idle DEF IInv, Base

\* The steps that end a shutdown, or let it go on.
LEMMA SettleEndKeeps ==
    ASSUME IInv, SettleFails \/ SettleWrite \/ SettleWritten \/ Resume
    PROVE  IInv'
<1>1. /\ settle' \in {"none", "writing", "settled"}
      /\ \/ heard' = heard
         \/ heard' = [heard EXCEPT !["settle"] = "none"]
         \/ heard' = [heard EXCEPT !["settle"] = "waiting"]
      /\ \/ queue' = queue
         \/ /\ screen # None /\ loaded = screen
            /\ queue' = Append(queue, Write(screen, shown, {"settle"}))
      /\ UNCHANGED <<display, effect, scheduled, failedTail, sending, transition, host>>
  <2>1. CASE SettleFails
    BY <2>1 DEF SettleFails, writes
  <2>2. CASE SettleWrite
    BY <2>2 DEF SettleWrite
  <2>3. CASE SettleWritten
    BY <2>3 DEF SettleWritten, writes
  <2>4. CASE Resume
    BY <2>4 DEF Resume, writes
  <2> QED BY <2>1, <2>2, <2>3, <2>4
<1>2. /\ Base /\ TypeOK /\ ScreenOK /\ queue \in Seq(Writes)
      /\ WritesFit(queue) /\ MarksOK(queue, heard)
      /\ heard \in [Waiter -> {"none", "waiting", "ok", "failed"}]
  BY DEF IInv, Base, TypeOK
<1>3. /\ heard' \in [Waiter -> {"none", "waiting", "ok", "failed"}]
      /\ \A w \in {"send", "account"} : heard'[w] = heard[w]
  BY <1>1, <1>2
<1>4. ASSUME NEW own, NEW said, loaded = own => said \in shown, own = Mine \/ own = None
      PROVE  Grown(queue, queue', own, said) /\ (loaded = own => OwnOnly(queue, queue', own))
  <2>1. CASE queue' = queue
    BY <1>2, <2>1, GrownItself
  <2>2. CASE /\ screen # None /\ loaded = screen
             /\ queue' = Append(queue, Write(screen, shown, {"settle"}))
    <3>1. Fits(screen, shown)
      BY <1>2, <2>2 DEF ScreenOK
    <3> QED BY <1>2, <1>4, <2>2, <3>1, OneMore
  <2> QED BY <1>1, <2>1, <2>2
<1>5. queue' \in Seq(Writes) /\ WritesFit(queue') /\ MarksOK(queue', heard')
  <2>1. Grown(queue, queue', None, None)
    <3>1. CASE loaded = None
      <4>1. queue' = queue
        BY <1>1, <3>1
      <4> QED BY <1>2, <4>1, GrownItself
    <3>2. CASE loaded # None
      BY <1>4, <3>2
    <3> QED BY <3>1, <3>2
  <2>2. queue' \in Seq(Writes) /\ WritesFit(queue') /\ MarksOK(queue', heard)
    BY <1>2, <2>1, GrowingKeeps
  <2> QED BY <1>3, <2>2 DEF MarksOK
<1> USE DEF display, sending, host
<1>6. TypeOK'
  BY <1>1, <1>2, <1>3, <1>5 DEF TypeOK
<1>7. ScreenOK' /\ EffectOK' /\ WritesFit(queue)' /\ StoresFit' /\ MarksOK(queue, heard)'
  BY <1>1, <1>2, <1>5 DEF Base, ScreenOK, EffectOK, WritesFit, StoresFit, MarksOK
<1>8. PlaceOK' /\ RunOK' /\ WaitsOK'
  BY <1>1, <1>2, <1>3 DEF Base, PlaceOK, RunOK, WaitsOK
<1>9. Known => /\ Grown(queue, queue', Mine, Question)
               /\ loaded = Mine => OwnOnly(queue, queue', Mine)
               /\ Covered(scheduled')
  BY <1>1, <1>4, KnownFacts
<1>10. QuestionOK'
  BY <1>1, <1>3, <1>9, Steady
<1> QED BY <1>6, <1>7, <1>8, <1>10 DEF IInv, Base

LEMMA HostCallKeeps ==
    ASSUME IInv, CallSteps
    PROVE  IInv'
<1>1. /\ call' \in [at : {"none", "sent", "running", "over"}, cancelled : BOOLEAN, ok : BOOLEAN]
      /\ call'.at # "none" => call.at # "none"
      /\ cancelling' \in BOOLEAN
      /\ UNCHANGED <<display, writes, failedTail, heard, sending, changing,
                     hostAccount, saved, faults>>
  <2>1. /\ call \in [at : {"none", "sent", "running", "over"}, cancelled : BOOLEAN, ok : BOOLEAN]
        /\ cancelling \in BOOLEAN
    BY DEF IInv, Base, TypeOK
  <2>2. CASE CallStarts
    BY <2>1, <2>2 DEF CallStarts
  <2>3. CASE CancelArrives
    BY <2>1, <2>3 DEF CancelArrives
  <2>4. CASE CallEnds
    <3>1. PICK ok \in BOOLEAN : call' = [call EXCEPT !.at = "over", !.ok = ok]
      BY <2>4 DEF CallEnds
    <3> QED BY <2>1, <2>4, <3>1 DEF CallEnds
  <2> QED BY <2>2, <2>3, <2>4 DEF CallSteps
<1>2. Base /\ TypeOK
  BY DEF IInv, Base
<1> USE DEF display, writes, sending, changing
<1>3. TypeOK'
  BY <1>1, <1>2 DEF TypeOK
<1>4. ScreenOK' /\ EffectOK' /\ WritesFit(queue)' /\ StoresFit' /\ MarksOK(queue, heard)'
  BY <1>1, <1>2 DEF Base, ScreenOK, EffectOK, WritesFit, StoresFit, MarksOK
<1>5. PlaceOK' /\ RunOK' /\ WaitsOK'
  BY <1>1, <1>2 DEF Base, PlaceOK, RunOK, WaitsOK
<1>6. Known => Grown(queue, queue', Mine, Question) /\ OwnOnly(queue, queue', Mine)
               /\ Covered(scheduled')
  BY <1>1, <1>2, GrownItself, KnownFacts DEF TypeOK
<1>7. QuestionOK'
  BY <1>1, <1>6, Steady
<1> QED BY <1>3, <1>4, <1>5, <1>7 DEF IInv, Base

-----------------------------------------------------------------------------
(* The theorems.                                                           *)

LEMMA InitIInv == Init => IInv
<1> SUFFICES ASSUME Init PROVE IInv
  OBVIOUS
<1> USE DEF Init
<1>1. TypeOK
  <2>1. run \in Runs
    BY DEF NoRun, Runs
  <2>2. saved \in [Account -> Stores]
    BY DEF Stores
  <2>3. queue \in Seq(Writes)
    OBVIOUS
  <2>4. shown \in Stores /\ active \in Session \cup {Fresh} /\ next \in 1 .. MaxRun + 1
        /\ faults \in 0 .. MaxFault
    BY DEF Stores
  <2> QED BY <2>1, <2>2, <2>3, <2>4, NoCallTyped DEF TypeOK, Runs
<1>2. ScreenOK /\ EffectOK /\ PlaceOK
  BY DEF ScreenOK, EffectOK, PlaceOK
<1>3. WritesFit(queue) /\ MarksOK(queue, heard)
  BY DEF WritesFit, MarksOK
<1>4. StoresFit
  BY DEF StoresFit, Fits
<1>5. RunOK /\ WaitsOK
  BY NoCallTyped DEF RunOK, WaitsOK, NoRun
<1>6. QuestionOK
  BY DEF QuestionOK, Asked
<1> QED BY <1>1, <1>2, <1>3, <1>4, <1>5, <1>6 DEF IInv, Base

LEMMA StutterKeeps ==
    ASSUME IInv, UNCHANGED vars
    PROVE  IInv'
<1> USE DEF vars, display, writes, sending, changing, host
<1>1. Base /\ TypeOK
  BY DEF IInv, Base
<1>2. TypeOK'
  BY <1>1 DEF TypeOK
<1>3. ScreenOK' /\ EffectOK' /\ WritesFit(queue)' /\ StoresFit' /\ MarksOK(queue, heard)'
  BY <1>1 DEF Base, ScreenOK, EffectOK, WritesFit, StoresFit, MarksOK
<1>4. PlaceOK' /\ RunOK' /\ WaitsOK'
  BY <1>1 DEF Base, PlaceOK, RunOK, WaitsOK
<1>5. Known => Grown(queue, queue', Mine, Question) /\ OwnOnly(queue, queue', Mine)
               /\ Covered(scheduled')
  BY <1>1, GrownItself, KnownFacts DEF TypeOK
<1>6. QuestionOK'
  BY <1>5, Steady
<1> QED BY <1>2, <1>3, <1>4, <1>6 DEF IInv, Base

LEMMA NextIInv == IInv /\ [Next]_vars => IInv'
<1> SUFFICES ASSUME IInv, [Next]_vars PROVE IInv'
  OBVIOUS
<1>1. CASE SendSteps
  BY <1>1, LeavingKeeps, AskKeeps, StartKeeps, FlushKeeps, CallKeeps, DoneKeeps DEF SendSteps
<1>2. CASE Delta \/ ShowDelta
  BY <1>2, DeltaKeeps, ShowDeltaKeeps
<1>3. CASE WriteSteps
  BY <1>3, RunEffectKeeps, DebounceEndsKeeps, WriteEndsKeeps DEF WriteSteps
<1>4. CASE AccountSteps
  BY <1>4, TransitionKeeps, HostChangesKeeps, EmptyKeeps, LoadKeeps DEF AccountSteps
<1>5. CASE SettleSteps
  BY <1>5, SettleFlushKeeps, SettleEndKeeps DEF SettleSteps
<1>6. CASE CallSteps
  BY <1>6, HostCallKeeps
<1>7. CASE UserSteps
  BY <1>7, SendKeeps, StopKeeps, SwitchSessionKeeps, ChangeAccountKeeps, SettleKeeps,
     SettleEndKeeps DEF UserSteps
<1>8. CASE UNCHANGED vars
  BY <1>8, StutterKeeps
<1> QED BY <1>1, <1>2, <1>3, <1>4, <1>5, <1>6, <1>7, <1>8 DEF Next

THEOREM IInvHolds == Spec => []IInv
  BY InitIInv, NextIInv, PTL DEF Spec

\* Whatever happens, the state stays in the shape the screen, the write queue
\* and the host give it.
THEOREM TypesStayCorrect == Spec => []TypeOK
<1>1. IInv => TypeOK
  BY DEF IInv, Base
<1> QED BY <1>1, IInvHolds, PTL

\* Nothing that is said or kept crosses from one account, or from one
\* conversation, to another (runSendMessage's session identifier, and the
\* refusals of replace_agent_sessions).
THEOREM ConversationsAreApart == Spec => []ConversationsStayApart
<1>1. ASSUME IInv PROVE ConversationsStayApart
  <2>1. \A a \in Account : Fits(a, saved[a])
    BY <1>1 DEF IInv, Base, StoresFit
  <2>2. /\ loaded # None => loaded = screen /\ Owner(active) = loaded /\ Fits(loaded, shown)
        /\ loaded = None => shown = {}
    BY <1>1 DEF IInv, Base, ScreenOK
  <2>3. AccountsStayApart
    BY <2>1, <2>2 DEF AccountsStayApart, Fits
  <2>4. OneSessionPerRun
    <3>1. ASSUME NEW a \in Account, NEW m \in saved[a] \cup shown
          PROVE  \E q \in saved[a] \cup shown :
                   q[1] = m[1] /\ q[2] = m[2] /\ q[3] = "question"
      <4>1. <<m[1], m[2], "question">> \in saved[a] \cup shown
        BY <2>1, <2>2, <3>1 DEF Fits
      <4> QED BY <4>1
    <3> QED BY <3>1 DEF OneSessionPerRun
  <2> QED BY <2>3, <2>4 DEF ConversationsStayApart
<1> QED BY <1>1, IInvHolds, PTL

\* A message goes to the host's model only when its question is stored: the
\* order runSendMessage keeps, through any login, stop and failed write.
THEOREM QuestionsAreStored == Spec => []AskedBeforeAnswered
<1>1. ASSUME IInv PROVE AskedBeforeAnswered
  <2>1. SUFFICES ASSUME call.at = "running" PROVE Question \in saved[Mine]
    BY DEF AskedBeforeAnswered, Question, Mine
  <2>2. send = "calling"
    BY <1>1, <2>1 DEF IInv, Base, RunOK
  <2> QED BY <1>1, <2>2 DEF IInv, QuestionOK, Lasting, LastingAt
<1> QED BY <1>1, IInvHolds, PTL
-----------------------------------------------------------------------------
(* The newest store.                                                       *)

\* What the screen shows is with the timer s; or, with no timer set, it is the
\* last write of q; or, with no write left and none refused, it is stored.
ShownIsLast(q, s) ==
    IF s # None THEN s.account = loaded /\ s.store = shown
    ELSE IF q # <<>> THEN q[Len(q)].account = loaded /\ q[Len(q)].store = shown
    ELSE ~failedTail => saved[loaded] = shown

\* So it is once the effect of the last render has run.
Newest == loaded # None /\ effect = None => ShownIsLast(queue, scheduled)

\* No write is one the shutdown guard waits for; or only the last one is.
Unmarked(q) == \A i \in DOMAIN q : "settle" \notin q[i].for
MarkedLast(q) == \A i \in DOMAIN q : "settle" \in q[i].for => i = Len(q)

\* While the guard flushes and writes no account changes, no send begins and
\* nothing is scheduled, so that the write it waits for in the end is the last
\* one and has what the screen shows.
Guarded ==
    /\ transition.at = "none" /\ send = "idle" /\ effect = None /\ scheduled = None
    /\ heard["settle"] # "waiting" => Unmarked(queue)
    /\ MarkedLast(queue)
    /\ settle = "writing" =>
         /\ loaded # None
         /\ heard["settle"] = "waiting" =>
              queue # <<>> /\ "settle" \in queue[Len(queue)].for
    /\ settle = "settled" => heard["settle"] = "none"
    /\ \/ settle = "writing" /\ heard["settle"] = "ok"
       \/ settle = "settled" /\ loaded # None
       => queue = <<>> /\ ~failedTail

Settling ==
    IF settle \in {"flushing", "writing", "settled"} THEN Guarded
    ELSE /\ settle # "none" => transition.at = "none"
         /\ heard["settle"] = "none" /\ Unmarked(queue)

SInv == Newest /\ Settling

LEMMA AppendMarks ==
    ASSUME NEW q \in Seq(Writes), NEW w \in Writes, NEW r, r = Append(q, w)
    PROVE  /\ r \in Seq(Writes) /\ r # <<>> /\ r[Len(r)] = w
           /\ Unmarked(q) /\ "settle" \notin w.for => Unmarked(r)
           /\ Unmarked(q) => MarkedLast(r)
<1>1. /\ r \in Seq(Writes) /\ Len(r) = Len(q) + 1
      /\ \A i \in DOMAIN q : r[i] = q[i]
      /\ r[Len(r)] = w
  BY Appending
<1>2. Len(q) \in Nat /\ DOMAIN q = 1 .. Len(q) /\ DOMAIN r = 1 .. Len(r)
  BY <1>1, Positions
<1>3. r # <<>>
  BY <1>1, <1>2, Positions
<1>4. \A i \in DOMAIN r : i \in DOMAIN q \/ i = Len(r)
  BY <1>1, <1>2
<1> QED BY <1>1, <1>3, <1>4 DEF Unmarked, MarkedLast

LEMMA AwaitMarks ==
    ASSUME NEW q \in Seq(Writes), NEW w \in Waiter, NEW r, r = Await(w, q)
    PROVE  /\ r \in Seq(Writes) /\ (r = <<>> <=> q = <<>>)
           /\ q # <<>> => /\ r[Len(r)].account = q[Len(q)].account
                          /\ r[Len(r)].store = q[Len(q)].store
                          /\ w \in r[Len(r)].for
           /\ w # "settle" /\ Unmarked(q) => Unmarked(r)
           /\ Unmarked(q) => MarkedLast(r)
<1>1. CASE q = <<>>
  BY <1>1, Positions DEF Await, Unmarked, MarkedLast
<1>2. CASE q # <<>>
  <2> DEFINE k == Len(q)
             v == [q[k] EXCEPT !.for = q[k].for \cup {w}]
  <2>1. k \in Nat /\ DOMAIN q = 1 .. k /\ k \in DOMAIN q /\ \A i \in DOMAIN q : q[i] \in Writes
    BY <1>2, Positions
  <2>2. r = [q EXCEPT ![k] = v]
    BY <1>2 DEF Await
  <2>3. /\ v \in Writes /\ v.account = q[k].account /\ v.store = q[k].store
        /\ w \in v.for /\ v.for = q[k].for \cup {w}
    BY <2>1 DEF Writes
  <2> HIDE DEF v
  <2>4. r \in Seq(Writes) /\ DOMAIN r = DOMAIN q /\ Len(r) = k
    BY <2>1, <2>2, <2>3
  <2>5. r[k] = v /\ \A i \in DOMAIN q : i # k => r[i] = q[i]
    BY <2>1, <2>2
  <2>6. r # <<>>
    BY <2>4, <1>2, Positions
  <2> HIDE DEF k
  <2> QED BY <1>2, <2>1, <2>3, <2>4, <2>5, <2>6 DEF Unmarked, MarkedLast, k
<1> QED BY <1>1, <1>2

LEMMA TailMarks ==
    ASSUME NEW q \in Seq(Writes), q # <<>>, NEW r, r = Tail(q)
    PROVE  /\ r # <<>> => r[Len(r)] = q[Len(q)]
           /\ r = <<>> => Head(q) = q[Len(q)]
           /\ r # <<>> /\ MarkedLast(q) => "settle" \notin Head(q).for
           /\ Unmarked(q) => Unmarked(r)
           /\ MarkedLast(q) => MarkedLast(r)
           /\ MarkedLast(q) /\ "settle" \in Head(q).for => r = <<>>
<1>1. /\ r \in Seq(Writes) /\ 1 \in DOMAIN q /\ Head(q) = q[1]
      /\ Len(q) \in Nat /\ Len(q) # 0 /\ DOMAIN q = 1 .. Len(q)
      /\ Len(r) = Len(q) - 1 /\ DOMAIN r = 1 .. (Len(q) - 1)
  BY Positions
<1>2. \A i \in DOMAIN r : i \in Nat /\ i + 1 \in DOMAIN q /\ r[i] = q[i + 1]
  BY <1>1
<1>3. r # <<>> => Len(r) \in DOMAIN r /\ Len(r) + 1 = Len(q) /\ Len(q) # 1
  BY <1>1, Positions
<1>4. r = <<>> => Len(q) = 1
  <2>1. r = <<>> => Len(r) = 0
    BY <1>1, Positions
  <2> QED BY <1>1, <2>1
<1>5. r # <<>> => r[Len(r)] = q[Len(q)]
  BY <1>2, <1>3
<1>6. Unmarked(q) => Unmarked(r)
  BY <1>2 DEF Unmarked
<1>7. MarkedLast(q) => MarkedLast(r)
  <2>1. SUFFICES ASSUME MarkedLast(q), NEW i \in DOMAIN r, "settle" \in r[i].for
                 PROVE  i = Len(r)
    BY DEF MarkedLast
  <2>2. i + 1 = Len(q)
    BY <1>2, <2>1 DEF MarkedLast
  <2> QED BY <1>1, <1>2, <2>2
<1> QED BY <1>1, <1>3, <1>4, <1>5, <1>6, <1>7 DEF MarkedLast

LEMMA ChainMarks ==
    ASSUME TypeOK, ScreenOK, EffectOK, NEW q \in Seq(Writes), Unmarked(q)
    PROVE  Unmarked(Chained(effect, q))
<1>1. CASE effect = None \/ effect.running
  BY <1>1 DEF Chained
<1>2. CASE effect # None /\ ~effect.running
  <2> DEFINE w == Write(effect.account, effect.store, {})
  <2>1. Fits(effect.account, effect.store)
    BY <1>2 DEF EffectOK, ScreenOK
  <2>2. w \in Writes /\ w.for = {}
    BY <2>1 DEF Write, Writes, Fits, Stores
  <2>3. Chained(effect, q) = Append(q, w)
    BY <1>2 DEF Chained
  <2> HIDE DEF w
  <2> QED BY <2>2, <2>3, AppendMarks
<1> QED BY <1>1, <1>2

\* The effect of a render leaves what it shows.
LEMMA EffectShows ==
    ASSUME TypeOK, ScreenOK, EffectOK, effect # None, NEW q \in Seq(Writes), NEW s
    PROVE  ShownIsLast(Chained(effect, q), Delayed(effect, s))
<1>1. /\ effect.account = loaded /\ effect.store = shown /\ effect.running = running
      /\ Fits(loaded, shown) /\ loaded # None
  BY DEF EffectOK, ScreenOK
<1>2. CASE running
  <2>1. Delayed(effect, s) = [account |-> loaded, store |-> shown]
    BY <1>1, <1>2 DEF Delayed
  <2>2. [account |-> loaded, store |-> shown] # None
    BY <1>1 DEF Fits
  <2> QED BY <2>1, <2>2 DEF ShownIsLast
<1>3. CASE ~running
  <2> DEFINE w == Write(loaded, shown, {})
             r == Chained(effect, q)
  <2>1. Delayed(effect, s) = None /\ r = Append(q, w)
    BY <1>1, <1>3 DEF Delayed, Chained
  <2>2. w \in Writes /\ w.account = loaded /\ w.store = shown
    BY <1>1 DEF Write, Writes, Fits, Stores
  <2> HIDE DEF w, r
  <2>3. r # <<>> /\ r[Len(r)] = w
    BY <2>1, <2>2, AppendMarks
  <2> QED BY <2>1, <2>2, <2>3 DEF ShownIsLast, r
<1> QED BY <1>2, <1>3

\* A flush moves it from the timer to the end of the queue.
LEMMA FlushMarks ==
    ASSUME NEW q \in Seq(Writes), NEW s, TimerFits(s),
           NEW r, r = IF s = None THEN q ELSE Append(q, Write(s.account, s.store, {}))
    PROVE  /\ r \in Seq(Writes)
           /\ ShownIsLast(q, s) => ShownIsLast(r, None)
           /\ Unmarked(q) => Unmarked(r)
<1>1. CASE s = None
  BY <1>1
<1>2. CASE s # None
  <2> DEFINE w == Write(s.account, s.store, {})
  <2>1. w \in Writes /\ w.account = s.account /\ w.store = s.store /\ w.for = {}
    BY <1>2 DEF TimerFits, Write, Writes
  <2>2. r = Append(q, w)
    BY <1>2
  <2> HIDE DEF w
  <2>3. r \in Seq(Writes) /\ r # <<>> /\ r[Len(r)] = w /\ (Unmarked(q) => Unmarked(r))
    <3>1. "settle" \notin w.for
      BY <2>1
    <3>2. r \in Seq(Writes) /\ r # <<>> /\ r[Len(r)] = w
      BY <2>1, <2>2, AppendMarks
    <3>3. Unmarked(q) => Unmarked(r)
      BY <2>1, <2>2, <3>1, AppendMarks
    <3> QED BY <3>2, <3>3
  <2> QED BY <1>2, <2>1, <2>3 DEF ShownIsLast
<1> QED BY <1>1, <1>2

LEMMA FlushUnmarks ==
    ASSUME NEW q \in Seq(Writes), NEW s, TimerFits(s), Unmarked(q),
           NEW r, r = IF s = None THEN q ELSE Append(q, Write(s.account, s.store, {}))
    PROVE  Unmarked(r)
<1>1. CASE s = None
  BY <1>1
<1>2. CASE s # None
  <2> DEFINE w == Write(s.account, s.store, {})
  <2>1. w \in Writes /\ "settle" \notin w.for
    BY <1>2 DEF TimerFits, Write, Writes
  <2>2. r = Append(q, w)
    BY <1>2
  <2> HIDE DEF w
  <2> QED BY <2>1, <2>2, AppendMarks
<1> QED BY <1>1, <1>2

\* A wait changes no store.
LEMMA AwaitShows ==
    ASSUME NEW q \in Seq(Writes), NEW w \in Waiter, NEW s, ShownIsLast(q, s)
    PROVE  ShownIsLast(Await(w, q), s)
  BY AwaitMarks DEF ShownIsLast

LEMMA SFacts ==
    ASSUME IInv
    PROVE  /\ TypeOK /\ ScreenOK /\ EffectOK /\ StoresFit /\ PlaceOK /\ RunOK /\ WaitsOK
           /\ queue \in Seq(Writes) /\ TimerFits(scheduled)
           /\ heard \in [Waiter -> {"none", "waiting", "ok", "failed"}]
  BY TimerTyped DEF IInv, Base, TypeOK

LEMMA FlushedMarks ==
    ASSUME IInv
    PROVE  /\ Flushed \in Seq(Writes)
           /\ ShownIsLast(queue, scheduled) => ShownIsLast(Flushed, None)
           /\ Unmarked(queue) => Unmarked(Flushed)
<1>1. Flushed = IF scheduled = None THEN queue
                ELSE Append(queue, Write(scheduled.account, scheduled.store, {}))
  BY DEF Flushed
<1>2. queue \in Seq(Writes) /\ TimerFits(scheduled)
  BY SFacts
<1>3. Flushed \in Seq(Writes)
  BY <1>1, <1>2, FlushMarks
<1>4. ShownIsLast(queue, scheduled) => ShownIsLast(Flushed, None)
  BY <1>1, <1>2, FlushMarks
<1>5. Unmarked(queue) => Unmarked(Flushed)
  BY <1>1, <1>2, FlushUnmarks
<1> QED BY <1>3, <1>4, <1>5

-----------------------------------------------------------------------------
(* The steps of the queue.                                                 *)

\* A render of a loaded conversation leaves an effect to run.
LEMMA RenderIsNew ==
    ASSUME IInv', NEW account, NEW of, NEW store, NEW busy, NEW q, NEW s,
           Render(account, of, store, busy, q, s), loaded' # None
    PROVE  effect' # None
<1>1. /\ loaded' = screen' /\ Fits(loaded', shown') /\ running' \in BOOLEAN
  BY DEF IInv, Base, ScreenOK, TypeOK
<1>2. /\ screen' = account /\ loaded' = of /\ shown' = store /\ running' = busy
      /\ effect' = IF account # None /\ of = account
                   THEN [account |-> account, store |-> store, running |-> busy] ELSE None
  BY DEF Render
<1>3. [account |-> account, store |-> store, running |-> busy] \in Effect
  BY <1>1, <1>2 DEF Fits, Effect
<1> QED BY <1>1, <1>2, <1>3

\* Steps that render.
Renders ==
    \E q, s, account, of, store, busy : Render(account, of, store, busy, q, s)

\* The steps that change where the newest store is, and do not render.
Moves == \/ RunEffect \/ DebounceEnds \/ WriteSaved \/ WriteFails \/ Flush
         \/ SettleFlush \/ SettleWrite
         \/ /\ queue' = Await("account", Flushed) /\ scheduled' = None
            /\ UNCHANGED <<loaded, shown, effect, failedTail, saved>>

LEMMA ShownSteps ==
    ASSUME [Next]_vars
    PROVE  \/ Renders \/ Moves
           \/ UNCHANGED <<loaded, shown, effect, scheduled, queue, failedTail, saved>>
<1>1. CASE SendSteps
  BY <1>1 DEF SendSteps, Abandon, Ask, NotSent, Start, Call, Reply, Answer, Broken,
              Done, Renders, Moves, display, writes, host
<1>2. CASE Delta \/ ShowDelta
  BY <1>2 DEF Delta, ShowDelta, Renders, display, writes, host
<1>3. CASE WriteSteps
  BY <1>3 DEF WriteSteps, Moves
<1>4. CASE AccountSteps
  <2>1. CASE Load
    BY <2>1 DEF Load, Renders, display, writes, host
  <2>2. CASE TransitionFails \/ AskHost \/ HostChanges
    BY <2>2 DEF TransitionFails, AskHost, HostChanges, display, writes, host
  <2>3. CASE Empty
    BY <2>3 DEF Empty, Renders
  <2> QED BY <1>4, <2>1, <2>2, <2>3 DEF AccountSteps
<1>5. CASE SettleSteps
  BY <1>5 DEF SettleSteps, SettleFails, SettleWritten, Moves, display, writes, host
<1>6. CASE CallSteps
  BY <1>6 DEF CallSteps, CallStarts, CancelArrives, CallEnds, display, writes, host
<1>7. CASE UserSteps
  <2>1. CASE Send \/ Resume
    BY <2>1 DEF Send, Resume, display, writes, host
  <2>2. CASE Stop \/ SwitchSession
    BY <2>2 DEF Stop, SwitchSession, Renders
  <2>3. CASE ChangeAccount
    <3>1. CASE Aborts
      BY <2>3, <3>1 DEF ChangeAccount, Renders
    <3>2. CASE ~Aborts
      BY <2>3, <3>2 DEF ChangeAccount, Moves
    <3> QED BY <3>1, <3>2
  <2>4. CASE Settle
    <3>1. CASE Aborts
      BY <2>4, <3>1 DEF Settle, Renders
    <3>2. CASE ~Aborts
      BY <2>4, <3>2 DEF Settle, writes
    <3> QED BY <3>1, <3>2
  <2> QED BY <1>7, <2>1, <2>2, <2>3, <2>4 DEF UserSteps
<1>8. CASE UNCHANGED vars
  BY <1>8 DEF vars, display, writes, host
<1> QED BY <1>1, <1>2, <1>3, <1>4, <1>5, <1>6, <1>7, <1>8 DEF Next

\* A write that ends: what it has is stored, or the chain is rejected.
LEMMA WriteShows ==
    ASSUME IInv, WriteSaved \/ WriteFails, loaded # None, ShownIsLast(queue, scheduled)
    PROVE  ShownIsLast(queue, scheduled)'
<1>1. /\ queue # <<>> /\ queue' = Tail(queue)
      /\ UNCHANGED <<loaded, shown, scheduled>>
      /\ \/ /\ Head(queue).account = hostAccount /\ hostAccount # None
            /\ saved' = [saved EXCEPT ![hostAccount] = Head(queue).store]
         \/ failedTail'
  <2>1. CASE WriteSaved
    BY <2>1 DEF WriteSaved, Resolve, Refused, Foreign, display
  <2>2. CASE WriteFails
    BY <2>2 DEF WriteFails, Resolve, display
  <2> QED BY <2>1, <2>2
<1>2. queue \in Seq(Writes) /\ saved \in [Account -> Stores] /\ hostAccount \in Account \cup {None}
  BY SFacts DEF TypeOK
<1>3. /\ queue' # <<>> => queue'[Len(queue')] = queue[Len(queue)]
      /\ queue' = <<>> => Head(queue) = queue[Len(queue)]
  BY <1>1, <1>2, TailMarks
<1>4. CASE scheduled # None
  BY <1>1, <1>4 DEF ShownIsLast
<1>5. CASE scheduled = None /\ queue' # <<>>
  BY <1>1, <1>3, <1>5 DEF ShownIsLast
<1>6. CASE scheduled = None /\ queue' = <<>>
  <2>1. Head(queue).account = loaded /\ Head(queue).store = shown
    BY <1>1, <1>3, <1>6 DEF ShownIsLast
  <2>2. ~failedTail' => saved'[loaded] = shown
    BY <1>1, <1>2, <2>1
  <2> QED BY <1>1, <1>6, <2>2 DEF ShownIsLast
<1> QED BY <1>4, <1>5, <1>6

LEMMA NewestKept ==
    ASSUME IInv, IInv', Newest, [Next]_vars
    PROVE  Newest'
<1> SUFFICES ASSUME loaded' # None, effect' = None
             PROVE  ShownIsLast(queue, scheduled)'
  BY DEF Newest
<1>1. /\ TypeOK /\ ScreenOK /\ EffectOK /\ queue \in Seq(Writes) /\ TimerFits(scheduled)
  BY SFacts
<1>2. CASE Renders
  BY <1>2, RenderIsNew DEF Renders
<1>3. CASE RunEffect
  <2>1. /\ effect # None /\ queue' = Chained(effect, queue)
        /\ scheduled' = Delayed(effect, scheduled)
        /\ UNCHANGED <<loaded, shown, failedTail, saved>>
    BY <1>3 DEF RunEffect, display, host
  <2>2. ShownIsLast(Chained(effect, queue), Delayed(effect, scheduled))
    BY <1>1, <2>1, EffectShows
  <2> QED BY <2>1, <2>2 DEF ShownIsLast
<1>4. CASE DebounceEnds
  <2>1. /\ queue' = Flushed /\ scheduled' = None
        /\ UNCHANGED <<loaded, shown, effect, failedTail, saved>>
    BY <1>4 DEF DebounceEnds, display, host
  <2>2. ShownIsLast(Flushed, None)
    BY <2>1, FlushedMarks DEF Newest
  <2> QED BY <2>1, <2>2 DEF ShownIsLast
<1>5. CASE WriteSaved \/ WriteFails
  <2>1. UNCHANGED <<loaded, effect>>
    BY <1>5 DEF WriteSaved, WriteFails, Resolve, display
  <2> QED BY <1>5, <2>1, WriteShows DEF Newest
<1>6. CASE Flush
  <2>1. /\ queue' = Await("send", queue)
        /\ UNCHANGED <<loaded, shown, effect, scheduled, failedTail, saved>>
    BY <1>6 DEF Flush, display, host
  <2>2. ShownIsLast(Await("send", queue), scheduled)
    BY <1>1, <2>1, AwaitShows DEF Newest
  <2> QED BY <2>1, <2>2 DEF ShownIsLast
<1>7. CASE SettleFlush
  <2> DEFINE q == Chained(effect, queue)
             s == Delayed(effect, scheduled)
             all == IF s = None THEN q ELSE Append(q, Write(s.account, s.store, {}))
  <2>1. /\ queue' = Await("settle", all) /\ scheduled' = None
        /\ UNCHANGED <<loaded, shown, failedTail, saved>>
    BY <1>7 DEF SettleFlush, display, host
  <2>2. ShownIsLast(q, s)
    <3>1. CASE effect = None
      BY <2>1, <3>1 DEF Newest, Chained, Delayed
    <3>2. CASE effect # None
      BY <1>1, <3>2, EffectShows
    <3> QED BY <3>1, <3>2
  <2>3. q \in Seq(Writes) /\ TimerFits(s)
    BY <1>1, ChainKeeps, EffectDelays
  <2> HIDE DEF q, s
  <2>4. all \in Seq(Writes) /\ ShownIsLast(all, None)
    BY <2>2, <2>3, FlushMarks
  <2> HIDE DEF all
  <2>5. ShownIsLast(Await("settle", all), None)
    BY <2>4, AwaitShows
  <2> QED BY <2>1, <2>5 DEF ShownIsLast
<1>8. CASE SettleWrite
  <2>1. UNCHANGED <<loaded, shown, effect, scheduled, failedTail, saved>>
    BY <1>8 DEF SettleWrite, display, host
  <2>2. CASE queue' = queue
    BY <2>1, <2>2 DEF Newest, ShownIsLast
  <2>3. CASE queue' = Append(queue, Write(screen, shown, {"settle"})) /\ scheduled = None
    <3> DEFINE w == Write(screen, shown, {"settle"})
    <3>1. loaded = screen /\ Fits(loaded, shown)
      BY <1>1, <2>1 DEF ScreenOK
    <3>2. w \in Writes /\ w.account = loaded /\ w.store = shown
      BY <3>1 DEF Write, Writes, Fits, Stores
    <3>3. queue' = Append(queue, w)
      BY <2>3
    <3> HIDE DEF w
    <3>4. queue' # <<>> /\ queue'[Len(queue')] = w
      BY <1>1, <3>2, <3>3, AppendMarks
    <3> QED BY <2>1, <2>3, <3>2, <3>4 DEF ShownIsLast
  <2>4. CASE queue' = Append(queue, Write(screen, shown, {"settle"})) /\ scheduled # None
    BY <2>1, <2>4 DEF Newest, ShownIsLast
  <2> QED BY <1>8, <2>2, <2>3, <2>4 DEF SettleWrite
<1>9. CASE /\ queue' = Await("account", Flushed) /\ scheduled' = None
           /\ UNCHANGED <<loaded, shown, effect, failedTail, saved>>
  <2>1. Flushed \in Seq(Writes) /\ ShownIsLast(Flushed, None)
    BY <1>9, FlushedMarks DEF Newest
  <2>2. ShownIsLast(Await("account", Flushed), None)
    BY <2>1, AwaitShows
  <2> QED BY <1>9, <2>2 DEF ShownIsLast
<1>10. CASE UNCHANGED <<loaded, shown, effect, scheduled, queue, failedTail, saved>>
  BY <1>10 DEF Newest, ShownIsLast
<1> QED BY <1>2, <1>3, <1>4, <1>5, <1>6, <1>7, <1>8, <1>9, <1>10, ShownSteps DEF Moves

-----------------------------------------------------------------------------
(* The shutdown guard.                                                     *)

\* Only the guard marks a write as one it waits for.
LEMMA StaysUnmarked ==
    ASSUME IInv, Unmarked(queue), [Next]_vars, ~SettleFlush, ~SettleWrite
    PROVE  Unmarked(queue')
<1>1. TypeOK /\ ScreenOK /\ EffectOK /\ queue \in Seq(Writes)
  BY SFacts
<1>2. ASSUME NEW q \in Seq(Writes), Unmarked(q)
      PROVE  /\ Unmarked(Chained(effect, q))
             /\ \A w \in {"send", "account"} :
                  Await(w, q) \in Seq(Writes) /\ Unmarked(Await(w, q))
  BY <1>1, <1>2, ChainMarks, AwaitMarks
<1>3. Flushed \in Seq(Writes) /\ Unmarked(Flushed)
  BY FlushedMarks
<1>4. Unmarked(Chained(effect, queue)) /\ Unmarked(Await("send", queue))
  BY <1>1, <1>2
<1>5. Await("account", Flushed) \in Seq(Writes) /\ Unmarked(Await("account", Flushed))
  BY <1>2, <1>3
<1>6. Unmarked(Chained(effect, Await("account", Flushed)))
  BY <1>2, <1>5
<1>7. CASE Ask
  <2> DEFINE asked == With(shown, run.session, {"question"})
             w == Write(screen, asked, {"send"})
  <2>1. queue' = Chained(effect, Append(queue, w))
    BY <1>7 DEF Ask, Render
  <2>2. /\ Fits(loaded, asked) /\ loaded = screen
    <3>1. /\ run.session \in Session /\ run.n \in 1 .. MaxRun /\ transition.at = "none"
          /\ screen # None /\ Mine = screen /\ loaded = screen
          /\ Owner(active) = loaded /\ Fits(loaded, shown)
      BY <1>7, SFacts DEF Ask, RunOK, PlaceOK, ScreenOK, Mine
    <3>2. asked = shown \cup {Question}
      BY <3>1 DEF With, Mine, Question
    <3>3. Question \in Said /\ Owner(Question[1]) = loaded
          /\ <<Question[1], Question[2], "question">> = Question
      BY <3>1 DEF Question, Said, Part, Mine
    <3> HIDE DEF asked
    <3> QED BY <3>1, <3>2, <3>3 DEF Fits
  <2>3. w \in Writes /\ w.for = {"send"}
    BY <2>2 DEF Write, Writes, Fits, Stores
  <2> HIDE DEF w
  <2>4. Append(queue, w) \in Seq(Writes) /\ Unmarked(Append(queue, w))
    BY <1>1, <2>3, AppendMarks
  <2> QED BY <1>2, <2>1, <2>4
<1>8. CASE WriteSaved \/ WriteFails
  <2>1. queue # <<>> /\ queue' = Tail(queue)
    BY <1>8 DEF WriteSaved, WriteFails, Resolve
  <2> QED BY <1>1, <2>1, TailMarks
<1>9. CASE ~Ask /\ ~WriteSaved /\ ~WriteFails
  <2>1. \/ queue' = queue
        \/ queue' = Chained(effect, queue)
        \/ queue' = Flushed
        \/ queue' = Await("send", queue)
        \/ queue' = Await("account", Flushed)
        \/ queue' = Chained(effect, Await("account", Flushed))
    <3>1. CASE SendSteps
      BY <1>9, <3>1 DEF SendSteps, Abandon, NotSent, Start, Flush, Call, Reply, Answer,
                        Broken, Done, Render, writes
    <3>2. CASE Delta \/ ShowDelta
      BY <3>2 DEF Delta, ShowDelta, Render, writes
    <3>3. CASE WriteSteps
      BY <1>9, <3>3 DEF WriteSteps, RunEffect, DebounceEnds
    <3>4. CASE AccountSteps
      <4>1. CASE Load
        BY <4>1 DEF Load, Render, writes
      <4>2. CASE TransitionFails \/ AskHost \/ HostChanges
        BY <4>2 DEF TransitionFails, AskHost, HostChanges, writes
      <4>3. CASE Empty
        BY <4>3 DEF Empty, Render
      <4> QED BY <3>4, <4>1, <4>2, <4>3 DEF AccountSteps
    <3>5. CASE SettleSteps
      BY <3>5 DEF SettleSteps, SettleFails, SettleWritten, writes
    <3>6. CASE CallSteps
      BY <3>6 DEF CallSteps, CallStarts, CancelArrives, CallEnds, writes
    <3>7. CASE UserSteps
      <4>1. CASE Send \/ Resume
        BY <4>1 DEF Send, Resume, writes
      <4>2. CASE Stop \/ SwitchSession
        BY <4>2 DEF Stop, SwitchSession, Render
      <4>3. CASE ChangeAccount
        <5>1. CASE Aborts
          BY <4>3, <5>1 DEF ChangeAccount, Render
        <5>2. CASE ~Aborts
          BY <4>3, <5>2 DEF ChangeAccount
        <5> QED BY <5>1, <5>2
      <4>4. CASE Settle
        <5>1. CASE Aborts
          BY <4>4, <5>1 DEF Settle, Render
        <5>2. CASE ~Aborts
          BY <4>4, <5>2 DEF Settle, writes
        <5> QED BY <5>1, <5>2
      <4> QED BY <3>7, <4>1, <4>2, <4>3, <4>4 DEF UserSteps
    <3>8. CASE UNCHANGED vars
      BY <3>8 DEF vars, writes
    <3> QED BY <3>1, <3>2, <3>3, <3>4, <3>5, <3>6, <3>7, <3>8 DEF Next
  <2> QED BY <1>3, <1>4, <1>5, <1>6, <2>1
<1> QED BY <1>7, <1>8, <1>9

\* Before the guard flushes, it waits for nothing, and no account changes.
LEMMA CalmSteps ==
    ASSUME IInv, Settling, settle \notin {"flushing", "writing", "settled"}, [Next]_vars,
           ~SettleFlush
    PROVE  /\ settle' \in {"none", "stopping"} /\ heard'["settle"] = "none"
           /\ settle' # "none" => transition'.at = "none"
<1>1. /\ settle \in {"none", "stopping"} /\ heard["settle"] = "none" /\ Unmarked(queue)
      /\ settle # "none" => transition.at = "none"
      /\ heard \in [Waiter -> {"none", "waiting", "ok", "failed"}] /\ queue \in Seq(Writes)
  BY SFacts DEF Settling, TypeOK
<1>2. \A w \in {"send", "account"} : \A v :
        [heard EXCEPT ![w] = v]["settle"] = "none"
  BY <1>1
<1>3. \A w \in {"send", "account"} : \A q : Told(w, q)["settle"] = "none"
  BY <1>1 DEF Told
<1>4. CASE SendSteps \/ Delta \/ ShowDelta
  BY <1>1, <1>2, <1>3, <1>4
     DEF SendSteps, Abandon, Ask, NotSent, Start, Flush, Call, Reply, Answer, Broken, Delta,
         ShowDelta, changing
<1>5. CASE WriteSteps
  <2>1. CASE RunEffect \/ DebounceEnds
    BY <1>1, <2>1 DEF RunEffect, DebounceEnds, changing
  <2>2. CASE WriteSaved \/ WriteFails
    <3>1. /\ queue # <<>> /\ UNCHANGED changing
          /\ \E v : heard' = [w \in Waiter |-> IF w \in Head(queue).for THEN v ELSE heard[w]]
      <4>1. CASE WriteSaved
        BY <4>1 DEF WriteSaved, Resolve
      <4>2. CASE WriteFails
        BY <4>2 DEF WriteFails, Resolve
      <4> QED BY <2>2, <4>1, <4>2
    <3>2. Head(queue) = queue[1] /\ 1 \in DOMAIN queue
      BY <1>1, <3>1
    <3>3. "settle" \notin Head(queue).for
      BY <1>1, <3>2 DEF Unmarked
    <3> QED BY <1>1, <3>1, <3>3 DEF changing
  <2> QED BY <1>5, <2>1, <2>2 DEF WriteSteps
<1>6. CASE AccountSteps
  <2>1. transition.at # "none" /\ settle' = settle
    BY <1>6 DEF AccountSteps, TransitionFails, AskHost, HostChanges, Empty, Load
  <2>2. heard'["settle"] = "none"
    BY <1>1, <1>2, <1>3, <1>6
       DEF AccountSteps, TransitionFails, AskHost, HostChanges, Empty, Load
  <2> QED BY <1>1, <2>1, <2>2
<1>7. CASE SettleSteps
  BY <1>1, <1>7 DEF SettleSteps, SettleFails, SettleWrite, SettleWritten
<1>8. CASE CallSteps
  BY <1>1, <1>8 DEF CallSteps, CallStarts, CancelArrives, CallEnds, changing
<1>9. CASE UserSteps
  <2>1. CASE Send \/ Stop \/ SwitchSession \/ Resume
    BY <1>1, <2>1 DEF Send, Stop, SwitchSession, Resume, changing
  <2>2. CASE ChangeAccount
    BY <1>1, <1>3, <2>2 DEF ChangeAccount, Free
  <2>3. CASE Settle
    BY <1>1, <2>3 DEF Settle
  <2> QED BY <1>9, <2>1, <2>2, <2>3 DEF UserSteps
<1>10. CASE UNCHANGED vars
  BY <1>1, <1>10 DEF vars, changing
<1> QED BY <1>4, <1>5, <1>6, <1>7, <1>8, <1>9, <1>10 DEF Next

\* From then on only the writes and the guard itself go on.
LEMMA GuardedSteps ==
    ASSUME IInv, Guarded, settle \in {"flushing", "writing", "settled"}, [Next]_vars
    PROVE  \/ WriteSaved \/ WriteFails
           \/ SettleFails \/ SettleWrite \/ SettleWritten \/ Resume
           \/ UNCHANGED <<loaded, effect, scheduled, queue, failedTail, heard, send,
                          transition, settle>>
<1>1. /\ transition.at = "none" /\ send = "idle" /\ effect = None /\ scheduled = None
      /\ settle # "none" /\ settle # "stopping"
  BY DEF Guarded
<1>2. CASE SendSteps \/ Delta \/ ShowDelta
  <2>1. heard["send"] = "none"
    BY <1>1, SFacts DEF WaitsOK, TypeOK
  <2> QED BY <1>1, <1>2, <2>1
     DEF SendSteps, Abandon, Ask, NotSent, Start, Flush, Call, Reply, Answer, Broken, Delta,
         ShowDelta
<1>3. CASE WriteSteps
  BY <1>1, <1>3 DEF WriteSteps, RunEffect, DebounceEnds
<1>4. CASE AccountSteps
  BY <1>1, <1>4 DEF AccountSteps, TransitionFails, AskHost, HostChanges, Empty, Load
<1>5. CASE SettleSteps
  BY <1>1, <1>5 DEF SettleSteps, SettleFlush
<1>6. CASE CallSteps
  BY <1>6 DEF CallSteps, CallStarts, CancelArrives, CallEnds, display, writes, sending, changing
<1>7. CASE UserSteps
  BY <1>1, <1>7 DEF UserSteps, Send, Stop, SwitchSession, ChangeAccount, Settle, Free
<1>8. CASE UNCHANGED vars
  BY <1>8 DEF vars, display, writes, sending, changing
<1> QED BY <1>2, <1>3, <1>4, <1>5, <1>6, <1>7, <1>8 DEF Next

LEMMA SettleFlushGuards ==
    ASSUME IInv, Settling, SettleFlush
    PROVE  Settling'
<1> DEFINE q == Chained(effect, queue)
           s == Delayed(effect, scheduled)
           all == IF s = None THEN q ELSE Append(q, Write(s.account, s.store, {}))
<1>1. /\ settle = "stopping" /\ send = "idle"
      /\ queue' = Await("settle", all) /\ heard' = Told("settle", all)
      /\ scheduled' = None /\ effect' = None /\ settle' = "flushing"
      /\ UNCHANGED <<send, transition>>
  BY DEF SettleFlush, sending
<1>2. /\ transition.at = "none" /\ Unmarked(queue)
      /\ heard \in [Waiter -> {"none", "waiting", "ok", "failed"}] /\ queue \in Seq(Writes)
  BY <1>1, SFacts DEF Settling
<1>3. q \in Seq(Writes) /\ TimerFits(s) /\ Unmarked(q)
  BY <1>2, SFacts, ChainKeeps, EffectDelays, ChainMarks
<1> HIDE DEF q, s
<1>0. all = IF s = None THEN q ELSE Append(q, Write(s.account, s.store, {}))
  OBVIOUS
<1> HIDE DEF all
<1>4. all \in Seq(Writes) /\ Unmarked(all)
  <2>1. all \in Seq(Writes)
    BY <1>0, <1>3, FlushMarks
  <2>2. Unmarked(all)
    BY <1>0, <1>3, FlushUnmarks
  <2> QED BY <2>1, <2>2
<1>5. MarkedLast(queue') /\ queue' \in Seq(Writes) /\ (queue' = <<>> <=> all = <<>>)
  BY <1>1, <1>4, AwaitMarks
<1>6. heard'["settle"] # "waiting" => Unmarked(queue')
  <2>1. heard'["settle"] # "waiting" => queue' = <<>>
    BY <1>1, <1>2, <1>5 DEF Told
  <2>2. queue' = <<>> => Unmarked(queue')
    BY <1>5, Positions DEF Unmarked
  <2> QED BY <2>1, <2>2
<1>7. Guarded'
  BY <1>1, <1>2, <1>5, <1>6 DEF Guarded, Unmarked, MarkedLast
<1> QED BY <1>1, <1>7 DEF Settling

LEMMA WriteGuards ==
    ASSUME IInv, Guarded, settle \in {"flushing", "writing", "settled"},
           WriteSaved \/ WriteFails
    PROVE  Settling'
<1> DEFINE w == Head(queue)
<1>1. /\ queue # <<>> /\ queue' = Tail(queue)
      /\ UNCHANGED <<loaded, effect, scheduled, send, transition, settle>>
      /\ \/ /\ ~failedTail'
            /\ heard' = [v \in Waiter |-> IF v \in w.for THEN "ok" ELSE heard[v]]
         \/ heard' = [v \in Waiter |-> IF v \in w.for THEN "failed" ELSE heard[v]]
  <2>1. CASE WriteSaved
    BY <2>1 DEF WriteSaved, Resolve, display, sending, changing
  <2>2. CASE WriteFails
    BY <2>2 DEF WriteFails, Resolve, display, sending, changing
  <2> QED BY <2>1, <2>2
<1>2. queue \in Seq(Writes) /\ heard \in [Waiter -> {"none", "waiting", "ok", "failed"}]
  BY SFacts
<1>3. /\ queue' # <<>> => queue'[Len(queue')] = queue[Len(queue)]
      /\ queue' = <<>> => w = queue[Len(queue)]
      /\ Unmarked(queue) => Unmarked(queue')
      /\ MarkedLast(queue') /\ ("settle" \in w.for => queue' = <<>>)
  BY <1>1, <1>2, TailMarks DEF Guarded
<1>4. queue' = <<>> => Unmarked(queue')
  BY <1>2, Positions DEF Unmarked
<1>5. Unmarked(queue) => "settle" \notin w.for
  <2>1. w = queue[1] /\ 1 \in DOMAIN queue
    BY <1>1, <1>2
  <2> QED BY <2>1 DEF Unmarked
<1> HIDE DEF w
<1>6. /\ "settle" \notin w.for => heard'["settle"] = heard["settle"]
      /\ "settle" \in w.for => heard'["settle"] = "failed" \/ (heard'["settle"] = "ok" /\ ~failedTail')
  BY <1>1
<1>7. heard'["settle"] # "waiting" => Unmarked(queue')
  BY <1>3, <1>4, <1>6 DEF Guarded
<1>8. ASSUME settle = "writing", heard'["settle"] = "waiting"
      PROVE  queue' # <<>> /\ "settle" \in queue'[Len(queue')].for
  <2>1. "settle" \notin w.for /\ heard["settle"] = "waiting"
    BY <1>6, <1>8
  <2> QED BY <1>3, <1>8, <2>1 DEF Guarded
<1>9. ASSUME settle = "writing", heard'["settle"] = "ok"
      PROVE  queue' = <<>> /\ ~failedTail'
  <2>1. heard["settle"] # "ok"
    BY <1>1, <1>9 DEF Guarded
  <2> QED BY <1>3, <1>6, <1>9, <2>1
<1>10. settle = "settled" => loaded = None /\ heard'["settle"] = "none"
  BY <1>1, <1>5, <1>6 DEF Guarded
<1>11. Guarded'
  BY <1>1, <1>3, <1>7, <1>8, <1>9, <1>10 DEF Guarded, Unmarked, MarkedLast
<1> QED BY <1>1, <1>11 DEF Settling

LEMMA SettleEndGuards ==
    ASSUME IInv, Guarded, settle \in {"flushing", "writing", "settled"},
           SettleFails \/ SettleWrite \/ SettleWritten \/ Resume
    PROVE  Settling'
<1>1. /\ queue \in Seq(Writes) /\ heard \in [Waiter -> {"none", "waiting", "ok", "failed"}]
      /\ ScreenOK
  BY SFacts
<1>2. CASE SettleFails \/ Resume
  <2>1. /\ settle' = "none" /\ heard'["settle"] = "none" /\ heard["settle"] # "waiting"
        /\ queue' = queue
    BY <1>1, <1>2 DEF SettleFails, Resume, writes, Guarded
  <2> QED BY <2>1 DEF Settling, Guarded, Unmarked
<1>3. CASE SettleWritten
  <2>1. /\ settle = "writing" /\ heard["settle"] = "ok" /\ heard'["settle"] = "none"
        /\ settle' = "settled"
        /\ UNCHANGED <<loaded, effect, scheduled, queue, failedTail, send, transition>>
    BY <1>1, <1>3 DEF SettleWritten, display, writes, sending
  <2>2. Guarded'
    BY <2>1 DEF Guarded, Unmarked, MarkedLast
  <2> QED BY <2>1, <2>2 DEF Settling
<1>4. CASE SettleWrite /\ settle' = "settled"
  <2>1. /\ heard["settle"] = "ok" /\ heard'["settle"] = "none" /\ loaded = None
        /\ UNCHANGED <<loaded, effect, scheduled, queue, failedTail, send, transition>>
    BY <1>1, <1>4 DEF SettleWrite, display, sending, ScreenOK
  <2>2. Guarded'
    BY <1>4, <2>1 DEF Guarded, Unmarked, MarkedLast
  <2> QED BY <1>4, <2>2 DEF Settling
<1>5. CASE SettleWrite /\ settle' # "settled"
  <2> DEFINE w == Write(screen, shown, {"settle"})
  <2>1. /\ heard["settle"] = "ok" /\ heard'["settle"] = "waiting" /\ settle' = "writing"
        /\ screen # None /\ loaded = screen /\ queue' = Append(queue, w)
        /\ UNCHANGED <<loaded, effect, scheduled, failedTail, send, transition>>
    BY <1>1, <1>5 DEF SettleWrite, display, sending
  <2>2. w \in Writes /\ w.for = {"settle"}
    BY <1>1, <2>1 DEF ScreenOK, Write, Writes, Fits, Stores
  <2> HIDE DEF w
  <2>3. queue' # <<>> /\ queue'[Len(queue')] = w /\ MarkedLast(queue')
    <3>1. Unmarked(queue) /\ queue \in Seq(Writes)
      BY <1>1, <2>1 DEF Guarded
    <3>2. queue' # <<>> /\ queue'[Len(queue')] = w
      BY <2>1, <2>2, <3>1, AppendMarks
    <3>3. MarkedLast(queue')
      BY <2>1, <2>2, <3>1, AppendMarks
    <3> QED BY <3>2, <3>3
  <2>4. Guarded'
    BY <2>1, <2>2, <2>3 DEF Guarded, MarkedLast
  <2> QED BY <2>1, <2>4 DEF Settling
<1> QED BY <1>2, <1>3, <1>4, <1>5

LEMMA SettlingKept ==
    ASSUME IInv, Settling, [Next]_vars
    PROVE  Settling'
<1>1. CASE settle \in {"flushing", "writing", "settled"}
  <2>1. Guarded
    BY <1>1 DEF Settling
  <2>2. CASE UNCHANGED <<loaded, effect, scheduled, queue, failedTail, heard, send,
                         transition, settle>>
    BY <1>1, <2>1, <2>2 DEF Settling, Guarded, Unmarked, MarkedLast
  <2> QED BY <1>1, <2>1, <2>2, GuardedSteps, WriteGuards, SettleEndGuards
<1>2. CASE settle \notin {"flushing", "writing", "settled"} /\ ~SettleFlush
  <2>1. Unmarked(queue)
    BY <1>2 DEF Settling
  <2>2. ~SettleWrite
    BY <1>2 DEF SettleWrite
  <2>3. Unmarked(queue')
    BY <1>2, <2>1, <2>2, StaysUnmarked
  <2> QED BY <1>2, <2>3, CalmSteps DEF Settling, Unmarked
<1> QED BY <1>1, <1>2, SettleFlushGuards

LEMMA InitSInv == Init => SInv
<1> SUFFICES ASSUME Init PROVE SInv
  OBVIOUS
<1>1. Newest
  BY DEF Init, Newest
<1>2. settle = "none" /\ heard["settle"] = "none" /\ queue = <<>>
  BY DEF Init
<1>3. Settling
  BY <1>2 DEF Settling, Unmarked
<1> QED BY <1>1, <1>3 DEF SInv

\* Nothing said is lost while the program runs on: with nothing under way and no
\* write refused, an account has stored what its screen shows; and an update or
\* another document is let through only with the conversation stored to the last
\* word (flushAgentSessionWrites and the shutdown guard of AgentOverlay).
THEOREM NothingSaidIsEverLost == Spec => []NothingSaidIsLost
<1>1. IInv /\ SInv => NothingSaidIsLost
  <2> SUFFICES ASSUME IInv, SInv PROVE NothingSaidIsLost
    OBVIOUS
  <2>1. QuietMeansStored
    BY DEF SInv, Newest, ShownIsLast, QuietMeansStored
  <2>2. SettledMeansStored
    <3>1. ASSUME settle = "settled"
          PROVE  send = "idle" /\ call.at = "none" /\ (loaded # None => saved[loaded] = shown)
      <4>1. Guarded
        BY <3>1 DEF SInv, Settling
      <4>2. call.at = "none"
        BY <4>1, SFacts DEF Guarded, RunOK
      <4> QED BY <3>1, <4>1, <4>2 DEF Guarded, SInv, Newest, ShownIsLast
    <3> QED BY <3>1 DEF SettledMeansStored
  <2> QED BY <2>1, <2>2 DEF NothingSaidIsLost
<1>2. IInv /\ SInv /\ [Next]_vars => SInv'
  BY NextIInv, NewestKept, SettlingKept DEF SInv
<1> QED BY <1>1, <1>2, InitSInv, IInvHolds, PTL DEF Spec
=============================================================================
