------------------------ MODULE ProviderCalls_proofs ------------------------
(***************************************************************************)
(* Proofs about ModelSelector and about ProviderCalls, which extends it:   *)
(* first the selector with any users (Spec), then the providers that use   *)
(* it (CallSpec).  They hold for every number of requests, providers,      *)
(* modes and models, every refresh interval, whichever modes are capped    *)
(* and whichever models answer only without a cap.                         *)
(***************************************************************************)
EXTENDS ProviderCalls, TLAPS

-----------------------------------------------------------------------------
(***************************************************************************)
(* The selector                                                            *)
(***************************************************************************)

\* Where a request is, and what it is there for.
CallerOK(c) ==
    /\ pc[c] = "idle" <=> asks[c] = <<>>
    /\ pc[c] # "idle" => booting = {}

Fetching(p) == \E c \in Callers : pc[c] = "fetching" /\ asks[c][1] = p

\* The stamp of a provider is that of its last fetch, unless it has been removed;
\* a stamp that is missing is owed a fetch, or the fetch is on its way.
StampOK(p) ==
    /\ fetchedAt[p] # NotFetched => fetchedAt[p] = endedAt[p]
    /\ fetchedAt[p] = NotFetched => owed[p] \/ Fetching(p) \/ p \in booting

\* The inductive invariant.
IInv ==
    /\ TypeOK
    /\ LockIsHeld
    /\ \A c \in Callers : CallerOK(c)
    /\ \A p \in Providers : StampOK(p)

-----------------------------------------------------------------------------
(* Sequences as a lock uses them *)

\* A tail is what is left of a non-empty sequence after its head.
LEMMA TailOfLock ==
    ASSUME NEW s \in Seq(Callers), s # <<>>
    PROVE  /\ Tail(s) \in Seq(Callers)
           /\ Head(s) = s[1] /\ 1 \in 1..Len(s) /\ Len(s) \in Nat
           /\ Len(Tail(s)) = Len(s) - 1
           /\ \A i \in 1..Len(Tail(s)) : Tail(s)[i] = s[i+1] /\ i+1 \in 1..Len(s)
  OBVIOUS

\* A sequence with one element more.
LEMMA AppendToLock ==
    ASSUME NEW s \in Seq(Callers), NEW c \in Callers
    PROVE  /\ Append(s, c) \in Seq(Callers)
           /\ Len(s) \in Nat /\ Len(Append(s, c)) = Len(s) + 1
           /\ \A i \in 1..Len(s) : Append(s, c)[i] = s[i]
           /\ Append(s, c)[Len(s) + 1] = c
           /\ s # <<>> => Head(Append(s, c)) = Head(s) /\ Append(s, c) # <<>>
  OBVIOUS

\* Whoever holds the lock passes it on: nobody is lost, nobody comes twice.
LEMMA ReleaseKeepsLock ==
    ASSUME TypeOK, LockIsHeld, NEW c \in Callers,
           pc[c] = "fetching" \/ (pc[c] = "waiting" /\ Head(lock) = c),
           lock' = Tail(lock), pc' = [pc EXCEPT ![c] = "using"]
    PROVE  LockIsHeld' /\ lock' \in Seq(Callers)
<1>1. lock \in Seq(Callers) /\ lock # <<>> /\ Head(lock) = c
  BY DEF TypeOK, LockIsHeld
<1>2. /\ Tail(lock) \in Seq(Callers) /\ Head(lock) = lock[1]
      /\ 1 \in 1..Len(lock) /\ Len(lock) \in Nat /\ Len(Tail(lock)) = Len(lock) - 1
      /\ \A i \in 1..Len(Tail(lock)) : Tail(lock)[i] = lock[i+1] /\ i+1 \in 1..Len(lock)
  BY <1>1, TailOfLock
<1>3. \A i \in 1..Len(lock) : i # 1 => lock[i] # c
  BY <1>1, <1>2 DEF LockIsHeld
<1>4. \A d \in Callers : pc'[d] = IF d = c THEN "using" ELSE pc[d]
  BY DEF TypeOK
<1>5. \A d \in Callers : pc[d] = "fetching" => d = c
  BY <1>1 DEF LockIsHeld
<1>6. ASSUME NEW d \in Callers
      PROVE  pc'[d] = "waiting" <=> \E i \in 1..Len(lock') : lock'[i] = d /\ pc'[d] # "fetching"
  <2>1. CASE d = c
    <3>1. \A i \in 1..Len(Tail(lock)) : Tail(lock)[i] # c
      <4>1. TAKE i \in 1..Len(Tail(lock))
      <4> QED BY <1>2, <1>3
    <3> QED BY <1>4, <2>1, <3>1
  <2>2. CASE d # c /\ pc[d] = "waiting"
    <3>1. PICK i \in 1..Len(lock) : lock[i] = d
      BY <2>2 DEF LockIsHeld
    <3>2. i # 1
      BY <1>1, <1>2, <2>2, <3>1
    <3>3. i-1 \in 1..Len(Tail(lock)) /\ Tail(lock)[i-1] = lock[i-1+1] /\ i-1+1 = i
      BY <1>2, <3>2
    <3>4. Tail(lock)[i-1] = d
      BY <3>1, <3>3
    <3> QED BY <1>4, <2>2, <3>3, <3>4
  <2>3. CASE d # c /\ pc[d] # "waiting"
    <3>1. \A i \in 1..Len(lock) : lock[i] # d
      BY <1>5, <2>3 DEF LockIsHeld
    <3>2. \A i \in 1..Len(Tail(lock)) : Tail(lock)[i] # d
      BY <1>2, <3>1
    <3> QED BY <1>4, <2>3, <3>2
  <2> QED BY <2>1, <2>2, <2>3
<1>7. \A d \in Callers : pc'[d] # "fetching"
  BY <1>4, <1>5
<1>8. \A i, j \in 1..Len(lock') : i # j => lock'[i] # lock'[j]
  <2>1. TAKE i, j \in 1..Len(Tail(lock))
  <2>2. /\ Tail(lock)[i] = lock[i+1] /\ i+1 \in 1..Len(lock)
        /\ Tail(lock)[j] = lock[j+1] /\ j+1 \in 1..Len(lock)
    BY <1>2
  <2>3. i # j => i+1 # j+1
    OBVIOUS
  <2> QED BY <2>2, <2>3 DEF LockIsHeld
<1> QED BY <1>2, <1>6, <1>7, <1>8 DEF LockIsHeld

\* A request that finds the lock taken queues behind everybody.
LEMMA WaitKeepsLock ==
    ASSUME TypeOK, LockIsHeld, NEW c \in Callers, pc[c] = "idle", lock # <<>>,
           lock' = Append(lock, c), pc' = [pc EXCEPT ![c] = "waiting"]
    PROVE  LockIsHeld' /\ lock' \in Seq(Callers)
<1>1. lock \in Seq(Callers)
  BY DEF TypeOK
<1>2. /\ Append(lock, c) \in Seq(Callers)
      /\ Len(lock) \in Nat /\ Len(Append(lock, c)) = Len(lock) + 1
      /\ \A i \in 1..Len(lock) : Append(lock, c)[i] = lock[i]
      /\ Append(lock, c)[Len(lock) + 1] = c
      /\ Head(Append(lock, c)) = Head(lock) /\ Append(lock, c) # <<>>
  BY <1>1, AppendToLock
<1>3. \A i \in 1..Len(lock) : lock[i] # c
  BY DEF LockIsHeld
<1>4. \A d \in Callers : pc'[d] = IF d = c THEN "waiting" ELSE pc[d]
  BY DEF TypeOK
<1>5. \A i \in 1..Len(lock') : i \in 1..Len(lock) \/ i = Len(lock) + 1
  BY <1>2
<1>6. ASSUME NEW d \in Callers
      PROVE  pc'[d] = "waiting" <=> \E i \in 1..Len(lock') : lock'[i] = d /\ pc'[d] # "fetching"
  <2>1. CASE d = c
    <3>1. Len(lock) + 1 \in 1..Len(lock') /\ lock'[Len(lock) + 1] = c
      BY <1>2
    <3> QED BY <1>4, <2>1, <3>1
  <2>2. CASE d # c
    <3>1. (\E i \in 1..Len(lock') : lock'[i] = d) <=> (\E i \in 1..Len(lock) : lock[i] = d)
      BY <1>2, <1>5, <2>2
    <3> QED BY <1>4, <2>2, <3>1 DEF LockIsHeld
  <2> QED BY <2>1, <2>2
<1>7. \A d \in Callers : pc'[d] = "fetching" => lock' # <<>> /\ Head(lock') = d
  BY <1>2, <1>4 DEF LockIsHeld
<1>8. \A i, j \in 1..Len(lock') : i # j => lock'[i] # lock'[j]
  BY <1>2, <1>3, <1>5 DEF LockIsHeld
<1> QED BY <1>2, <1>6, <1>7, <1>8 DEF LockIsHeld

-----------------------------------------------------------------------------
(* The invariant *)

\* The process starts with nothing selected and the lock free.
LEMMA InitIInv == Init => IInv
<1> SUFFICES ASSUME Init PROVE IInv
  OBVIOUS
<1>1. TypeOK
  BY SelectorAssumption DEF Init, TypeOK, NotFetched
<1>2. LockIsHeld
  BY DEF Init, LockIsHeld
<1> QED BY <1>1, <1>2 DEF Init, IInv, CallerOK, StampOK

\* The end of a refresh leaves a selection and a stamp for its provider.
LEMMA RefreshedIsTyped ==
    ASSUME TypeOK, NEW p \in Providers, Refreshed(p)
    PROVE  /\ selection' \in [Providers -> [Modes -> Models \cup {NoModel}]]
           /\ fetchedAt' = [fetchedAt EXCEPT ![p] = now]
           /\ endedAt' = [endedAt EXCEPT ![p] = now]
           /\ fetchedAt' \in [Providers -> Nat \cup {NotFetched}]
           /\ endedAt' \in [Providers -> Nat \cup {NotFetched}]
<1>1. CASE \E catalog \in Catalogs : \E chosen \in Selections(p, catalog) :
              selection' = [selection EXCEPT ![p] = chosen]
  BY <1>1 DEF Refreshed, TypeOK, Selections
<1> QED BY <1>1 DEF Refreshed, TypeOK

\* Whoever waits or fetches came to a provider and a mode.
LEMMA AsksIsTyped ==
    ASSUME TypeOK, NEW c \in Callers, CallerOK(c), pc[c] # "idle"
    PROVE  /\ asks[c] \in Providers \X Modes
           /\ asks[c][1] \in Providers /\ asks[c][2] \in Modes
           /\ asks[c] = <<asks[c][1], asks[c][2]>>
BY DEF TypeOK, CallerOK

\* Every step keeps the invariant.
LEMMA NextIInv == IInv /\ [Next]_vars => IInv'
<1> SUFFICES ASSUME IInv, [Next]_vars PROVE IInv'
  OBVIOUS
<1>0. TypeOK /\ LockIsHeld /\ (\A c \in Callers : CallerOK(c)) /\ (\A p \in Providers : StampOK(p))
  BY DEF IInv
<1>1. CASE Tick
  <2>1. TypeOK'
    BY <1>0, <1>1, SelectorAssumption DEF TypeOK, Tick
  <2>2. LockIsHeld'
    BY <1>0, <1>1 DEF LockIsHeld, Tick
  <2> QED BY <1>0, <1>1, <2>1, <2>2 DEF IInv, CallerOK, StampOK, Fetching, Tick
<1>2. ASSUME NEW p \in Providers, Boot(p) PROVE IInv'
  <2>1. TypeOK'
    BY <1>0, <1>2, RefreshedIsTyped DEF Boot, TypeOK
  <2>2. LockIsHeld'
    BY <1>0, <1>2 DEF LockIsHeld, Boot
  <2>3. \A c \in Callers : CallerOK(c)'
    BY <1>0, <1>2 DEF CallerOK, Boot
  <2>4. \A q \in Providers : StampOK(q)'
    <3> TAKE q \in Providers
    <3>1. now # NotFetched
      BY <1>0 DEF TypeOK, NotFetched
    <3> QED BY <1>0, <1>2, <3>1, RefreshedIsTyped DEF StampOK, Fetching, Boot, TypeOK
  <2> QED BY <2>1, <2>2, <2>3, <2>4 DEF IInv
<1>3. ASSUME NEW c \in Callers, NEW p \in Providers, NEW m \in Modes, AskFresh(c, p, m)
      PROVE  IInv'
  <2>1. TypeOK'
    BY <1>0, <1>3 DEF AskFresh, Give, Idle, TypeOK
  <2>2. LockIsHeld'
    BY <1>0, <1>3 DEF LockIsHeld, AskFresh, Give, Idle, TypeOK
  <2>3. \A d \in Callers : CallerOK(d)'
    BY <1>0, <1>3 DEF CallerOK, AskFresh, Give, Idle, TypeOK
  <2>4. \A q \in Providers : StampOK(q)'
    <3> TAKE q \in Providers
    <3>1. Fetching(q) => Fetching(q)'
      BY <1>0, <1>3 DEF Fetching, AskFresh, Give, Idle, TypeOK
    <3> QED BY <1>0, <1>3, <3>1 DEF StampOK, AskFresh
  <2> QED BY <2>1, <2>2, <2>3, <2>4 DEF IInv
<1>4. ASSUME NEW c \in Callers, NEW p \in Providers, NEW m \in Modes, AskLocking(c, p, m)
      PROVE  IInv'
  <2>1. TypeOK'
    BY <1>0, <1>4 DEF AskLocking, StartFetch, Idle, TypeOK
  <2>2. LockIsHeld'
    <3>1. \A d \in Callers : pc[d] \notin {"waiting", "fetching"}
      BY <1>0, <1>4 DEF LockIsHeld, AskLocking
    <3>2. lock' = <<c>> /\ Len(lock') = 1 /\ lock'[1] = c /\ Head(lock') = c /\ lock' # <<>>
      BY <1>4 DEF AskLocking
    <3>3. \A d \in Callers : pc'[d] = IF d = c THEN "fetching" ELSE pc[d]
      BY <1>0, <1>4 DEF AskLocking, StartFetch, TypeOK
    <3> QED BY <3>1, <3>2, <3>3 DEF LockIsHeld
  <2>3. \A d \in Callers : CallerOK(d)'
    BY <1>0, <1>4 DEF CallerOK, AskLocking, StartFetch, Idle, TypeOK
  <2>4. \A q \in Providers : StampOK(q)'
    <3> TAKE q \in Providers
    <3>1. Fetching(p)'
      BY <1>0, <1>4 DEF Fetching, AskLocking, StartFetch, TypeOK
    <3>2. Fetching(q) => Fetching(q)'
      BY <1>0, <1>4 DEF Fetching, AskLocking, StartFetch, Idle, TypeOK
    <3> QED BY <1>0, <1>4, <3>1, <3>2 DEF StampOK, AskLocking, StartFetch, TypeOK
  <2> QED BY <2>1, <2>2, <2>3, <2>4 DEF IInv
<1>5. ASSUME NEW c \in Callers, NEW p \in Providers, NEW m \in Modes, AskWaiting(c, p, m)
      PROVE  IInv'
  <2>1. LockIsHeld' /\ lock' \in Seq(Callers)
    BY <1>0, <1>5, WaitKeepsLock DEF AskWaiting, Idle
  <2>2. TypeOK'
    BY <1>0, <1>5, <2>1 DEF AskWaiting, Idle, TypeOK
  <2>3. \A d \in Callers : CallerOK(d)'
    BY <1>0, <1>5 DEF CallerOK, AskWaiting, Idle, TypeOK
  <2>4. \A q \in Providers : StampOK(q)'
    <3> TAKE q \in Providers
    <3>1. Fetching(q) => Fetching(q)'
      BY <1>0, <1>5 DEF Fetching, AskWaiting, Idle, TypeOK
    <3> QED BY <1>0, <1>5, <3>1 DEF StampOK, AskWaiting
  <2> QED BY <2>1, <2>2, <2>3, <2>4 DEF IInv
<1>6. ASSUME NEW c \in Callers, WakeFresh(c) PROVE IInv'
  <2>0. asks[c] \in Providers \X Modes /\ asks[c] = <<asks[c][1], asks[c][2]>>
        /\ asks[c][1] \in Providers /\ asks[c][2] \in Modes
    BY <1>0, <1>6, AsksIsTyped DEF WakeFresh
  <2>1. LockIsHeld' /\ lock' \in Seq(Callers)
    BY <1>0, <1>6, ReleaseKeepsLock DEF WakeFresh, Give
  <2>2. TypeOK'
    BY <1>0, <1>6, <2>0, <2>1 DEF WakeFresh, Give, TypeOK
  <2>3. \A d \in Callers : CallerOK(d)'
    BY <1>0, <1>6, <2>0 DEF CallerOK, WakeFresh, Give, TypeOK
  <2>4. \A q \in Providers : StampOK(q)'
    <3> TAKE q \in Providers
    <3>1. Fetching(q) => Fetching(q)'
      BY <1>0, <1>6, <2>0 DEF Fetching, WakeFresh, Give, TypeOK
    <3> QED BY <1>0, <1>6, <3>1 DEF StampOK, WakeFresh
  <2> QED BY <2>1, <2>2, <2>3, <2>4 DEF IInv
<1>7. ASSUME NEW c \in Callers, WakeFetching(c) PROVE IInv'
  <2>0. asks[c][1] \in Providers
    BY <1>0, <1>7, AsksIsTyped DEF WakeFetching
  <2>1. TypeOK'
    BY <1>0, <1>7, <2>0 DEF WakeFetching, StartFetch, ProviderOf, TypeOK
  <2>2. LockIsHeld'
    <3>1. lock # <<>> /\ Head(lock) = c /\ lock[1] = c /\ lock' = lock /\ 1 \in 1..Len(lock)
      BY <1>0, <1>7, TailOfLock DEF WakeFetching, LockIsHeld, TypeOK
    <3>2. \A d \in Callers : pc'[d] = IF d = c THEN "fetching" ELSE pc[d]
      BY <1>0, <1>7 DEF WakeFetching, StartFetch, TypeOK
    <3> QED BY <1>0, <3>1, <3>2 DEF LockIsHeld
  <2>3. \A d \in Callers : CallerOK(d)'
    BY <1>0, <1>7 DEF CallerOK, WakeFetching, StartFetch, TypeOK
  <2>4. \A q \in Providers : StampOK(q)'
    <3> TAKE q \in Providers
    <3>1. Fetching(asks[c][1])'
      BY <1>0, <1>7 DEF Fetching, WakeFetching, StartFetch, TypeOK
    <3>2. Fetching(q) => Fetching(q)'
      BY <1>0, <1>7 DEF Fetching, WakeFetching, StartFetch, TypeOK
    <3> QED BY <1>0, <1>7, <3>1, <3>2 DEF StampOK, WakeFetching, StartFetch, ProviderOf, TypeOK
  <2> QED BY <2>1, <2>2, <2>3, <2>4 DEF IInv
<1>8. ASSUME NEW c \in Callers, FetchEnds(c) PROVE IInv'
  <2>0. asks[c] \in Providers \X Modes /\ asks[c] = <<asks[c][1], asks[c][2]>>
        /\ asks[c][1] \in Providers /\ asks[c][2] \in Modes
    BY <1>0, <1>8, AsksIsTyped DEF FetchEnds
  <2>1. LockIsHeld' /\ lock' \in Seq(Callers)
    BY <1>0, <1>8, ReleaseKeepsLock DEF FetchEnds, Give
  <2> DEFINE p == asks[c][1]
  <2>2. /\ selection' \in [Providers -> [Modes -> Models \cup {NoModel}]]
        /\ fetchedAt' = [fetchedAt EXCEPT ![p] = now]
        /\ endedAt' = [endedAt EXCEPT ![p] = now]
        /\ fetchedAt' \in [Providers -> Nat \cup {NotFetched}]
        /\ endedAt' \in [Providers -> Nat \cup {NotFetched}]
    BY <1>0, <1>8, <2>0, RefreshedIsTyped DEF FetchEnds, ProviderOf
  <2>3. TypeOK'
    BY <1>0, <1>8, <2>0, <2>1, <2>2 DEF FetchEnds, Give, TypeOK
  <2>4. \A d \in Callers : CallerOK(d)'
    BY <1>0, <1>8, <2>0 DEF CallerOK, FetchEnds, Give, TypeOK
  <2>5. \A q \in Providers : StampOK(q)'
    <3> TAKE q \in Providers
    <3>1. q # p => (Fetching(q) => Fetching(q)')
      BY <1>0, <1>8, <2>0 DEF Fetching, FetchEnds, Give, TypeOK
    <3>2. now # NotFetched
      BY <1>0 DEF TypeOK, NotFetched
    <3> QED BY <1>0, <1>8, <2>0, <2>2, <3>1, <3>2 DEF StampOK, FetchEnds, TypeOK
  <2> QED BY <2>1, <2>3, <2>4, <2>5 DEF IInv
<1>9. ASSUME NEW c \in Callers, Use(c) PROVE IInv'
  <2>0. asks[c][1] \in Providers /\ pc[c] = "using" /\ Finish(c)
    BY <1>0, <1>9, AsksIsTyped DEF Use, Works, MarkBad
  <2>1. TypeOK'
    <3>1. CASE Works(c)
      BY <1>0, <3>1 DEF Works, Finish, TypeOK
    <3>2. CASE MarkBad(c)
      <4>1. /\ denylist' \in SUBSET (Providers \X Models)
            /\ fetchedAt' \in [Providers -> Nat \cup {NotFetched}]
            /\ owed' \in [Providers -> BOOLEAN]
        <5> DEFINE p == asks[c][1]
        <5>1. model[c] \in Models /\ <<p, model[c]>> \in Providers \X Models
          BY <1>0, <2>0, <3>2 DEF MarkBad, TypeOK
        <5>2. CASE <<p, model[c]>> \in denylist
          BY <1>0, <3>2, <5>2 DEF MarkBad, ProviderOf, TypeOK
        <5>3. CASE <<p, model[c]>> \notin denylist
          <6>1. /\ denylist' = denylist \cup {<<p, model[c]>>}
                /\ fetchedAt' = [fetchedAt EXCEPT ![p] = NotFetched]
                /\ owed' = [owed EXCEPT ![p] = TRUE]
            BY <3>2, <5>3 DEF MarkBad, ProviderOf
          <6>2. denylist' \in SUBSET (Providers \X Models)
            BY <1>0, <5>1, <6>1 DEF TypeOK
          <6> HIDE DEF p
          <6> QED BY <1>0, <6>1, <6>2 DEF TypeOK
        <5> QED BY <5>2, <5>3
      <4> QED BY <1>0, <3>2, <4>1 DEF MarkBad, Finish, TypeOK
    <3> QED BY <1>9, <3>1, <3>2 DEF Use
  <2>2. LockIsHeld'
    BY <1>0, <1>9, <2>0 DEF LockIsHeld, Use, Works, MarkBad, Finish, TypeOK
  <2>3. \A d \in Callers : CallerOK(d)'
    BY <1>0, <1>9, <2>0 DEF CallerOK, Use, Works, MarkBad, Finish, TypeOK
  <2>4. \A q \in Providers : StampOK(q)'
    <3> TAKE q \in Providers
    <3>1. Fetching(q) => Fetching(q)'
      BY <1>0, <2>0 DEF Fetching, Finish, TypeOK
    <3>2. CASE Works(c)
      BY <1>0, <3>1, <3>2 DEF StampOK, Works
    <3>3. CASE MarkBad(c)
      BY <1>0, <2>0, <3>1, <3>3 DEF StampOK, MarkBad, ProviderOf, TypeOK
    <3> QED BY <1>9, <3>2, <3>3 DEF Use
  <2> QED BY <2>1, <2>2, <2>3, <2>4 DEF IInv
<1>10. CASE UNCHANGED vars
  BY <1>0, <1>10 DEF vars, IInv, TypeOK, LockIsHeld, CallerOK, StampOK, Fetching
<1> QED
  BY <1>1, <1>2, <1>3, <1>4, <1>5, <1>6, <1>7, <1>8, <1>9, <1>10 DEF Next, Ask, Wake

\* The selector's steps, whatever is fair: no proof below needs more.
Machine == Init /\ [][Next]_vars

\* The inductive invariant is an invariant of every instance.
LEMMA Invariance == Machine => []IInv
BY InitIInv, NextIInv, PTL DEF Machine

LEMMA SpecIsMachine == Spec => Machine
BY DEF Spec, Machine

-----------------------------------------------------------------------------
(* What the steps do to the catalogs and the selection *)

\* A fetch starts when its provider's selection has expired, and is the only one.
LEMMA FetchesAreNeeded == Machine => NoNeedlessFetch
<1>1. ASSUME IInv, [Next]_vars, NEW c \in Callers, pc[c] # "fetching", pc'[c] = "fetching"
      PROVE  LET p == asks'[c][1] IN owed[p] \/ now >= endedAt[p] + RefreshTTL
  <2>1. TypeOK /\ LockIsHeld /\ (\A d \in Callers : CallerOK(d)) /\ (\A p \in Providers : StampOK(p))
    BY <1>1 DEF IInv
  <2>2. ASSUME NEW p \in Providers, Expired(p), booting = {}, ~Fetching(p)
        PROVE  owed[p] \/ now >= endedAt[p] + RefreshTTL
    BY <2>1, <2>2, SelectorAssumption DEF Expired, StampOK, TypeOK, NotFetched
  <2>3. ASSUME NEW d \in Callers, NEW p \in Providers, NEW m \in Modes, AskLocking(d, p, m)
        PROVE  LET q == asks'[c][1] IN owed[q] \/ now >= endedAt[q] + RefreshTTL
    <3>1. c = d /\ asks'[c] = <<p, m>>
      BY <1>1, <2>1, <2>3 DEF AskLocking, StartFetch, TypeOK
    <3>2. ~Fetching(p)
      BY <2>1, <2>3 DEF AskLocking, LockIsHeld, Fetching
    <3>3. owed[p] \/ now >= endedAt[p] + RefreshTTL
      BY <2>2, <2>3, <3>2 DEF AskLocking, Idle
    <3> QED BY <3>1, <3>3
  <2>4. ASSUME NEW d \in Callers, WakeFetching(d)
        PROVE  LET q == asks'[c][1] IN owed[q] \/ now >= endedAt[q] + RefreshTTL
    <3>1. c = d /\ asks' = asks
      BY <1>1, <2>1, <2>4 DEF WakeFetching, StartFetch, TypeOK
    <3>2. asks[c][1] \in Providers /\ booting = {}
      BY <2>1, <2>4, <3>1, AsksIsTyped DEF WakeFetching, CallerOK
    <3>3. ~Fetching(asks[c][1])
      BY <2>1, <2>4, <3>1 DEF WakeFetching, LockIsHeld, Fetching
    <3>4. Expired(asks[c][1])
      BY <2>4, <3>1 DEF WakeFetching, ProviderOf
    <3> QED BY <2>2, <3>1, <3>2, <3>3, <3>4
  <2>5. ASSUME NEW d \in Callers,
               \/ \E p \in Providers, m \in Modes : AskFresh(d, p, m) \/ AskWaiting(d, p, m)
               \/ WakeFresh(d) \/ FetchEnds(d) \/ Use(d)
        PROVE  FALSE
    BY <1>1, <2>1, <2>5
       DEF AskFresh, AskWaiting, WakeFresh, FetchEnds, Give, Use, Works, MarkBad, Finish, TypeOK
  <2>6. ~Tick /\ ~UNCHANGED vars /\ ~(\E p \in Providers : Boot(p))
    BY <1>1 DEF Tick, vars, Boot
  <2> QED BY <1>1, <2>3, <2>4, <2>5, <2>6 DEF Next, Ask, Wake
<1> DEFINE Step == \A c \in Callers :
                      pc[c] # "fetching" /\ pc'[c] = "fetching" =>
                         LET p == asks'[c][1] IN owed[p] \/ now >= endedAt[p] + RefreshTTL
<1>2. IInv /\ [Next]_vars => [Step]_vars
  BY <1>1
<1> HIDE DEF Step
<1>3. Machine => [][Step]_vars
  BY <1>2, Invariance, PTL DEF Machine
<1> QED BY <1>3 DEF NoNeedlessFetch, Step

\* Only the end of a refresh changes a selection, to what Selections allows.
LEMMA OnlyRefreshSelects ==
    ASSUME IInv, [Next]_vars, selection' # selection
    PROVE  \E p \in Providers : Refreshed(p) /\ denylist' = denylist
<1>1. TypeOK /\ \A c \in Callers : CallerOK(c)
  BY DEF IInv
<1>2. ASSUME NEW c \in Callers, FetchEnds(c)
      PROVE  \E p \in Providers : Refreshed(p) /\ denylist' = denylist
  <2>1. asks[c][1] \in Providers
    BY <1>1, <1>2, AsksIsTyped DEF FetchEnds
  <2> QED BY <1>2, <2>1 DEF FetchEnds, ProviderOf
<1> QED
  BY <1>2 DEF Next, vars, Tick, Boot, Ask, AskFresh, AskLocking, AskWaiting, Wake, WakeFresh,
              WakeFetching, Use, Works, MarkBad

\* What a refresh may do to the selection of one mode.
LEMMA RefreshedSelects ==
    ASSUME TypeOK, NEW q \in Providers, Refreshed(q),
           NEW p \in Providers, NEW m \in Modes, selection'[p][m] # selection[p][m]
    PROVE  selection'[p][m] \in Models \ Denied(p)
<1>0. PICK catalog \in Catalogs : \E chosen \in Selections(q, catalog) :
          selection' = [selection EXCEPT ![q] = chosen]
  BY DEF Refreshed
<1>1. PICK chosen \in Selections(q, catalog) : selection' = [selection EXCEPT ![q] = chosen]
  BY <1>0
<1>2. p = q /\ selection'[p] = chosen
  BY <1>1 DEF TypeOK
<1>3. chosen[m] \in catalog[m] \ Denied(q) /\ catalog[m] \subseteq Models
  BY <1>1, <1>2 DEF Selections, Catalogs
<1> QED BY <1>2, <1>3

LEMMA PicksAreNotDenylisted == Machine => NoDenylistedPick
<1> DEFINE Step == \A p \in Providers, m \in Modes :
                      selection'[p][m] # selection[p][m] => <<p, selection'[p][m]>> \notin denylist
<1>1. IInv /\ [Next]_vars => [Step]_vars
  <2> SUFFICES ASSUME IInv, [Next]_vars, NEW p \in Providers, NEW m \in Modes,
                      selection'[p][m] # selection[p][m]
               PROVE  <<p, selection'[p][m]>> \notin denylist
    OBVIOUS
  <2>1. PICK q \in Providers : Refreshed(q)
    BY OnlyRefreshSelects
  <2>2. selection'[p][m] \in Models \ Denied(p)
    BY <2>1, RefreshedSelects DEF IInv
  <2> QED BY <2>2 DEF Denied
<1> HIDE DEF Step
<1>2. Machine => [][Step]_vars
  BY <1>1, Invariance, PTL DEF Machine
<1> QED BY <1>2 DEF NoDenylistedPick, Step

LEMMA SelectionsAreKept == Machine => SelectionIsKept
<1> DEFINE Step == \A p \in Providers, m \in Modes :
                      selection[p][m] # NoModel => selection'[p][m] # NoModel
<1>1. IInv /\ [Next]_vars => [Step]_vars
  <2> SUFFICES ASSUME IInv, [Next]_vars, NEW p \in Providers, NEW m \in Modes,
                      selection[p][m] # NoModel
               PROVE  selection'[p][m] # NoModel
    OBVIOUS
  <2>1. CASE selection'[p][m] # selection[p][m]
    <3>1. PICK q \in Providers : Refreshed(q)
      BY <2>1, OnlyRefreshSelects
    <3>2. selection'[p][m] \in Models \ Denied(p)
      BY <2>1, <3>1, RefreshedSelects DEF IInv
    <3> QED BY <3>2, SelectorAssumption
  <2> QED BY <2>1
<1> HIDE DEF Step
<1>2. Machine => [][Step]_vars
  BY <1>1, Invariance, PTL DEF Machine
<1> QED BY <1>2 DEF SelectionIsKept, Step

-----------------------------------------------------------------------------
(* The theorems *)

\* Type correctness.
THEOREM TypeCorrect == Spec => []TypeOK
<1>1. IInv => TypeOK
  BY DEF IInv
<1> QED BY <1>1, Invariance, SpecIsMachine, PTL

\* Whoever fetches a catalog holds the lock and whoever waits is in its queue, once
\* (model_selector.py:343, 349): the lock serialises the fetches of all providers.
THEOREM FetchesAreSerialised == Spec => []LockIsHeld
<1>1. IInv => LockIsHeld
  BY DEF IInv
<1> QED BY <1>1, Invariance, SpecIsMachine, PTL

\* A fetch starts only a whole TTL after the last one ended or after a mark_bad that
\* no fetch has followed (the double check, model_selector.py:347-351).
THEOREM CatalogIsNotHammered == Spec => NoNeedlessFetch
BY FetchesAreNeeded, SpecIsMachine

\* No refresh picks a model that is denylisted when it ends (model_selector.py:317).
THEOREM DenylistedIsNotPicked == Spec => NoDenylistedPick
BY PicksAreNotDenylisted, SpecIsMachine

\* A selection that has been made is never taken away (model_selector.py:305, 321-327).
THEOREM SelectionIsNeverLost == Spec => SelectionIsKept
BY SelectionsAreKept, SpecIsMachine

-----------------------------------------------------------------------------
(***************************************************************************)
(* The providers                                                           *)
(***************************************************************************)

PostTo == [provider : Providers, model : Models \cup {DefaultModel},
           auto : BOOLEAN, capped : BOOLEAN]

\* A post to a model the selector gave out is one of a request that is using it, at
\* the provider it asked for: what the post's outcome denylists is what was posted to.
Honest(c) ==
    call[c].auto => /\ pc[c] = "using"
                    /\ call[c].model = model[c]
                    /\ call[c].provider = asks[c][1]

\* The inductive invariant: the selector's, and what the posts add to it.
CallInv ==
    /\ IInv
    /\ CallTypeOK
    /\ \A c \in Callers : Honest(c)
    /\ SoundIsNotDenied

-----------------------------------------------------------------------------
(***************************************************************************)
(* The providers use the selector as it is meant to be used: a step of     *)
(* theirs is one of its own or leaves it alone.                            *)
(***************************************************************************)

LEMMA StepsOfTheSelector == [CallNext]_callVars => [Next]_vars
<1> SUFFICES ASSUME [CallNext]_callVars PROVE [Next]_vars
  OBVIOUS
<1>1. ASSUME NEW c \in Callers, PostEnds(c)
      PROVE  Use(c) \/ UNCHANGED vars
  BY <1>1 DEF PostEnds, Answers, FailsForNow, FailsForGood, Truncated, EmptyTruncated, Escapes,
              ThinksInVain, Condemns, Ends, Use
<1>2. ASSUME NEW c \in Callers, NEW p \in Providers, NEW m \in Modes, NEW id \in Models,
             GenerateGiven(c, p, m, id)
      PROVE  UNCHANGED vars
  BY <1>2 DEF GenerateGiven
<1>3. ASSUME NEW c \in Callers, GenerateAsks(c) \/ GenerateWakes(c) \/ GenerateFetched(c)
      PROVE  Ask(c) \/ Wake(c) \/ FetchEnds(c)
  BY <1>3 DEF GenerateAsks, GenerateWakes, GenerateFetched
<1>4. CASE CallTick
  BY <1>4 DEF CallTick, Next
<1>5. ASSUME NEW p \in Providers, CallBoot(p)
      PROVE  Boot(p)
  BY <1>5 DEF CallBoot
<1>6. CASE UNCHANGED callVars
  BY <1>6 DEF callVars
<1> QED BY <1>1, <1>2, <1>3, <1>4, <1>5, <1>6 DEF CallNext, Next

\* UsesSelector but for its fairness: a provider call changes the state of the selector
\* (providers.py:96-104, 213-245) only as ModelSelector allows.
THEOREM CallsAreTheMachine == CallSpec => Machine
<1>1. CallInit => Init
  BY DEF CallInit
<1> QED BY <1>1, StepsOfTheSelector, PTL DEF CallSpec, Machine

-----------------------------------------------------------------------------
(* The invariant *)

\* A step of the selector for c changes what it holds of c alone, and denylists nothing
\* unless it is a mark_bad.
LEMMA OnlyForCaller ==
    ASSUME TypeOK, NEW c \in Callers,
           Ask(c) \/ Wake(c) \/ FetchEnds(c) \/ Works(c) \/ MarkBad(c)
    PROVE  /\ \A d \in Callers \ {c} :
                 pc'[d] = pc[d] /\ asks'[d] = asks[d] /\ model'[d] = model[d]
           /\ ~MarkBad(c) => denylist' = denylist
<1>1. CASE Ask(c)
  BY <1>1 DEF Ask, AskFresh, AskLocking, AskWaiting, Give, StartFetch, TypeOK
<1>2. CASE Wake(c)
  BY <1>2 DEF Wake, WakeFresh, WakeFetching, Give, StartFetch, TypeOK
<1>3. CASE FetchEnds(c)
  BY <1>3 DEF FetchEnds, Give, TypeOK
<1>4. CASE Works(c)
  BY <1>4 DEF Works, Finish, TypeOK
<1>5. CASE MarkBad(c)
  BY <1>5 DEF MarkBad, Finish, TypeOK
<1> QED BY <1>1, <1>2, <1>3, <1>4, <1>5

\* The fields of a record, and of one with a field changed, whatever their types.
LEMMA RecordFields ==
    ASSUME NEW p, NEW id, NEW a, NEW b, NEW post,
           post = [provider |-> p, model |-> id, auto |-> a, capped |-> b]
    PROVE  post.provider = p /\ post.model = id /\ post.auto = a /\ post.capped = b
OBVIOUS

LEMMA FieldChanged ==
    ASSUME NEW P, NEW M, NEW B, NEW post \in [provider : P, model : M, auto : B, capped : B],
           NEW v \in B
    PROVE  \E again \in [provider : P, model : M, auto : B, capped : B] :
              /\ again = [post EXCEPT !.capped = v]
              /\ again.provider = post.provider /\ again.model = post.model
              /\ again.auto = post.auto /\ again.capped = v
<1>1. [post EXCEPT !.capped = v] \in [provider : P, model : M, auto : B, capped : B]
  OBVIOUS
<1>2. /\ [post EXCEPT !.capped = v].provider = post.provider
      /\ [post EXCEPT !.capped = v].model = post.model
      /\ [post EXCEPT !.capped = v].auto = post.auto
      /\ [post EXCEPT !.capped = v].capped = v
  OBVIOUS
<1> QED BY <1>1, <1>2, Zenon

\* A post that starts is typed, and capped only where nothing is known against it.
LEMMA StartIsTyped ==
    ASSUME CallTypeOK, NEW c \in Callers, NEW p \in Providers, NEW m \in Modes,
           NEW id \in Models \cup {DefaultModel}, NEW auto \in BOOLEAN,
           Start(c, p, m, id, auto)
    PROVE  /\ call' \in [Callers -> PostTo \cup {NoCall}]
           /\ call'[c].provider = p /\ call'[c].model = id /\ call'[c].auto = auto
           /\ call'[c].capped => <<p, id>> \notin uncapped
           /\ \A d \in Callers \ {c} : call'[d] = call[d]
<1>1. PICK capped \in BOOLEAN : capped = Capped(p, id, m)
  BY DEF Capped
<1>2. call' = [call EXCEPT ![c] = [provider |-> p, model |-> id, auto |-> auto,
                                   capped |-> capped]]
  BY <1>1 DEF Start
<1>3. PICK post : post = [provider |-> p, model |-> id, auto |-> auto, capped |-> capped]
  OBVIOUS
<1>4. /\ post \in PostTo
      /\ post.provider = p /\ post.model = id /\ post.auto = auto /\ post.capped = capped
      /\ call' = [call EXCEPT ![c] = post]
  BY <1>2, <1>3, RecordFields DEF PostTo
<1>5. call \in [Callers -> PostTo \cup {NoCall}]
  BY DEF CallTypeOK, PostTo
<1>6. /\ call' \in [Callers -> PostTo \cup {NoCall}]
      /\ call'[c] = post
      /\ \A d \in Callers \ {c} : call'[d] = call[d]
  BY <1>4, <1>5
<1>7. post.capped => <<p, id>> \notin uncapped
  BY <1>1, <1>4 DEF Capped
<1> QED BY <1>4, <1>6, <1>7, Zenon

\* A post without its cap is the same post otherwise.
LEMMA UncappedPost ==
    ASSUME NEW post \in PostTo
    PROVE  \E again \in PostTo : /\ again = [post EXCEPT !.capped = FALSE]
                                 /\ again.provider = post.provider /\ again.model = post.model
                                 /\ again.auto = post.auto /\ again.capped = FALSE
<1>1. PICK M, B, v : M = Models \cup {DefaultModel} /\ B = BOOLEAN /\ v = FALSE /\ v \in B
  OBVIOUS
<1>2. /\ post \in [provider : Providers, model : M, auto : B, capped : B]
      /\ PostTo = [provider : Providers, model : M, auto : B, capped : B]
  BY <1>1 DEF PostTo
<1>3. \E again \in [provider : Providers, model : M, auto : B, capped : B] :
              /\ again = [post EXCEPT !.capped = v]
              /\ again.provider = post.provider /\ again.model = post.model
              /\ again.auto = post.auto /\ again.capped = v
  BY <1>1, <1>2, FieldChanged, SMTT(60)
<1> QED BY <1>1, <1>2, <1>3

\* get_model has returned, or c is still on its way to a model.
LEMMA StartSelectedIsTyped ==
    ASSUME CallTypeOK, IInv', NEW c \in Callers, StartSelected(c)
    PROVE  \/ call' = call /\ pc'[c] # "using"
           \/ /\ call' \in [Callers -> PostTo \cup {NoCall}]
              /\ Honest(c)'
              /\ call'[c].capped => <<call'[c].provider, call'[c].model>> \notin uncapped
              /\ \A d \in Callers \ {c} : call'[d] = call[d]
<1> SUFFICES ASSUME pc'[c] = "using"
             PROVE  /\ call' \in [Callers -> PostTo \cup {NoCall}]
                    /\ Honest(c)'
                    /\ call'[c].capped => <<call'[c].provider, call'[c].model>> \notin uncapped
                    /\ \A d \in Callers \ {c} : call'[d] = call[d]
  BY DEF StartSelected
<1>1. PICK p \in Providers, m \in Modes, id \in Models \cup {NoModel} :
        asks'[c][1] = p /\ asks'[c][2] = m /\ model'[c] = id
  <2>1. /\ asks' \in [Callers -> (Providers \X Modes) \cup {<<>>}]
        /\ model' \in [Callers -> Models \cup {NoModel}]
    BY DEF IInv, TypeOK
  <2>2. asks'[c] # <<>>
    BY DEF IInv, CallerOK
  <2>3. asks'[c] \in Providers \X Modes /\ model'[c] \in Models \cup {NoModel}
    BY <2>1, <2>2
  <2> QED BY <2>3
<1>2. CASE id # NoModel
  <2>1. id \in Models \cup {DefaultModel} /\ Start(c, p, m, id, TRUE)
    BY <1>1, <1>2 DEF StartSelected
  <2>2. /\ call' \in [Callers -> PostTo \cup {NoCall}]
        /\ call'[c].provider = p /\ call'[c].model = id
        /\ call'[c].capped => <<p, id>> \notin uncapped
        /\ \A d \in Callers \ {c} : call'[d] = call[d]
    BY <2>1, StartIsTyped
  <2> QED BY <1>1, <2>2 DEF Honest
<1>3. CASE id = NoModel
  <2>1. Start(c, p, m, DefaultModel, FALSE)
    BY <1>1, <1>3 DEF StartSelected
  <2>2. /\ call' \in [Callers -> PostTo \cup {NoCall}]
        /\ call'[c].provider = p /\ call'[c].model = DefaultModel /\ call'[c].auto = FALSE
        /\ call'[c].capped => <<p, DefaultModel>> \notin uncapped
        /\ \A d \in Callers \ {c} : call'[d] = call[d]
    BY <2>1, StartIsTyped
  <2> QED BY <2>2 DEF Honest
<1> QED BY <1>2, <1>3

LEMMA CallInitInv == CallInit => CallInv
<1> SUFFICES ASSUME CallInit PROVE CallInv
  OBVIOUS
<1>1. IInv /\ denylist = {}
  BY InitIInv DEF CallInit, Init
<1>2. CallTypeOK
  BY DEF CallInit, CallTypeOK
<1>3. \A c \in Callers : Honest(c)
  BY DEF CallInit, Honest, NoCall
<1> QED BY <1>1, <1>2, <1>3 DEF CallInv, SoundIsNotDenied

\* The answer to a post: what the next state owes to the kind of answer.
LEMMA PostEndsKeepsCallInv ==
    ASSUME CallInv, IInv', NEW c \in Callers, PostEnds(c)
    PROVE  CallInv'
<1>1. /\ TypeOK /\ SoundIsNotDenied /\ \A d \in Callers : Honest(d)
      /\ call \in [Callers -> PostTo \cup {NoCall}]
      /\ uncapped \in SUBSET (Providers \X (Models \cup {DefaultModel}))
  BY DEF CallInv, IInv, CallTypeOK, PostTo
<1>2. CASE Truncated(c)
  <2>1. /\ UNCHANGED vars /\ call[c] \in PostTo /\ call[c] # NoCall
        /\ call' = [call EXCEPT ![c].capped = FALSE]
        /\ uncapped' = uncapped \cup {<<call[c].provider, call[c].model>>}
    BY <1>1, <1>2 DEF Truncated, Posting, Key
  <2>2. PICK post \in PostTo : /\ post = [call[c] EXCEPT !.capped = FALSE]
                               /\ post.auto = call[c].auto /\ post.model = call[c].model
                               /\ post.provider = call[c].provider
    BY <2>1, UncappedPost
  <2>3. call' = [call EXCEPT ![c] = post]
    BY <2>1, <2>2
  <2>4. CallTypeOK'
    <3>1. call' \in [Callers -> PostTo \cup {NoCall}]
      BY <1>1, <2>3
    <3>2. <<call[c].provider, call[c].model>> \in Providers \X (Models \cup {DefaultModel})
      BY <2>1 DEF PostTo
    <3> QED BY <1>1, <2>1, <3>1, <3>2 DEF CallTypeOK, PostTo
  <2>5. \A d \in Callers : Honest(d)'
    BY <1>1, <2>1, <2>2, <2>3 DEF Honest, vars
  <2>6. SoundIsNotDenied'
    BY <1>1, <2>1 DEF SoundIsNotDenied, vars
  <2> QED BY <2>4, <2>5, <2>6 DEF CallInv
<1>3. CASE ~Truncated(c)
  <2>1. /\ Over(c) /\ uncapped' = uncapped
        /\ \/ Works(c) \/ UNCHANGED vars
           \/ MarkBad(c) /\ call[c].auto /\ call[c].model \notin Thinking \ Bare
    BY <1>3 DEF PostEnds, Answers, FailsForNow, FailsForGood, EmptyTruncated, Escapes,
                ThinksInVain, Condemns, Ends, Sound, CutBare
  <2>2. call' = [call EXCEPT ![c] = NoCall]
    BY <2>1 DEF Over
  <2>3. CallTypeOK'
    <3>1. call' \in [Callers -> PostTo \cup {NoCall}]
      BY <1>1, <2>2
    <3> QED BY <1>1, <2>1, <3>1 DEF CallTypeOK, PostTo
  <2>4. \A d \in Callers \ {c} :
          pc'[d] = pc[d] /\ asks'[d] = asks[d] /\ model'[d] = model[d] /\ call'[d] = call[d]
    <3>1. \A d \in Callers \ {c} :
            pc'[d] = pc[d] /\ asks'[d] = asks[d] /\ model'[d] = model[d]
      BY <1>1, <2>1, OnlyForCaller DEF vars
    <3> QED BY <1>1, <2>2, <3>1
  <2>5. \A d \in Callers : Honest(d)'
    <3>1. ~call'[c].auto
      BY <1>1, <2>2 DEF NoCall
    <3>2. \A d \in Callers \ {c} : Honest(d)'
      BY <1>1, <2>4 DEF Honest
    <3> QED BY <3>1, <3>2 DEF Honest
  <2>6. SoundIsNotDenied'
    <3>1. CASE MarkBad(c) /\ call[c].auto /\ call[c].model \notin Thinking \ Bare
      <4>1. denylist' \subseteq denylist \cup {<<asks[c][1], model[c]>>}
        BY <3>1 DEF MarkBad, ProviderOf
      <4>2. model[c] \notin Thinking \ Bare
        BY <1>1, <3>1 DEF Honest
      <4> QED BY <1>1, <4>1, <4>2 DEF SoundIsNotDenied
    <3>2. CASE Works(c) \/ UNCHANGED vars
      BY <1>1, <3>2 DEF SoundIsNotDenied, Works, Finish, vars
    <3> QED BY <2>1, <3>1, <3>2
  <2> QED BY <2>3, <2>5, <2>6 DEF CallInv
<1> QED BY <1>2, <1>3

\* A call begins, with a model of the client's own or on its way to the selector's.
LEMMA CallBeginsKeepsCallInv ==
    ASSUME CallInv, IInv', NEW c \in Callers,
           \/ \E p \in Providers, m \in Modes, id \in Models : GenerateGiven(c, p, m, id)
           \/ GenerateAsks(c) \/ GenerateWakes(c) \/ GenerateFetched(c)
    PROVE  CallInv'
<1>1. /\ TypeOK /\ CallTypeOK /\ SoundIsNotDenied /\ \A d \in Callers : Honest(d)
      /\ call \in [Callers -> PostTo \cup {NoCall}]
  BY DEF CallInv, IInv, CallTypeOK, PostTo
<1>2. ASSUME NEW p \in Providers, NEW m \in Modes, NEW id \in Models, GenerateGiven(c, p, m, id)
      PROVE  CallInv'
  <2>1. Start(c, p, m, id, FALSE) /\ UNCHANGED <<vars, uncapped>> /\ FALSE \in BOOLEAN
    BY <1>2 DEF GenerateGiven
  <2>2. /\ call' \in [Callers -> PostTo \cup {NoCall}]
        /\ ~call'[c].auto
        /\ \A d \in Callers \ {c} : call'[d] = call[d]
    BY <1>1, <2>1, StartIsTyped
  <2>3. CallTypeOK'
    BY <1>1, <2>1, <2>2 DEF CallTypeOK, PostTo
  <2>4. \A d \in Callers : Honest(d)'
    BY <1>1, <2>1, <2>2 DEF Honest, vars
  <2>5. SoundIsNotDenied'
    BY <1>1, <2>1 DEF SoundIsNotDenied, vars
  <2> QED BY <2>3, <2>4, <2>5 DEF CallInv
<1>3. ASSUME GenerateAsks(c) \/ GenerateWakes(c) \/ GenerateFetched(c)
      PROVE  CallInv'
  <2>1. /\ Ask(c) \/ Wake(c) \/ FetchEnds(c)
        /\ StartSelected(c) /\ uncapped' = uncapped
        /\ pc[c] # "using" \/ call[c] = NoCall
    BY <1>3 DEF GenerateAsks, GenerateWakes, GenerateFetched, Wake, WakeFresh, WakeFetching,
                FetchEnds
  <2>2. /\ \A d \in Callers \ {c} :
             pc'[d] = pc[d] /\ asks'[d] = asks[d] /\ model'[d] = model[d]
        /\ denylist' = denylist
    <3>1. ~MarkBad(c) \/ pc[c] = "using"
      BY DEF MarkBad
    <3>2. pc[c] # "using"
      BY <1>3 DEF GenerateAsks, GenerateWakes, GenerateFetched, Ask, AskFresh, AskLocking,
                  AskWaiting, Idle, Wake, WakeFresh, WakeFetching, FetchEnds
    <3> QED BY <1>1, <2>1, <3>1, <3>2, OnlyForCaller
  <2>3. SoundIsNotDenied'
    BY <1>1, <2>2 DEF SoundIsNotDenied
  <2>4. ~call[c].auto
    BY <1>1, <2>1 DEF Honest, NoCall
  <2>5. \/ call' = call /\ pc'[c] # "using"
        \/ /\ call' \in [Callers -> PostTo \cup {NoCall}]
           /\ Honest(c)'
           /\ \A d \in Callers \ {c} : call'[d] = call[d]
    BY <1>1, <2>1, StartSelectedIsTyped
  <2>6. CallTypeOK'
    BY <1>1, <2>1, <2>5 DEF CallTypeOK, PostTo
  <2>7. \A d \in Callers : Honest(d)'
    <3>1. \A d \in Callers \ {c} : Honest(d)'
      BY <1>1, <2>2, <2>5 DEF Honest
    <3>2. Honest(c)'
      BY <2>4, <2>5 DEF Honest
    <3> QED BY <3>1, <3>2
  <2> QED BY <2>3, <2>6, <2>7 DEF CallInv
<1> QED BY <1>2, <1>3

LEMMA CallNextInv == CallInv /\ [CallNext]_callVars => CallInv'
<1> SUFFICES ASSUME CallInv, [CallNext]_callVars PROVE CallInv'
  OBVIOUS
<1>1. IInv'
  BY NextIInv, StepsOfTheSelector DEF CallInv
<1>2. ASSUME UNCHANGED <<denylist, pc, asks, model, call, uncapped>>
      PROVE  CallInv'
  BY <1>1, <1>2 DEF CallInv, CallTypeOK, Honest, SoundIsNotDenied
<1>3. CASE CallTick \/ (\E p \in Providers : CallBoot(p)) \/ UNCHANGED callVars
  BY <1>2, <1>3 DEF CallTick, Tick, CallBoot, Boot, callVars, vars
<1> QED BY <1>1, <1>3, PostEndsKeepsCallInv, CallBeginsKeepsCallInv DEF CallNext

LEMMA CallInvariance == CallSpec => []CallInv
BY CallInitInv, CallNextInv, PTL DEF CallSpec

-----------------------------------------------------------------------------
(* The theorems *)

\* Type correctness.
THEOREM CallTypeCorrect == CallSpec => []CallTypeOK
<1>1. CallInv => CallTypeOK
  BY DEF CallInv
<1> QED BY <1>1, CallInvariance, PTL

\* A model that does well without a cap, and whose cut answers have a content, be it an
\* empty one, is never denylisted (providers.py:184-186, 213-245): what an outcome
\* denylists is the model the post went to, the outcomes that denylist are none such a
\* model gives, capped or not, and a cap that cut it off is only noted.  Of a model
\* whose cut answers have no content it does not hold (CutOffIsNotBlamed).
THEOREM SoundModelsAreKept == CallSpec => []SoundIsNotDenied
<1>1. CallInv => SoundIsNotDenied
  BY DEF CallInv
<1> QED BY <1>1, CallInvariance, PTL

\* No capped post starts to a model that is known to be cut off by the cap
\* (providers.py:187-190): the posts of the calls under way only become fewer.
THEOREM NoNewWaste == CallSpec => WasteOnlyShrinks
<1> DEFINE Step == \A key \in uncapped :
                      {c \in Callers : call'[c].capped /\ <<call'[c].provider, call'[c].model>> = key}
                        \subseteq {c \in Callers : call[c].capped /\ Key(c) = key}
<1>1. CallInv /\ [CallNext]_callVars => [Step]_callVars
  <2> SUFFICES ASSUME CallInv, [CallNext]_callVars, NEW key \in uncapped, NEW c \in Callers,
                      call'[c].capped, <<call'[c].provider, call'[c].model>> = key
               PROVE  call[c].capped /\ Key(c) = key
    OBVIOUS
  <2>1. /\ CallTypeOK /\ IInv' /\ call \in [Callers -> PostTo \cup {NoCall}]
    BY NextIInv, StepsOfTheSelector DEF CallInv, CallTypeOK, PostTo
  <2>2. CASE call'[c] = call[c]
    BY <2>2 DEF Key
  <2>3. ASSUME NEW d \in Callers, NEW p \in Providers, NEW m \in Modes, NEW id \in Models,
               GenerateGiven(d, p, m, id)
        PROVE  call'[c] = call[c]
    <3>1. Start(d, p, m, id, FALSE) /\ FALSE \in BOOLEAN
      BY <2>3 DEF GenerateGiven
    <3>2. /\ call'[d].provider = p /\ call'[d].model = id
          /\ call'[d].capped => <<p, id>> \notin uncapped
          /\ \A e \in Callers \ {d} : call'[e] = call[e]
      BY <2>1, <3>1, StartIsTyped
    <3> QED BY <3>2
  <2>4. ASSUME NEW d \in Callers, GenerateAsks(d) \/ GenerateWakes(d) \/ GenerateFetched(d)
        PROVE  call'[c] = call[c]
    <3>1. StartSelected(d)
      BY <2>4 DEF GenerateAsks, GenerateWakes, GenerateFetched
    <3>2. \/ call' = call
          \/ /\ call'[d].capped => <<call'[d].provider, call'[d].model>> \notin uncapped
             /\ \A e \in Callers \ {d} : call'[e] = call[e]
      BY <2>1, <3>1, StartSelectedIsTyped
    <3> QED BY <3>2
  <2>5. ASSUME NEW d \in Callers, PostEnds(d)
        PROVE  call'[c] = call[c]
    <3>1. CASE Truncated(d)
      <4>1. call' = [call EXCEPT ![d].capped = FALSE] /\ call[d] \in PostTo
        BY <2>1, <3>1 DEF Truncated, Posting
      <4>2. PICK post \in PostTo : post = [call[d] EXCEPT !.capped = FALSE] /\ post.capped = FALSE
        BY <4>1, UncappedPost
      <4>3. call' = [call EXCEPT ![d] = post]
        BY <4>1, <4>2
      <4> QED BY <2>1, <4>2, <4>3
    <3>2. CASE ~Truncated(d)
      <4>1. call' = [call EXCEPT ![d] = NoCall]
        BY <2>5, <3>2, Zenon
           DEF PostEnds, Answers, FailsForNow, FailsForGood, EmptyTruncated, Escapes,
               ThinksInVain, Condemns, Ends, Over
      <4> QED BY <2>1, <4>1 DEF NoCall
    <3> QED BY <3>1, <3>2
  <2>6. CASE CallTick \/ (\E p \in Providers : CallBoot(p)) \/ UNCHANGED callVars
    BY <2>2, <2>6 DEF CallTick, CallBoot, callVars
  <2> QED BY <2>2, <2>3, <2>4, <2>5, <2>6 DEF CallNext
<1> HIDE DEF Step
<1>2. CallSpec => [][Step]_callVars
  BY <1>1, CallInvariance, PTL DEF CallSpec
<1> QED BY <1>2, PTL DEF WasteOnlyShrinks, Step

\* Whoever calls a provider fetches a catalog for it under the selector's lock only:
\* no way of calling (providers.py:96-104) goes around it.
THEOREM CallsFetchInTurn == CallSpec => []LockIsHeld
<1>1. CallInv => LockIsHeld
  BY DEF CallInv, IInv
<1> QED BY <1>1, CallInvariance, PTL

\* Nor does a provider call hammer the catalog, pick a denylisted model or lose a
\* selection, whatever the answers to the posts report to the selector.
THEOREM CallsDoNotHammer == CallSpec => NoNeedlessFetch
BY FetchesAreNeeded, CallsAreTheMachine

THEOREM CallsPickNoDenylisted == CallSpec => NoDenylistedPick
BY PicksAreNotDenylisted, CallsAreTheMachine

THEOREM CallsKeepSelection == CallSpec => SelectionIsKept
BY SelectionsAreKept, CallsAreTheMachine

=============================================================================
