----------------------- MODULE DaemonControllerProofs -----------------------
(***************************************************************************)
(* Theorems about DaemonController, for every configuration of runners,    *)
(* every set of clients and every batch size.                              *)
(***************************************************************************)
EXTENDS DaemonController, FiniteSetTheorems, SequenceTheorems, TLAPS

-----------------------------------------------------------------------------
(* Operators of the model.                                                 *)

\* decode undoes encode, for every id and kind.
LEMMA Codec ==
  ASSUME NEW r \in Nat, NEW k \in Kinds
  PROVE  /\ encode(r, k) \in Nat
         /\ decodeId(encode(r, k)) = r
         /\ decodeKind(encode(r, k)) = k
<1>1. r * KindSize \in Nat
  BY KindSizeAssumption
<1>2. k \in Nat
  BY KindSizeAssumption DEF Kinds
<1>3. r * KindSize + k \in Nat
  BY <1>1, <1>2
<1>4. (r * KindSize + k) \div KindSize = r /\ (r * KindSize + k) % KindSize = k
  BY KindSizeAssumption, SMT DEF Kinds
<1>5. QED BY <1>3, <1>4 DEF encode, decodeId, decodeKind

\* The kinds of the clients and the runners are kinds.
LEMMA KindTypes ==
  /\ \A c \in Clients : ClientKind[c] \in Kinds
  /\ \A r \in Runners : r \in Nat /\ r + 1 \in 1 .. Len(RunnerKind) /\ RunnerKind[r + 1] \in Kinds
  /\ Len(RunnerKind) \in Nat
<1>1. Len(RunnerKind) \in Nat
  BY KindAssumption, LenProperties
<1>2. \A r \in Runners : r \in Nat /\ r + 1 \in 1 .. Len(RunnerKind)
  BY <1>1 DEF Runners
<1>3. \A r \in Runners : RunnerKind[r + 1] \in Kinds
  BY <1>2, KindAssumption, ElementOfSeq DEF Kinds
<1>4. QED BY <1>1, <1>2, <1>3, KindAssumption DEF Kinds

\* A list without its last element.
LEMMA FrontProperties ==
  ASSUME NEW S, NEW s \in Seq(S), s # <<>>
  PROVE  /\ FrontOf(s) \in Seq(S)
         /\ Len(s) \in Nat \ {0}
         /\ Len(FrontOf(s)) = Len(s) - 1
         /\ \A i \in 1 .. Len(s) - 1 : FrontOf(s)[i] = s[i]
         /\ s[Len(s)] \in S
<1>1. Len(s) \in Nat \ {0}
  BY EmptySeq
<1>2. \A i \in 1 .. Len(s) - 1 : s[i] \in S
  BY <1>1, ElementOfSeq
<1> DEFINE f == SubSeq(s, 1, Len(s) - 1)
<1>3. /\ f \in Seq(S)
      /\ Len(f) = IF 1 <= Len(s) - 1 THEN (Len(s) - 1) - 1 + 1 ELSE 0
      /\ \A i \in 1 .. (Len(s) - 1) - 1 + 1 : f[i] = s[1 + i - 1]
  BY <1>1, <1>2, SubSeqProperties
<1>4. f = FrontOf(s)
  BY DEF FrontOf
<1> HIDE DEF f
<1>5. \A i \in 1 .. Len(s) - 1 : i \in 1 .. (Len(s) - 1) - 1 + 1 /\ 1 + i - 1 = i
  BY <1>1
<1>6. Len(f) = Len(s) - 1 /\ \A i \in 1 .. Len(s) - 1 : f[i] = s[i]
  <2>1. Len(f) = Len(s) - 1
    <3> DEFINE l == Len(s)
               m == Len(f)
    <3>1. l \in Nat \ {0} /\ m = IF 1 <= l - 1 THEN (l - 1) - 1 + 1 ELSE 0
      BY <1>1, <1>3
    <3> HIDE DEF l, m
    <3>2. m = l - 1
      BY <3>1
    <3>3. QED BY <3>2 DEF l, m
  <2>2. \A i \in 1 .. Len(s) - 1 : f[i] = s[1 + i - 1]
    BY <1>3, <1>5
  <2>3. QED BY <1>5, <2>1, <2>2
<1>7. s[Len(s)] \in S
  BY <1>1, ElementOfSeq
<1>8. QED BY <1>1, <1>3, <1>4, <1>6, <1>7

-----------------------------------------------------------------------------
(* Types.                                                                  *)

\* The ids a call works on are ids of runners.
Ids == \A c \in Clients : /\ call[c] \in {"setting", "clearing"} => id[c] \in Runners
                          /\ call[c] = "in" => \E r \in Runners :
                                                 handle[c] = encode(r, ClientKind[c])

\* A runner is inside an epoch only of its own worker and within its batch.
InEpoch == \A r \in Runners : running[r] # Nobody =>
             worker[r] = running[r] /\ loop[r] = "batch" /\ epochs[r] > 0

\* An owned handle decodes to a runner and the client's kind.
LEMMA HandleDecodes ==
  ASSUME Ids, NEW c \in Clients, call[c] = "in"
  PROVE  decodeId(handle[c]) \in Runners /\ decodeKind(handle[c]) = ClientKind[c]
<1>1. PICK r \in Runners : handle[c] = encode(r, ClientKind[c])
  BY DEF Ids
<1>2. QED BY <1>1, Codec, KindTypes

\* The constructor leaves every runner idle and every client outside.
LEMMA InitTypes == Init => TypeOK /\ Ids /\ InEpoch
<1> SUFFICES ASSUME Init PROVE TypeOK /\ Ids /\ InEpoch
  OBVIOUS
<1>1. freeIds \in [Kinds -> Seq(Runners)]
  <2>1. \A s \in Ascending : s \in Seq(Runners)
    BY KindTypes, SeqDef DEF Ascending
  <2>2. QED BY <2>1 DEF Init
<1>2. /\ ctl \in Clients \cup {Nobody} /\ aborted \subseteq Runners
      /\ call \in [Clients -> {"out", "refused", "setting", "in", "clearing"}]
      /\ id \in [Clients -> Nat] /\ handle \in [Clients -> Nat]
      /\ worker \in [Runners -> Clients \cup {Nobody}]
      /\ running \in [Runners -> Clients \cup {Nobody}]
      /\ loop \in [Runners -> {"spawned", "check", "lock", "batch", "ended"}]
  BY DEF Init
<1>3. epochs \in [Runners -> 0 .. LoopChk]
  BY LoopAssumption DEF Init
<1>4. pill \in [Runners -> BOOLEAN]
  BY DEF Init
<1>5. Ids /\ InEpoch
  BY DEF Init, Ids, InEpoch
<1>6. QED BY <1>1, <1>2, <1>3, <1>4, <1>5 DEF TypeOK

\* Every step of clients and runners keeps them.
LEMMA TypesStep == TypeOK /\ Ids /\ InEpoch /\ [Next]_vars => TypeOK' /\ Ids' /\ InEpoch'
<1> SUFFICES ASSUME TypeOK, Ids, InEpoch, [Next]_vars PROVE TypeOK' /\ Ids' /\ InEpoch'
  OBVIOUS
<1>1. CASE UNCHANGED vars
  BY <1>1 DEF vars, client, runner, TypeOK, Ids, InEpoch
<1>2. ASSUME NEW c \in Clients, RegisterFails(c) PROVE TypeOK' /\ Ids' /\ InEpoch'
  BY <1>2 DEF RegisterFails, runner, TypeOK, Ids, InEpoch
<1>3. ASSUME NEW c \in Clients, RegisterPick(c) PROVE TypeOK' /\ Ids' /\ InEpoch'
  <2> DEFINE ids == freeIds[ClientKind[c]]
  <2>1. ids \in Seq(Runners) /\ ids # <<>> /\ ClientKind[c] \in Kinds
    BY <1>3, KindTypes DEF TypeOK, RegisterPick
  <2>2. FrontOf(ids) \in Seq(Runners) /\ ids[Len(ids)] \in Runners
    BY <2>1, FrontProperties
  <2>3. ids[Len(ids)] \in Nat
    BY <2>2, KindTypes
  <2>4. /\ freeIds' \in [Kinds -> Seq(Runners)] /\ ctl' \in Clients \cup {Nobody}
        /\ id' = [id EXCEPT ![c] = ids[Len(ids)]] /\ call' = [call EXCEPT ![c] = "setting"]
        /\ UNCHANGED <<handle, worker, runner>>
    BY <1>3, <2>1, <2>2 DEF RegisterPick, TypeOK
  <2> HIDE DEF ids
  <2>5. TypeOK'
    BY <2>3, <2>4 DEF TypeOK, runner
  <2>6. Ids'
    BY <2>2, <2>4 DEF Ids, TypeOK
  <2>7. InEpoch'
    BY <2>4 DEF InEpoch, runner
  <2>8. QED BY <2>5, <2>6, <2>7
<1>4. ASSUME NEW c \in Clients, RegisterSet(c) PROVE TypeOK' /\ Ids' /\ InEpoch'
  <2>1. id[c] \in Runners /\ id[c] \in Nat /\ ClientKind[c] \in Kinds
    BY <1>4, KindTypes DEF RegisterSet, Ids
  <2>2. encode(id[c], ClientKind[c]) \in Nat
    BY <2>1, Codec
  <2>3. TypeOK'
    BY <1>4, <2>1, <2>2 DEF RegisterSet, TypeOK, runner
  <2>4. Ids'
    BY <1>4, <2>1 DEF RegisterSet, TypeOK, Ids
  <2>5. InEpoch'
    BY <1>4, <2>1 DEF RegisterSet, TypeOK, InEpoch, Locked, runner
  <2>6. QED BY <2>3, <2>4, <2>5
<1>5. ASSUME NEW c \in Clients, DeregisterFree(c) PROVE TypeOK' /\ Ids' /\ InEpoch'
  <2> DEFINE r == decodeId(handle[c])
             k == decodeKind(handle[c])
  <2>1. r \in Runners /\ r \in Nat /\ k \in Kinds
    BY <1>5, HandleDecodes, KindTypes DEF DeregisterFree
  <2>2. Append(freeIds[k], r) \in Seq(Runners)
    BY <2>1, AppendProperties DEF TypeOK
  <2>3. /\ ctl' = c /\ id' = [id EXCEPT ![c] = r] /\ call' = [call EXCEPT ![c] = "clearing"]
        /\ freeIds' = [freeIds EXCEPT ![k] = Append(@, r)]
        /\ UNCHANGED <<handle, worker, runner>>
    BY <1>5 DEF DeregisterFree
  <2> HIDE DEF r, k
  <2>4. TypeOK'
    BY <2>1, <2>2, <2>3 DEF TypeOK, runner
  <2>5. Ids'
    BY <2>1, <2>3 DEF Ids, TypeOK
  <2>6. InEpoch'
    BY <2>3 DEF InEpoch, runner
  <2>7. QED BY <2>4, <2>5, <2>6
<1>6. ASSUME NEW c \in Clients, DeregisterClear(c) PROVE TypeOK' /\ Ids' /\ InEpoch'
  <2>1. TypeOK' /\ Ids'
    BY <1>6 DEF DeregisterClear, runner, TypeOK, Ids
  <2>2. id[c] \in Runners
    BY <1>6 DEF DeregisterClear, Ids
  <2>3. InEpoch'
    BY <1>6, <2>2 DEF DeregisterClear, TypeOK, InEpoch, Locked, runner
  <2>4. QED BY <2>1, <2>3
<1>7. ASSUME NEW r \in Runners, Infloop(r) \/ SignalAbort(r) PROVE TypeOK' /\ Ids' /\ InEpoch'
  <2>1. UNCHANGED client /\ worker' = worker
    BY <1>7 DEF Infloop, Start, CheckPill, LoopNull, LoopBatch, EpochBegin, EpochEnd,
             BatchEnd, SignalAbort
  <2>2. Ids'
    BY <2>1 DEF client, Ids
  <2>3. CASE Start(r)
    BY <2>1, <2>2, <2>3 DEF Start, client, TypeOK, InEpoch
  <2>4. CASE CheckPill(r) \/ LoopNull(r) \/ BatchEnd(r)
    BY <2>1, <2>2, <2>4 DEF CheckPill, LoopNull, BatchEnd, client, TypeOK, InEpoch
  <2>5. CASE LoopBatch(r)
    BY <2>1, <2>2, <2>5, LoopAssumption DEF LoopBatch, client, TypeOK, InEpoch
  <2>6. CASE EpochBegin(r)
    BY <2>1, <2>2, <2>6, LoopAssumption DEF EpochBegin, client, TypeOK, InEpoch
  <2>7. CASE EpochEnd(r)
    <3>1. epochs[r] \in 0 .. LoopChk /\ epochs[r] > 0
      BY <2>7 DEF EpochEnd, TypeOK, InEpoch
    <3>2. epochs[r] - 1 \in 0 .. LoopChk /\ 0 \in 0 .. LoopChk
      BY <3>1, LoopAssumption
    <3>3. /\ epochs' \in [Runners -> 0 .. LoopChk]
          /\ \A q \in Runners \ {r} : epochs'[q] = epochs[q]
      BY <2>7, <3>2 DEF EpochEnd, TypeOK
    <3>4. QED BY <2>1, <2>2, <2>7, <3>3 DEF EpochEnd, client, TypeOK, InEpoch
  <2>8. CASE SignalAbort(r)
    BY <2>1, <2>2, <2>8 DEF SignalAbort, client, TypeOK, InEpoch
  <2>9. QED BY <1>7, <2>3, <2>4, <2>5, <2>6, <2>7, <2>8 DEF Infloop
<1>8. QED BY <1>1, <1>2, <1>3, <1>4, <1>5, <1>6, <1>7 DEF Next, Register, Deregister

-----------------------------------------------------------------------------
(* Who has a runner.                                                       *)

\* Every id is on the list of its own kind, at most once.
Listed(r) == \E i \in 1 .. Len(freeIds[RunnerKind[r + 1]]) : freeIds[RunnerKind[r + 1]][i] = r
Lists ==
  /\ \A k \in Kinds : \A i \in 1 .. Len(freeIds[k]) : RunnerKind[freeIds[k][i] + 1] = k
  /\ \A k \in Kinds : \A i, j \in 1 .. Len(freeIds[k]) : freeIds[k][i] = freeIds[k][j] => i = j

\* A lent runner has the kind its client asked for, one client, and is on no
\* list; the others are listed.
Lending ==
  /\ \A c \in Clients : Lent(c) => /\ IdOf(c) \in Runners
                                   /\ RunnerKind[IdOf(c) + 1] = ClientKind[c]
                                   /\ ~Listed(IdOf(c))
  /\ \A c, d \in Clients : Lent(c) /\ Lent(d) /\ IdOf(c) = IdOf(d) => c = d
  /\ \A r \in Runners : Listed(r) \/ \E c \in Clients : Lent(c) /\ IdOf(c) = r

\* Taking the last id off a list.
LEMMA PickEffect ==
  ASSUME TypeOK, Lists, NEW k \in Kinds, freeIds[k] # <<>>,
         freeIds' = [freeIds EXCEPT ![k] = FrontOf(@)]
  PROVE  LET r == freeIds[k][Len(freeIds[k])]
         IN  /\ r \in Runners /\ RunnerKind[r + 1] = k /\ Listed(r)
             /\ Lists'
             /\ \A q \in Runners : Listed(q)' <=> Listed(q) /\ q # r
<1> DEFINE s == freeIds[k]
           n == Len(s)
           r == s[n]
<1>1. s \in Seq(Runners) /\ s # <<>> /\ freeIds \in [Kinds -> Seq(Runners)]
  BY DEF TypeOK
<1>2. /\ n \in Nat \ {0} /\ r \in Runners /\ Len(FrontOf(s)) = n - 1
      /\ \A i \in 1 .. n - 1 : FrontOf(s)[i] = s[i]
  BY <1>1, FrontProperties
<1>3. n \in 1 .. n /\ \A i \in 1 .. n - 1 : i \in 1 .. n /\ i # n
  BY <1>2
<1>4. RunnerKind[r + 1] = k /\ Listed(r)
  BY <1>3 DEF Lists, Listed
<1>5. freeIds'[k] = FrontOf(s) /\ \A j \in Kinds \ {k} : freeIds'[j] = freeIds[j]
  BY <1>1
<1>6. Lists'
  <2>1. \A i \in 1 .. Len(freeIds'[k]) : i \in 1 .. n /\ freeIds'[k][i] = s[i]
    BY <1>2, <1>3, <1>5
  <2>2. \A i \in 1 .. Len(freeIds'[k]) : RunnerKind[freeIds'[k][i] + 1] = k
    BY <2>1 DEF Lists
  <2>3. \A i, j \in 1 .. Len(freeIds'[k]) : freeIds'[k][i] = freeIds'[k][j] => i = j
    BY <2>1 DEF Lists
  <2>4. QED BY <1>5, <2>2, <2>3 DEF Lists
<1>7. ASSUME NEW q \in Runners PROVE Listed(q)' <=> Listed(q) /\ q # r
  <2>1. RunnerKind[q + 1] \in Kinds
    BY KindTypes
  <2>2. CASE RunnerKind[q + 1] # k
    BY <1>4, <1>5, <2>1, <2>2 DEF Listed
  <2>3. CASE RunnerKind[q + 1] = k
    <3>1. Listed(q)' <=> \E i \in 1 .. n - 1 : s[i] = q
      BY <1>2, <1>5, <2>3 DEF Listed
    <3>2. Listed(q) <=> \E i \in 1 .. n : s[i] = q
      BY <2>3 DEF Listed
    <3>3. \A i \in 1 .. n - 1 : s[i] # r
      BY <1>3 DEF Lists
    <3>4. \A i \in 1 .. n : i = n \/ i \in 1 .. n - 1
      BY <1>2
    <3>5. QED BY <1>3, <3>1, <3>2, <3>3, <3>4
  <2>4. QED BY <2>2, <2>3
<1>8. QED BY <1>2, <1>4, <1>6, <1>7

\* Putting an id back on the list of its kind.
LEMMA ReturnEffect ==
  ASSUME TypeOK, Lists, NEW r \in Runners, ~Listed(r),
         freeIds' = [freeIds EXCEPT ![RunnerKind[r + 1]] = Append(@, r)]
  PROVE  Lists' /\ \A q \in Runners : Listed(q)' <=> Listed(q) \/ q = r
<1> DEFINE k == RunnerKind[r + 1]
           s == freeIds[k]
           n == Len(s)
<1>1. s \in Seq(Runners) /\ k \in Kinds /\ freeIds \in [Kinds -> Seq(Runners)]
  BY KindTypes DEF TypeOK
<1>2. /\ n \in Nat /\ Len(Append(s, r)) = n + 1 /\ Append(s, r)[n + 1] = r
      /\ \A i \in 1 .. n : Append(s, r)[i] = s[i]
  BY <1>1, AppendProperties, LenProperties
<1>3. \A i \in 1 .. n + 1 : i = n + 1 \/ i \in 1 .. n
  BY <1>2
<1>4. freeIds'[k] = Append(s, r) /\ \A j \in Kinds \ {k} : freeIds'[j] = freeIds[j]
  BY <1>1
<1>5. \A i \in 1 .. n : s[i] # r
  BY DEF Listed
<1>6. Lists'
  <2>1. \A i \in 1 .. Len(freeIds'[k]) : RunnerKind[freeIds'[k][i] + 1] = k
    BY <1>1, <1>2, <1>3, <1>4 DEF Lists
  <2>2. \A i, j \in 1 .. Len(freeIds'[k]) : freeIds'[k][i] = freeIds'[k][j] => i = j
    BY <1>1, <1>2, <1>3, <1>4, <1>5 DEF Lists
  <2>3. QED BY <1>4, <2>1, <2>2 DEF Lists
<1>7. ASSUME NEW q \in Runners PROVE Listed(q)' <=> Listed(q) \/ q = r
  <2>1. RunnerKind[q + 1] \in Kinds
    BY KindTypes
  <2>2. CASE RunnerKind[q + 1] # k
    BY <1>4, <2>1, <2>2 DEF Listed
  <2>3. CASE RunnerKind[q + 1] = k
    <3>1. Listed(q)' <=> \E i \in 1 .. n + 1 : Append(s, r)[i] = q
      BY <1>2, <1>4, <2>3 DEF Listed
    <3>2. Listed(q) <=> \E i \in 1 .. n : s[i] = q
      BY <2>3 DEF Listed
    <3>3. n + 1 \in 1 .. n + 1 /\ \A i \in 1 .. n : i \in 1 .. n + 1
      BY <1>2
    <3>4. QED BY <1>2, <1>3, <3>1, <3>2, <3>3
  <2>4. QED BY <2>2, <2>3
<1>8. QED BY <1>6, <1>7

\* All runners are listed under their kinds by the constructor, none is lent.
LEMMA InitLending == Init => Lists /\ Lending
<1> SUFFICES ASSUME Init PROVE Lists /\ Lending
  OBVIOUS
<1>0. TypeOK
  BY InitTypes
<1>1. ASSUME NEW k \in Kinds
      PROVE  /\ DOMAIN freeIds[k] = 1 .. Len(freeIds[k])
             /\ Len(freeIds[k]) \in Nat
             /\ \A i \in 1 .. Len(freeIds[k]) : freeIds[k][i] \in Runners
                                                /\ RunnerKind[freeIds[k][i] + 1] = k
             /\ \A i, j \in 1 .. Len(freeIds[k]) : i < j => freeIds[k][i] < freeIds[k][j]
  <2>1. freeIds[k] \in Seq(Runners) /\ freeIds[k] \in Ascending
    BY <1>0 DEF TypeOK, Init
  <2>2. DOMAIN freeIds[k] = 1 .. Len(freeIds[k]) /\ Len(freeIds[k]) \in Nat
    BY <2>1, LenProperties
  <2>3. \A i, j \in 1 .. Len(freeIds[k]) : i < j => freeIds[k][i] < freeIds[k][j]
    BY <2>1, <2>2 DEF Ascending
  <2>4. {freeIds[k][n] : n \in DOMAIN freeIds[k]} = {r \in Runners : RunnerKind[r + 1] = k}
    BY DEF Init
  <2>5. QED BY <2>2, <2>3, <2>4
<1>2. Lists
  <2>1. ASSUME NEW k \in Kinds, NEW i \in 1 .. Len(freeIds[k]), NEW j \in 1 .. Len(freeIds[k]),
               freeIds[k][i] = freeIds[k][j]
        PROVE  i = j
    <3>1. freeIds[k][i] \in Int /\ i \in Int /\ j \in Int
      BY <1>1, KindTypes
    <3>2. ~(i < j) /\ ~(j < i)
      BY <1>1, <2>1, <3>1
    <3>3. QED BY <3>1, <3>2
  <2>2. QED BY <1>1, <2>1 DEF Lists
<1>3. \A c \in Clients : ~Lent(c)
  BY DEF Init, Lent
<1>4. ASSUME NEW r \in Runners PROVE Listed(r)
  <2>1. RunnerKind[r + 1] \in Kinds
    BY KindTypes
  <2>2. r \in {freeIds[RunnerKind[r + 1]][n] : n \in DOMAIN freeIds[RunnerKind[r + 1]]}
    BY <2>1 DEF Init
  <2>3. QED BY <1>1, <2>1, <2>2 DEF Listed
<1>5. QED BY <1>2, <1>3, <1>4 DEF Lending

\* Steps that lend and return nothing.
LEMMA LendingKept ==
  ASSUME Lists, Lending, freeIds' = freeIds,
         \A c \in Clients : Lent(c)' <=> Lent(c),
         \A c \in Clients : Lent(c) => IdOf(c)' = IdOf(c)
  PROVE  Lists' /\ Lending'
<1>1. Lists' /\ \A r : Listed(r)' <=> Listed(r)
  BY DEF Lists, Listed
<1>2. QED BY <1>1 DEF Lending

\* _register takes an id off its list, deregister() puts it back, and no other
\* step moves one.
LEMMA LendingStep == TypeOK /\ Ids /\ Lists /\ Lending /\ [Next]_vars => Lists' /\ Lending'
<1> SUFFICES ASSUME TypeOK, Ids, Lists, Lending, [Next]_vars PROVE Lists' /\ Lending'
  OBVIOUS
<1>0. /\ call \in [Clients -> {"out", "refused", "setting", "in", "clearing"}]
      /\ id \in [Clients -> Nat] /\ handle \in [Clients -> Nat]
      /\ freeIds \in [Kinds -> Seq(Runners)]
  BY DEF TypeOK
<1>1. CASE UNCHANGED vars
  BY <1>1, LendingKept DEF vars, client, Lent, IdOf, decodeId
<1>2. ASSUME NEW c \in Clients, RegisterFails(c) PROVE Lists' /\ Lending'
  <2>1. /\ freeIds' = freeIds /\ id' = id /\ handle' = handle
        /\ call[c] = "out" /\ call'[c] = "refused"
        /\ \A d \in Clients \ {c} : call'[d] = call[d]
    BY <1>0, <1>2 DEF RegisterFails
  <2>2. QED BY <2>1, LendingKept DEF Lent, IdOf, decodeId
<1>3. ASSUME NEW c \in Clients, RegisterPick(c) PROVE Lists' /\ Lending'
  <2> DEFINE k == ClientKind[c]
             r == freeIds[k][Len(freeIds[k])]
  <2>1. /\ call[c] = "out" /\ call'[c] = "setting" /\ id'[c] = r /\ handle' = handle
        /\ \A d \in Clients \ {c} : call'[d] = call[d] /\ id'[d] = id[d]
        /\ k \in Kinds /\ freeIds[k] # <<>>
        /\ freeIds' = [freeIds EXCEPT ![k] = FrontOf(@)]
    BY <1>0, <1>3, KindTypes DEF RegisterPick
  <2>2. /\ r \in Runners /\ RunnerKind[r + 1] = k /\ Listed(r) /\ Lists'
        /\ \A q \in Runners : Listed(q)' <=> Listed(q) /\ q # r
    BY <2>1, PickEffect
  <2> HIDE DEF r
  <2>3. /\ ~Lent(c) /\ Lent(c)' /\ IdOf(c)' = r
        /\ \A d \in Clients \ {c} : (Lent(d)' <=> Lent(d)) /\ (IdOf(d)' = IdOf(d))
    BY <2>1 DEF Lent, IdOf, decodeId
  <2>4. (\A d \in Clients : Lent(d) => /\ IdOf(d) \in Runners
                                       /\ RunnerKind[IdOf(d) + 1] = ClientKind[d]
                                       /\ ~Listed(IdOf(d)))'
    <3> SUFFICES ASSUME NEW d \in Clients, Lent(d)'
                 PROVE  /\ IdOf(d)' \in Runners
                        /\ RunnerKind[IdOf(d)' + 1] = ClientKind[d]
                        /\ ~Listed(IdOf(d))'
      OBVIOUS
    <3>1. CASE d = c
      <4>1. \A p \in Runners : p = IdOf(c)' => (Listed(IdOf(c))' <=> Listed(p)')
        BY DEF Listed
      <4>2. QED BY <2>2, <2>3, <3>1, <4>1
    <3>2. CASE d # c
      <4>1. Lent(d) /\ IdOf(d)' = IdOf(d)
        BY <2>3, <3>2
      <4>2. IdOf(d) \in Runners /\ ~Listed(IdOf(d))
        BY <4>1 DEF Lending
      <4>3. Listed(IdOf(d))' => Listed(IdOf(d))
        <5>1. \A p \in Runners : p = IdOf(d)' => (Listed(IdOf(d))' <=> Listed(p)')
          BY DEF Listed
        <5>2. QED BY <2>2, <4>1, <4>2, <5>1
      <4>4. QED BY <4>1, <4>2, <4>3 DEF Lending
    <3>3. QED BY <3>1, <3>2
  <2>5. (\A d, e \in Clients : Lent(d) /\ Lent(e) /\ IdOf(d) = IdOf(e) => d = e)'
    BY <2>2, <2>3 DEF Lending
  <2>6. \A q \in Runners : Listed(q)' \/ \E d \in Clients : Lent(d)' /\ IdOf(d)' = q
    BY <2>2, <2>3 DEF Lending
  <2>7. QED BY <2>2, <2>4, <2>5, <2>6 DEF Lending
<1>4. ASSUME NEW c \in Clients, RegisterSet(c) PROVE Lists' /\ Lending'
  <2>1. /\ call[c] = "setting" /\ call'[c] = "in" /\ id' = id /\ freeIds' = freeIds
        /\ handle'[c] = encode(id[c], ClientKind[c])
        /\ \A d \in Clients \ {c} : call'[d] = call[d] /\ handle'[d] = handle[d]
    BY <1>0, <1>4 DEF RegisterSet
  <2>2. decodeId(handle'[c]) = id[c]
    BY <1>0, <2>1, Codec, KindTypes
  <2>3. \A d \in Clients : (Lent(d)' <=> Lent(d)) /\ (Lent(d) => IdOf(d)' = IdOf(d))
    BY <2>1, <2>2 DEF Lent, IdOf, decodeId
  <2>4. QED BY <2>1, <2>3, LendingKept
<1>5. ASSUME NEW c \in Clients, DeregisterFree(c) PROVE Lists' /\ Lending'
  <2> DEFINE r == decodeId(handle[c])
  <2>1. /\ call[c] = "in" /\ call'[c] = "clearing" /\ handle' = handle
        /\ \A d \in Clients \ {c} : call'[d] = call[d] /\ id'[d] = id[d]
        /\ freeIds' = [freeIds EXCEPT ![decodeKind(handle[c])] = Append(@, r)]
    BY <1>0, <1>5 DEF DeregisterFree
  <2>2. /\ Lent(c) /\ IdOf(c) = r /\ ~Lent(c)'
        /\ \A d \in Clients \ {c} : (Lent(d)' <=> Lent(d)) /\ (IdOf(d)' = IdOf(d))
    BY <2>1 DEF Lent, IdOf, decodeId
  <2>3. /\ r \in Runners /\ RunnerKind[r + 1] = ClientKind[c] /\ ~Listed(r)
        /\ decodeKind(handle[c]) = ClientKind[c]
    BY <2>1, <2>2, HandleDecodes DEF Lending
  <2>4. Lists' /\ \A q \in Runners : Listed(q)' <=> Listed(q) \/ q = r
    BY <2>1, <2>3, ReturnEffect
  <2> HIDE DEF r
  <2>5. (\A d \in Clients : Lent(d) => /\ IdOf(d) \in Runners
                                       /\ RunnerKind[IdOf(d) + 1] = ClientKind[d]
                                       /\ ~Listed(IdOf(d)))'
    <3> SUFFICES ASSUME NEW d \in Clients, Lent(d)'
                 PROVE  /\ IdOf(d)' \in Runners
                        /\ RunnerKind[IdOf(d)' + 1] = ClientKind[d]
                        /\ ~Listed(IdOf(d))'
      OBVIOUS
    <3>1. d # c /\ Lent(d) /\ IdOf(d)' = IdOf(d)
      BY <2>2
    <3>2. /\ IdOf(d) \in Runners /\ ~Listed(IdOf(d)) /\ IdOf(d) # r
          /\ RunnerKind[IdOf(d) + 1] = ClientKind[d]
      BY <2>2, <3>1 DEF Lending
    <3>3. \A p \in Runners : p = IdOf(d)' => (Listed(IdOf(d))' <=> Listed(p)')
      BY DEF Listed
    <3>4. QED BY <2>4, <3>1, <3>2, <3>3
  <2>6. (\A d, e \in Clients : Lent(d) /\ Lent(e) /\ IdOf(d) = IdOf(e) => d = e)'
    BY <2>2 DEF Lending
  <2>7. \A q \in Runners : Listed(q)' \/ \E d \in Clients : Lent(d)' /\ IdOf(d)' = q
    BY <2>2, <2>4 DEF Lending
  <2>8. QED BY <2>4, <2>5, <2>6, <2>7 DEF Lending
<1>6. ASSUME NEW c \in Clients, DeregisterClear(c) PROVE Lists' /\ Lending'
  <2>1. /\ freeIds' = freeIds /\ id' = id /\ handle' = handle
        /\ call[c] = "clearing" /\ call'[c] = "out"
        /\ \A d \in Clients \ {c} : call'[d] = call[d]
    BY <1>0, <1>6 DEF DeregisterClear
  <2>2. QED BY <2>1, LendingKept DEF Lent, IdOf, decodeId
<1>7. ASSUME NEW r \in Runners, Infloop(r) \/ SignalAbort(r) PROVE Lists' /\ Lending'
  <2>1. UNCHANGED client
    BY <1>7 DEF Infloop, Start, CheckPill, LoopNull, LoopBatch, EpochBegin, EpochEnd,
             BatchEnd, SignalAbort
  <2>2. QED BY <2>1, LendingKept DEF client, Lent, IdOf, decodeId
<1>8. QED BY <1>1, <1>2, <1>3, <1>4, <1>5, <1>6, <1>7 DEF Next, Register, Deregister

-----------------------------------------------------------------------------
(* Who a runner works for.                                                 *)

\* The controller's lock is held through _register and deregister; while a
\* client clears its runner the id is listed already.
Calling ==
  /\ \A c \in Clients : call[c] \in {"setting", "clearing"} => ctl = c
  /\ \A c \in Clients : call[c] = "clearing" => \E r \in Runners : r = id[c] /\ Listed(r)

\* A registered worker is the one of the runner that its handle names.
Serving == \A c \in Clients : call[c] = "in" => worker[decodeId(handle[c])] = c

\* The worker of a runner is registered with it, or about to be cleared.
Assigned == \A r \in Runners : worker[r] # Nobody =>
  \/ call[worker[r]] = "in" /\ decodeId(handle[worker[r]]) = r
  \/ call[worker[r]] = "clearing" /\ id[worker[r]] = r

Owners == Calling /\ Serving /\ Assigned

\* No runner has a worker yet.
LEMMA InitOwners == Init => Owners
BY DEF Init, Owners, Calling, Serving, Assigned

\* A runner gets its worker from the client it is lent to, under the
\* controller's lock.
LEMMA OwnersStep ==
  TypeOK /\ Ids /\ Lists /\ Lending /\ Owners /\ [Next]_vars => Owners'
<1> SUFFICES ASSUME TypeOK, Ids, Lists, Lending, Owners, [Next]_vars PROVE Owners'
  OBVIOUS
<1>0. /\ call \in [Clients -> {"out", "refused", "setting", "in", "clearing"}]
      /\ id \in [Clients -> Nat] /\ handle \in [Clients -> Nat]
      /\ worker \in [Runners -> Clients \cup {Nobody}]
      /\ Nobody \notin Clients
  BY NobodyAssumption DEF TypeOK
<1>1. CASE UNCHANGED vars
  BY <1>1 DEF vars, client, Owners, Calling, Serving, Assigned, Listed, decodeId
<1>2. ASSUME NEW c \in Clients, RegisterFails(c) PROVE Owners'
  <2>1. /\ UNCHANGED <<ctl, id, handle, freeIds, worker>>
        /\ call[c] = "out" /\ call'[c] = "refused"
        /\ \A d \in Clients \ {c} : call'[d] = call[d]
    BY <1>0, <1>2 DEF RegisterFails
  <2>2. \A r \in Runners : Listed(r)' <=> Listed(r)
    BY <2>1 DEF Listed
  <2>3. QED BY <1>0, <2>1, <2>2 DEF Owners, Calling, Serving, Assigned, decodeId
<1>3. ASSUME NEW c \in Clients, RegisterPick(c) PROVE Owners'
  <2>1. /\ UNCHANGED <<handle, worker>> /\ ctl = Nobody /\ ctl' = c
        /\ call[c] = "out" /\ call'[c] = "setting"
        /\ \A d \in Clients \ {c} : call'[d] = call[d] /\ id'[d] = id[d]
    BY <1>0, <1>3 DEF RegisterPick
  <2>2. \A d \in Clients : call[d] \notin {"setting", "clearing"}
    BY <1>0, <2>1 DEF Owners, Calling
  <2>3. QED BY <1>0, <2>1, <2>2 DEF Owners, Calling, Serving, Assigned, decodeId
<1>4. ASSUME NEW c \in Clients, RegisterSet(c) PROVE Owners'
  <2>1. /\ UNCHANGED <<id, freeIds>> /\ ctl' = Nobody /\ id[c] \in Runners
        /\ call[c] = "setting" /\ call'[c] = "in"
        /\ handle'[c] = encode(id[c], ClientKind[c])
        /\ \A d \in Clients \ {c} : call'[d] = call[d] /\ handle'[d] = handle[d]
        /\ worker'[id[c]] = c /\ \A r \in Runners \ {id[c]} : worker'[r] = worker[r]
    BY <1>0, <1>4 DEF RegisterSet, Ids
  <2>2. decodeId(handle'[c]) = id[c]
    BY <1>0, <2>1, Codec, KindTypes
  <2>3. \A d \in Clients \ {c} : call[d] \notin {"setting", "clearing"}
    BY <1>0, <2>1 DEF Owners, Calling
  <2>4. Calling'
    BY <2>1, <2>3 DEF Calling
  <2>5. \A d \in Clients \ {c} : call[d] = "in" => decodeId(handle[d]) \in Runners \ {id[c]}
    BY <2>1 DEF Lending, Lent, IdOf
  <2>6. Serving'
    BY <2>1, <2>2, <2>5 DEF Owners, Serving, decodeId
  <2>7. Assigned'
    BY <1>0, <2>1, <2>2 DEF Owners, Assigned, decodeId
  <2>8. QED BY <2>4, <2>6, <2>7 DEF Owners
<1>5. ASSUME NEW c \in Clients, DeregisterFree(c) PROVE Owners'
  <2>1. /\ UNCHANGED <<handle, worker>> /\ ctl = Nobody /\ ctl' = c
        /\ call[c] = "in" /\ call'[c] = "clearing" /\ id'[c] = decodeId(handle[c])
        /\ \A d \in Clients \ {c} : call'[d] = call[d] /\ id'[d] = id[d]
        /\ freeIds' = [freeIds EXCEPT ![decodeKind(handle[c])]
                         = Append(@, decodeId(handle[c]))]
    BY <1>0, <1>5 DEF DeregisterFree
  <2>2. \A d \in Clients : call[d] \notin {"setting", "clearing"}
    BY <1>0, <2>1 DEF Owners, Calling
  <2>3. /\ decodeId(handle[c]) \in Runners
        /\ decodeKind(handle[c]) = RunnerKind[decodeId(handle[c]) + 1]
        /\ ~Listed(decodeId(handle[c]))
    BY <2>1, HandleDecodes DEF Lending, Lent, IdOf
  <2>4. \A q \in Runners : Listed(q)' <=> Listed(q) \/ q = decodeId(handle[c])
    BY <2>1, <2>3, ReturnEffect
  <2>5. Calling'
    BY <2>1, <2>2, <2>3, <2>4 DEF Calling
  <2>6. Serving'
    BY <2>1 DEF Owners, Serving, decodeId
  <2>7. Assigned'
    BY <1>0, <2>1 DEF Owners, Assigned, decodeId
  <2>8. QED BY <2>5, <2>6, <2>7 DEF Owners
<1>6. ASSUME NEW c \in Clients, DeregisterClear(c) PROVE Owners'
  <2>1. /\ UNCHANGED <<id, handle, freeIds>> /\ ctl' = Nobody /\ id[c] \in Runners
        /\ call[c] = "clearing" /\ call'[c] = "out"
        /\ \A d \in Clients \ {c} : call'[d] = call[d]
        /\ worker'[id[c]] = Nobody /\ \A r \in Runners \ {id[c]} : worker'[r] = worker[r]
    BY <1>0, <1>6 DEF DeregisterClear, Ids
  <2>2. \A d \in Clients \ {c} : call[d] \notin {"setting", "clearing"}
    BY <1>0, <2>1 DEF Owners, Calling
  <2>3. \A d \in Clients \ {c} : call[d] = "in" => decodeId(handle[d]) \in Runners \ {id[c]}
    BY <2>1 DEF Lending, Lent, IdOf, Owners, Calling
  <2>4. Calling'
    BY <2>1, <2>2 DEF Calling
  <2>5. Serving'
    BY <2>1, <2>3 DEF Owners, Serving, decodeId
  <2>6. Assigned'
    BY <1>0, <2>1 DEF Owners, Assigned, decodeId
  <2>7. QED BY <2>4, <2>5, <2>6 DEF Owners
<1>7. ASSUME NEW r \in Runners, Infloop(r) \/ SignalAbort(r) PROVE Owners'
  <2>1. UNCHANGED client /\ worker' = worker
    BY <1>7 DEF Infloop, Start, CheckPill, LoopNull, LoopBatch, EpochBegin, EpochEnd,
             BatchEnd, SignalAbort
  <2>2. QED BY <2>1 DEF client, Owners, Calling, Serving, Assigned, Listed, decodeId
<1>8. QED BY <1>1, <1>2, <1>3, <1>4, <1>5, <1>6, <1>7 DEF Next, Register, Deregister

-----------------------------------------------------------------------------
(* Theorems.                                                               *)

\* The types of every reachable state, among them that an epoch counter stays
\* in its batch.
THEOREM TypeCorrect == Safety => []TypeOK
BY InitTypes, TypesStep, PTL DEF Safety

\* A runner is inside an epoch only of a worker that is registered, or whose
\* deregister() still waits for the batch to end.
THEOREM EpochsOfLiveWorkers == Safety => []NoEpochOfDeadWorker
<1>1. TypeOK /\ InEpoch /\ Owners => NoEpochOfDeadWorker
  BY NobodyAssumption DEF TypeOK, InEpoch, Owners, Assigned, NoEpochOfDeadWorker
<1>2. QED BY <1>1, InitTypes, TypesStep, InitLending, LendingStep, InitOwners, OwnersStep,
             PTL DEF Safety

\* From the return of _register to the call of deregister the runner that the
\* handle names has the client's worker and no other.
THEOREM WorkerStays == Safety => []Serving
<1>1. Owners => Serving
  BY DEF Owners
<1>2. QED BY <1>1, InitTypes, TypesStep, InitLending, LendingStep, InitOwners, OwnersStep,
             PTL DEF Safety

\* A list without repetitions has at most as many ids as there are runners.
LEMMA ListLength ==
  ASSUME TypeOK, Lists, NEW k \in Kinds
  PROVE  Len(freeIds[k]) \in Nat /\ Len(freeIds[k]) <= Len(RunnerKind)
<1> DEFINE s == freeIds[k]
           n == Len(s)
<1>1. s \in Seq(Runners) /\ n \in Nat /\ s \in [1 .. n -> Runners] /\ DOMAIN s = 1 .. n
  BY LenProperties DEF TypeOK
<1>2. s \in Injection(1 .. n, Runners)
  BY <1>1 DEF Injection, IsInjective, Lists
<1>3. IsFiniteSet(Runners) /\ Cardinality(Runners) = Len(RunnerKind)
  <2>1. Len(RunnerKind) \in Nat
    BY KindTypes
  <2>2. IsFiniteSet(0 .. Len(RunnerKind) - 1)
        /\ Cardinality(0 .. Len(RunnerKind) - 1)
             = IF 0 > Len(RunnerKind) - 1 THEN 0 ELSE (Len(RunnerKind) - 1) - 0 + 1
    BY <2>1, FS_Interval
  <2>3. QED BY <2>1, <2>2 DEF Runners
<1>4. IsFiniteSet(1 .. n) /\ Cardinality(1 .. n) = n
  BY <1>1, FS_Interval
<1>5. Cardinality(1 .. n) <= Cardinality(Runners)
  BY <1>2, <1>3, FS_Injection
<1>6. QED BY <1>1, <1>3, <1>4, <1>5

\* Every runner is on the list of its kind once, or lent to one client that
\* asked for its kind: no two workers share a daemon and none is lost.
THEOREM RunnerOwnership == Safety => []EveryRunnerOnce
<1>1. TypeOK /\ Lists /\ Lending => EveryRunnerOnce
  <2> SUFFICES ASSUME TypeOK, Lists, Lending, NEW r \in Runners
               PROVE  LET entries == {e \in Kinds \X (1 .. Len(RunnerKind)) :
                                        e[2] <= Len(freeIds[e[1]])
                                        /\ freeIds[e[1]][e[2]] = r}
                          users   == {c \in Clients : Lent(c) /\ IdOf(c) = r}
                      IN  /\ Cardinality(entries) + Cardinality(users) = 1
                          /\ \A e \in entries : e[1] = RunnerKind[r + 1]
                          /\ \A c \in users : ClientKind[c] = RunnerKind[r + 1]
    BY DEF EveryRunnerOnce
  <2> DEFINE entries == {e \in Kinds \X (1 .. Len(RunnerKind)) :
                           e[2] <= Len(freeIds[e[1]]) /\ freeIds[e[1]][e[2]] = r}
             users   == {c \in Clients : Lent(c) /\ IdOf(c) = r}
             K       == RunnerKind[r + 1]
  <2>1. K \in Kinds /\ Len(RunnerKind) \in Nat
    BY KindTypes
  <2>2. \A e \in entries : /\ e[1] \in Kinds /\ e[2] \in 1 .. Len(freeIds[e[1]])
                           /\ freeIds[e[1]][e[2]] = r /\ e = <<e[1], e[2]>>
    BY <2>1, ListLength
  <2>3. \A e \in entries : e[1] = K
    BY <2>2 DEF Lists
  <2>4. \A c \in users : ClientKind[c] = K /\ ~Listed(r)
    BY DEF Lending
  <2>5. CASE Listed(r)
    <3>1. PICK i \in 1 .. Len(freeIds[K]) : freeIds[K][i] = r
      BY <2>5 DEF Listed
    <3>2. i \in 1 .. Len(RunnerKind) /\ i <= Len(freeIds[K])
      BY <2>1, <3>1, ListLength
    <3>3. <<K, i>> \in entries
      BY <2>1, <3>1, <3>2
    <3>4. \A e \in entries : e = <<K, i>>
      BY <2>1, <2>2, <2>3, <3>1 DEF Lists
    <3> HIDE DEF entries
    <3>5. entries = {<<K, i>>} /\ users = {}
      BY <2>4, <2>5, <3>3, <3>4
    <3>6. Cardinality(entries) = 1 /\ Cardinality(users) = 0
      BY <3>5, FS_Singleton, FS_EmptySet
    <3>7. QED BY <2>3, <2>4, <3>6 DEF entries
  <2>6. CASE ~Listed(r)
    <3>1. entries = {}
      BY <2>2, <2>3, <2>6 DEF Listed
    <3>2. PICK c \in Clients : Lent(c) /\ IdOf(c) = r
      BY <2>6 DEF Lending
    <3>3. users = {c}
      BY <3>2 DEF Lending
    <3> HIDE DEF entries, users
    <3>4. Cardinality(entries) = 0 /\ Cardinality(users) = 1
      BY <3>1, <3>3, FS_Singleton, FS_EmptySet
    <3>5. QED BY <2>3, <2>4, <3>4 DEF entries, users
  <2>7. QED BY <2>5, <2>6
<1>2. QED BY <1>1, InitTypes, TypesStep, InitLending, LendingStep, PTL DEF Safety
=============================================================================
