-------------------------- MODULE SampleFlowProofs ---------------------------
(***************************************************************************)
(* Theorems about SampleFlow, for any items, staff and parks of machines.  *)
(***************************************************************************)
EXTENDS SampleFlow, SampleRouteProofs, FunctionTheorems

-----------------------------------------------------------------------------
(* What is true of the rows whatever happens.                              *)

IsList(f) == \E n \in Nat : f = [i \in 1..n |-> f[i]]

IsSample(r) ==
  /\ r = [status |-> r.status, at |-> r.at, route |-> r.route, log |-> r.log]
  /\ r.status \in SampleStatuses /\ r.log \in SampleStatuses /\ r.at \in Places
  /\ IsList(r.route)

IsWip(r) ==
  /\ r = [sample |-> r.sample, lab |-> r.lab, exp |-> r.exp, no |-> r.no,
          status |-> r.status, at |-> r.at]
  /\ r.sample \in Samples /\ [lab |-> r.lab, exp |-> r.exp] \in Experiments /\ r.no \in Nat \ {0}
  /\ r.status \in WipStatuses /\ r.at \in Places

SampleRowsOk ==
  samples = [s \in Samples |-> samples[s]] /\ \A s \in Samples : IsSample(samples[s])

WipRowsOk ==
  IsList(wips) /\ \A w \in DOMAIN wips : IsWip(wips[w]) /\ Present(wips[w].sample)

TransferRowsOk ==
  /\ IsList(transfers)
  /\ \A t \in DOMAIN transfers :
       /\ transfers[t] \in TransferRows
       /\ transfers[t].kind = "sample" => transfers[t].of \in Samples /\ Present(transfers[t].of)
       /\ transfers[t].kind = "wip" => transfers[t].of \in DOMAIN wips

(* What a request under way is about is still there.                       *)
OfSampleOps == {"receive", "inbound", "outbound", "pickup", "split", "generate", "transfer"}
OfWipOps == {"send_to_schedule", "start", "complete", "terminate", "complete_others",
             "advance", "withdraw"}
Ops == OfSampleOps \cup OfWipOps
         \cup {"none", "deliver", "next", "transfer_wip", "send", "cancel"}

Shaped(r) ==
  r = [op |-> r.op, by |-> r.by, s |-> r.s, w |-> r.w, t |-> r.t, to |-> r.to,
       wanted |-> r.wanted, items |-> r.items, found |-> r.found, step |-> r.step,
       was |-> r.was]

IsRequest(r) ==
  /\ Shaped(r)
  /\ r.op \in Ops /\ r.by \in Users
  /\ r.wanted \subseteq Experiments /\ r.was \in SampleStatuses
  /\ r.op = "next" => r.s \in Samples
  /\ r.op \in {"transfer", "transfer_wip"} => r.to \in Labs /\ r.by.lab \in Labs
  /\ r.op = "generate" => IsFiniteSet(r.items) /\ r.items \subseteq Nat /\ IsFiniteSet(r.found)

RequestOk(r) ==
  /\ IsRequest(r)
  /\ r.op \in OfSampleOps \cup OfWipOps => r.s \in Samples /\ Present(r.s)
  /\ r.op \in OfWipOps \cup {"transfer_wip"} => r.w \in DOMAIN wips
  /\ r.op \in OfWipOps => wips[r.w].sample = r.s
  /\ r.op \in {"send", "cancel"} => r.t \in DOMAIN transfers

SessOk == sess = [p \in Sessions |-> sess[p]] /\ \A p \in Sessions : RequestOk(sess[p])

RowsInv == SampleRowsOk /\ WipRowsOk /\ TransferRowsOk /\ SessOk

-----------------------------------------------------------------------------
(* Lists.                                                                  *)

(* One list after another.                                                 *)
LEMMA Concatenated ==
  ASSUME NEW m \in Nat, NEW n \in Nat, NEW a, NEW b,
         a = [i \in 1..m |-> a[i]], b = [i \in 1..n |-> b[i]]
  PROVE  /\ a \o b = [i \in 1..(m + n) |-> (a \o b)[i]]
         /\ \A i \in 1..m : (a \o b)[i] = a[i]
         /\ \A i \in 1..n : (a \o b)[m + i] = b[i]
         /\ \A i \in (m + 1)..(m + n) : (a \o b)[i] = b[i - m] /\ i - m \in 1..n
<1>1. PICK T : T = {a[i] : i \in 1..m} \cup {b[i] : i \in 1..n}
  OBVIOUS
<1>2. a \in [1..m -> T] /\ b \in [1..n -> T]
  BY <1>1
<1>3. a \in Seq(T) /\ Len(a) = m /\ b \in Seq(T) /\ Len(b) = n
  BY <1>2, SeqOfFunction
<1>4. PICK c : c = a \o b
  OBVIOUS
<1>5. /\ c \in Seq(T) /\ Len(c) = m + n
      /\ \A i \in 1..(m + n) : c[i] = IF i <= m THEN a[i] ELSE b[i - m]
  BY <1>3, <1>4, ConcatProperties
<1>6. c = [i \in 1..(m + n) |-> c[i]]
  BY <1>5, LenProperties
<1>7. \A i \in 1..n : m + i \in 1..(m + n) /\ ~(m + i <= m) /\ (m + i) - m = i
  OBVIOUS
<1>8. \A i \in 1..n : c[m + i] = b[i]
  BY <1>5, <1>7
<1>9. \A i \in (m + 1)..(m + n) : c[i] = b[i - m] /\ i - m \in 1..n
  <2>1. \A i \in (m + 1)..(m + n) : i \in 1..(m + n) /\ ~(i <= m) /\ i - m \in 1..n
    OBVIOUS
  <2>2. QED
    BY <1>5, <2>1
<1>10. \A i \in 1..m : c[i] = a[i]
  <2>1. \A i \in 1..m : i \in 1..(m + n) /\ i <= m
    OBVIOUS
  <2>2. QED
    BY <1>5, <2>1
<1>11. QED
  BY <1>4, <1>6, <1>8, <1>9, <1>10

(* One more at the end.                                                    *)
LEMMA Appended ==
  ASSUME NEW m \in Nat, NEW a, NEW e, a = [i \in 1..m |-> a[i]]
  PROVE  /\ Append(a, e) = [i \in 1..(m + 1) |-> Append(a, e)[i]]
         /\ \A i \in 1..m : Append(a, e)[i] = a[i]
         /\ Append(a, e)[m + 1] = e /\ Len(a) = m
<1>1. PICK T : T = {a[i] : i \in 1..m} \cup {e}
  OBVIOUS
<1>2. a \in [1..m -> T] /\ e \in T
  BY <1>1
<1>3. a \in Seq(T) /\ Len(a) = m
  BY <1>2, SeqOfFunction
<1>4. PICK c : c = Append(a, e)
  OBVIOUS
<1>5. /\ c \in Seq(T) /\ Len(c) = m + 1
      /\ \A i \in 1..m : c[i] = a[i]
      /\ c[m + 1] = e
  BY <1>2, <1>3, <1>4, AppendProperties
<1>6. c = [i \in 1..(m + 1) |-> c[i]]
  BY <1>5, LenProperties
<1>7. QED
  BY <1>3, <1>4, <1>5, <1>6

(* A function on the places of a list is a list.                           *)
LEMMA ListOn ==
  ASSUME NEW a, IsList(a), NEW b, DOMAIN b = DOMAIN a, b = [i \in DOMAIN b |-> b[i]]
  PROVE  IsList(b)
BY DEF IsList

-----------------------------------------------------------------------------
(* Experiments and the new rows of a split.                                *)

(* Experiments are finitely many, each of a laboratory.                    *)
LEMMA ExperimentFacts ==
  /\ IsFiniteSet(Experiments)
  /\ \A x \in Experiments : /\ x = [lab |-> x.lab, exp |-> x.exp]
                            /\ x.lab \in Labs /\ x.lab \in Nat \ {0} /\ x.exp \in Nat
  /\ \A i \in ItemIds : [lab |-> Items[i].lab, exp |-> Items[i].exp] \in Experiments
<1> DEFINE f == [i \in ItemIds |-> [lab |-> Items[i].lab, exp |-> Items[i].exp]]
           g == [i \in ItemIds |-> [lab |-> Items[i].lab, exp |-> CutExp]]
<1>1. IsFiniteSet(ItemIds)
  <2>1. PICK T : Items \in Seq(T)
    BY ItemsAssumption
  <2>2. ItemIds = 1..Len(Items) /\ Len(Items) \in Int
    BY <2>1, LenProperties DEF ItemIds
  <2>3. QED
    BY <2>2, FS_Interval
<1>2. IsFiniteSet({f[i] : i \in ItemIds}) /\ IsFiniteSet({g[i] : i \in ItemIds})
  <2> HIDE DEF f, g
  <2>1. ASSUME NEW h, h = [i \in ItemIds |-> h[i]]
        PROVE  IsFiniteSet({h[i] : i \in ItemIds})
    <3>1. PICK R : R = {h[i] : i \in ItemIds}
      OBVIOUS
    <3>2. h \in [ItemIds -> R] /\ \A y \in R : \E i \in ItemIds : h[i] = y
      BY <2>1, <3>1
    <3>3. h \in Surjection(ItemIds, R)
      BY <3>2 DEF Surjection
    <3>4. QED
      BY <1>1, <3>1, <3>3, FS_Surjection
  <2>2. f = [i \in ItemIds |-> f[i]] /\ g = [i \in ItemIds |-> g[i]]
    BY DEF f, g
  <2>3. QED
    BY <2>1, <2>2
<1>3. Experiments \in SUBSET ({f[i] : i \in ItemIds} \cup {g[i] : i \in ItemIds})
  BY DEF Experiments
<1>4. IsFiniteSet(Experiments)
  BY <1>2, <1>3, FS_Union, FS_Subset
<1>5. ASSUME NEW x \in Experiments
      PROVE  x = [lab |-> x.lab, exp |-> x.exp] /\ x.lab \in Labs /\ x.lab \in Nat \ {0} /\ x.exp \in Nat
  <2>1. PICK i \in ItemIds : x = [lab |-> Items[i].lab, exp |-> Items[i].exp]
                             \/ x = [lab |-> Items[i].lab, exp |-> CutExp]
    BY DEF Experiments
  <2>2. Items[i].lab \in Labs /\ Items[i].lab \in Nat \ {0} /\ Items[i].exp \in Nat
    BY ItemFacts, SamplesAssumption
  <2>3. QED
    BY <2>1, <2>2 DEF CutExp
<1>6. QED
  BY <1>4, <1>5 DEF Experiments

(* They are listed by the names of laboratory and experiment.              *)
LEMMA ByNameFacts ==
  ASSUME NEW S \in SUBSET Experiments
  PROVE  Lists(ByName(S), S) /\ IsFiniteSet(S) /\ Cardinality(S) \in Nat
<1> DEFINE Sooner(a, b) == a.lab < b.lab \/ (a.lab = b.lab /\ a.exp < b.exp)
           Nth(n) == CHOOSE j \in S : Cardinality({i \in S : Sooner(i, j)}) = n - 1
           f == ByName(S)
<1>b. IsFiniteSet(S) /\ Cardinality(S) \in Nat
  BY ExperimentFacts, FS_Subset, FS_CardinalityType
<1>0. \A a \in S : a = [lab |-> a.lab, exp |-> a.exp] /\ a.lab \in Nat /\ a.exp \in Nat
  BY ExperimentFacts
<1>a. /\ \A i, j \in S : i = j \/ Sooner(i, j) \/ Sooner(j, i)
      /\ \A i \in S : ~Sooner(i, i)
      /\ \A i, j, k \in S : Sooner(i, j) /\ Sooner(j, k) => Sooner(i, k)
  <2>1. ASSUME NEW i \in S, NEW j \in S, ~Sooner(i, j), ~Sooner(j, i)
        PROVE  i = j
    <3>1. i.lab = j.lab /\ i.exp = j.exp
      BY <1>0, <2>1
    <3>2. QED
      BY <1>0, <3>1
  <2>2. QED
    BY <1>0, <2>1
<1>3. f = [n \in 1..Cardinality(S) |-> Nth(n)]
  BY DEF ByName, Ordered
<1> HIDE DEF Sooner
<1>1. PICK Below : \A i, j \in S : Below[j] = {k \in S : Sooner(k, j)} /\ (i \in Below[j] <=> Sooner(i, j))
  <2>1. WITNESS [j \in S |-> {k \in S : Sooner(k, j)}]
  <2>2. QED
    OBVIOUS
<1>2. TotalOrder(S, Below)
  <2>1. \A j \in S : Below[j] \subseteq S \ {j}
    BY <1>1, <1>a
  <2>2. ASSUME NEW i \in S, NEW j \in S, Sooner(i, j)
        PROVE  i \in Below[j] /\ Below[i] \subseteq Below[j]
    BY <1>1, <1>a, <2>1, <2>2
  <2>3. QED
    BY <1>a, <1>b, <2>1, <2>2 DEF TotalOrder
<1>4. ASSUME NEW n \in 1..Cardinality(S), NEW k \in S, Cardinality(Below[k]) = n - 1
      PROVE  Nth(n) \in S /\ Cardinality(Below[Nth(n)]) = n - 1
  <2>1. Cardinality({i \in S : Sooner(i, k)}) = n - 1
    BY <1>1, <1>4
  <2>2. Nth(n) \in S /\ Cardinality({i \in S : Sooner(i, Nth(n))}) = n - 1
    BY <2>1
  <2>3. QED
    BY <1>1, <2>2
<1> HIDE DEF f, Nth
<1>5. Ranks(f, S, Below)
  BY <1>3, <1>4 DEF Ranks
<1>6. Lists(f, S)
  BY <1>2, <1>5, ListedByRank
<1>7. QED
  BY <1>b, <1>6 DEF f

-----------------------------------------------------------------------------
(* What the statements of the repositories do to a row.                    *)

SampleWith(row, status, place, log) ==
  [status |-> status, at |-> place, route |-> row.route, log |-> log]

WipRow(row, status, place) ==
  [sample |-> row.sample, lab |-> row.lab, exp |-> row.exp, no |-> row.no,
   status |-> status, at |-> place]

TransferWith(row, status) ==
  [kind |-> row.kind, of |-> row.of, from |-> row.from, to |-> row.to, status |-> status]

(* The one record with these fields.                                       *)
LEMMA SampleRecord ==
  ASSUME NEW a, NEW b, NEW c, NEW d,
         NEW r \in [status : {a}, at : {b}, route : {c}, log : {d}]
  PROVE  r = [status |-> a, at |-> b, route |-> c, log |-> d]
OBVIOUS

(* A sample gets a status, a place and a line of its history.              *)
LEMMA SampleForms ==
  ASSUME NEW row, IsSample(row), NEW place \in Places, NEW st \in SampleStatuses
  PROVE  /\ row = SampleWith(row, row.status, row.at, row.log)
         /\ Moved(row, place) = SampleWith(row, row.status, place, row.log)
         /\ Logged(Moved(row, place), st) = SampleWith(row, row.status, place, st)
         /\ Logged(AsReceived(row, place), st) = SampleWith(row, "received", place, st)
         /\ Logged(AsInStorage(row), st) = SampleWith(row, "in_storage", row.at, st)
         /\ Logged(AsOutbound(row, place), st) = SampleWith(row, "outbound", place, st)
         /\ Logged(AsPickedUp(row, place), st) = SampleWith(row, "picked_up", place, st)
         /\ Logged(AsSplit(row, place), st) = SampleWith(row, "split", place, st)
         /\ Logged(AsPendingReceive(row, place), st) = SampleWith(row, "pending_receive", place, st)
         /\ Logged([row EXCEPT !.status = "terminated"], st)
              = SampleWith(row, "terminated", row.at, st)
         /\ Logged(WithStatusAt(row, st, place), st) = SampleWith(row, st, place, st)
         /\ WithStatusAt(row, st, place) = SampleWith(row, st, place, row.log)
<1>1. row \in [status : {row.status}, at : {row.at}, route : {row.route}, log : {row.log}]
  BY DEF IsSample
<1>2. row = SampleWith(row, row.status, row.at, row.log)
  BY <1>1, SampleRecord DEF SampleWith
<1>3. Moved(row, place) = SampleWith(row, row.status, place, row.log)
  <2>1. Moved(row, place)
          \in [status : {row.status}, at : {place}, route : {row.route}, log : {row.log}]
    BY <1>1 DEF Moved
  <2>2. QED
    BY <2>1, SampleRecord DEF SampleWith
<1>4. Logged(Moved(row, place), st) = SampleWith(row, row.status, place, st)
  <2>1. Logged(Moved(row, place), st)
          \in [status : {row.status}, at : {place}, route : {row.route}, log : {st}]
    BY <1>1 DEF Moved, Logged
  <2>2. QED
    BY <2>1, SampleRecord DEF SampleWith
<1>5. Logged(AsReceived(row, place), st) = SampleWith(row, "received", place, st)
  <2>1. Logged(AsReceived(row, place), st)
          \in [status : {"received"}, at : {place}, route : {row.route}, log : {st}]
    BY <1>1 DEF AsReceived, Logged
  <2>2. QED
    BY <2>1, SampleRecord DEF SampleWith
<1>6. Logged(AsInStorage(row), st) = SampleWith(row, "in_storage", row.at, st)
  <2>1. Logged(AsInStorage(row), st)
          \in [status : {"in_storage"}, at : {row.at}, route : {row.route}, log : {st}]
    BY <1>1 DEF AsInStorage, Logged
  <2>2. QED
    BY <2>1, SampleRecord DEF SampleWith
<1>7. Logged(AsOutbound(row, place), st) = SampleWith(row, "outbound", place, st)
  <2>1. Logged(AsOutbound(row, place), st)
          \in [status : {"outbound"}, at : {place}, route : {row.route}, log : {st}]
    BY <1>1 DEF AsOutbound, Logged
  <2>2. QED
    BY <2>1, SampleRecord DEF SampleWith
<1>8. Logged(AsPickedUp(row, place), st) = SampleWith(row, "picked_up", place, st)
  <2>1. Logged(AsPickedUp(row, place), st)
          \in [status : {"picked_up"}, at : {place}, route : {row.route}, log : {st}]
    BY <1>1 DEF AsPickedUp, Logged
  <2>2. QED
    BY <2>1, SampleRecord DEF SampleWith
<1>9. Logged(AsSplit(row, place), st) = SampleWith(row, "split", place, st)
  <2>1. Logged(AsSplit(row, place), st)
          \in [status : {"split"}, at : {place}, route : {row.route}, log : {st}]
    BY <1>1 DEF AsSplit, Logged
  <2>2. QED
    BY <2>1, SampleRecord DEF SampleWith
<1>10. Logged(AsPendingReceive(row, place), st) = SampleWith(row, "pending_receive", place, st)
  <2>1. Logged(AsPendingReceive(row, place), st)
          \in [status : {"pending_receive"}, at : {place}, route : {row.route}, log : {st}]
    BY <1>1 DEF AsPendingReceive, Logged
  <2>2. QED
    BY <2>1, SampleRecord DEF SampleWith
<1>11. Logged([row EXCEPT !.status = "terminated"], st) = SampleWith(row, "terminated", row.at, st)
  <2>1. Logged([row EXCEPT !.status = "terminated"], st)
          \in [status : {"terminated"}, at : {row.at}, route : {row.route}, log : {st}]
    BY <1>1 DEF Logged
  <2>2. QED
    BY <2>1, SampleRecord DEF SampleWith
<1>12. Logged(WithStatusAt(row, st, place), st) = SampleWith(row, st, place, st)
  <2>1. Logged(WithStatusAt(row, st, place), st)
          \in [status : {st}, at : {place}, route : {row.route}, log : {st}]
    BY <1>1 DEF WithStatusAt, Logged
  <2>2. QED
    BY <2>1, SampleRecord DEF SampleWith
<1>13. WithStatusAt(row, st, place) = SampleWith(row, st, place, row.log)
  <2>1. WithStatusAt(row, st, place)
          \in [status : {st}, at : {place}, route : {row.route}, log : {row.log}]
    BY <1>1 DEF WithStatusAt
  <2>2. QED
    BY <2>1, SampleRecord DEF SampleWith
<1>14. QED
  BY <1>2, <1>3, <1>4, <1>5, <1>6, <1>7, <1>8, <1>9, <1>10, <1>11, <1>12, <1>13

(* Such a row is a sample again.                                           *)
LEMMA SampleWithIsSample ==
  ASSUME NEW row, IsSample(row), NEW place \in Places, NEW st \in SampleStatuses,
         NEW log \in SampleStatuses
  PROVE  /\ IsSample(SampleWith(row, st, place, log))
         /\ SampleWith(row, st, place, log).status = st
         /\ SampleWith(row, st, place, log).at = place
         /\ SampleWith(row, st, place, log).log = log
         /\ SampleWith(row, st, place, log).route = row.route
BY DEF IsSample, SampleWith

(* A WIP gets a status and a place.                                        *)
LEMMA WipForms ==
  ASSUME NEW row, IsWip(row), NEW place \in Places, NEW st \in WipStatuses
  PROVE  /\ row = WipRow(row, row.status, row.at)
         /\ Moved(row, place) = WipRow(row, row.status, place)
         /\ WipWith(row, st, place) = WipRow(row, st, place)
         /\ [row EXCEPT !.status = st] = WipRow(row, st, row.at)
         /\ IsWip(WipRow(row, st, place))
<1>1. PICK L, E, N : L = {row.lab} /\ E = {row.exp} /\ N = {row.no}
  OBVIOUS
<1>2. row \in [sample : Samples, lab : L, exp : E, no : N, status : WipStatuses, at : Places]
  BY <1>1 DEF IsWip
<1>3. /\ row = WipRow(row, row.status, row.at)
      /\ Moved(row, place) = WipRow(row, row.status, place)
      /\ [row EXCEPT !.status = st] = WipRow(row, st, row.at)
  BY <1>2 DEF WipRow, Moved
<1>4. WipWith(row, st, place) = WipRow(row, st, place)
  <2>1. PICK S : S = {row.sample}
    OBVIOUS
  <2>2. WipWith(row, st, place)
          \in [sample : S, lab : L, exp : E, no : N, status : {st}, at : {place}]
    BY <1>1, <1>2, <2>1 DEF WipWith
  <2>3. QED
    BY <1>1, <2>1, <2>2 DEF WipRow
<1>5. IsWip(WipRow(row, st, place))
  BY DEF IsWip, WipRow
<1>6. QED
  BY <1>3, <1>4, <1>5

(* A transfer gets a status.                                               *)
LEMMA TransferForms ==
  ASSUME NEW row \in TransferRows
  PROVE  /\ AsTransferring(row) = TransferWith(row, "transferring")
         /\ AsCancelled(row) = TransferWith(row, "cancelled")
         /\ [row EXCEPT !.status = "received"] = TransferWith(row, "received")
         /\ \A st \in TransferStatuses : TransferWith(row, st) \in TransferRows
<1>1. /\ AsTransferring(row) = TransferWith(row, "transferring")
      /\ AsCancelled(row) = TransferWith(row, "cancelled")
      /\ [row EXCEPT !.status = "received"] = TransferWith(row, "received")
  BY DEF AsTransferring, AsCancelled, TransferWith, TransferRows
<1>2. ASSUME NEW st \in TransferStatuses
      PROVE  TransferWith(row, st) \in TransferRows
  BY DEF TransferWith, TransferRows
<1>3. QED
  BY <1>1, <1>2

(* Places.                                                                 *)
LEMMA PlaceFacts ==
  /\ \A lab \in Labs \cup {NoLab}, area \in Areas :
       At(lab, area) \in Places /\ At(lab, area).lab = lab /\ At(lab, area).area = area
  /\ \A lab \in Labs \cup {NoLab} : ReceiveArea(lab) \in Places /\ WaitingArea(lab) \in Places
BY DEF At, Places, Areas, ReceiveArea, WaitingArea

(* What a completed WIP makes of its sample.                               *)
LEMMA AfterCompletionFacts ==
  ASSUME NEW s, IsSample(samples[s]), NEW k, NEW lab \in Labs \cup {NoLab}
  PROVE  \E st \in {"split", "pending_transfer"}, log \in SampleStatuses :
           /\ AfterCompletion(s, k, lab) = SampleWith(samples[s], st, At(lab, "temp"), log)
           /\ log = st \/ (log = samples[s].log /\ st = "split" /\ k # Len(samples[s].route))
           /\ st = StatusAfter(samples[s].route, k, lab)
<1> DEFINE st == StatusAfter(samples[s].route, k, lab)
<1>1. st \in {"split", "pending_transfer"} /\ st \in SampleStatuses
  BY DEF StatusAfter, SampleStatuses
<1>2. At(lab, "temp") \in Places
  BY PlaceFacts DEF Areas
<1> HIDE DEF st
<1>3. /\ Logged(WithStatusAt(samples[s], st, At(lab, "temp")), st)
           = SampleWith(samples[s], st, At(lab, "temp"), st)
      /\ WithStatusAt(samples[s], st, At(lab, "temp"))
           = SampleWith(samples[s], st, At(lab, "temp"), samples[s].log)
  BY <1>1, <1>2, SampleForms
<1>4. AfterCompletion(s, k, lab) =
        IF st = "pending_transfer" \/ k = Len(samples[s].route)
        THEN Logged(WithStatusAt(samples[s], st, At(lab, "temp")), st)
        ELSE WithStatusAt(samples[s], st, At(lab, "temp"))
  BY DEF AfterCompletion, st
<1>5. samples[s].log \in SampleStatuses
  BY DEF IsSample
<1>6. CASE st = "pending_transfer" \/ k = Len(samples[s].route)
  BY <1>1, <1>3, <1>4, <1>6 DEF st
<1>7. CASE ~(st = "pending_transfer" \/ k = Len(samples[s].route))
  BY <1>1, <1>3, <1>4, <1>5, <1>7 DEF st
<1>8. QED
  BY <1>6, <1>7

-----------------------------------------------------------------------------
(* What a step does to the samples.                                        *)

SamplePlaced(s, st) ==
  /\ st = "outbound" =>
       \/ samples[s].status = "outbound"
       \/ \E p \in Sessions : sess[p].op = "outbound" /\ sess[p].s = s
  /\ st = "picked_up" =>
       \/ samples[s].status = "picked_up"
       \/ \E p \in Sessions : sess[p].op = "pickup" /\ sess[p].s = s

SampleChanged(s) ==
  \/ samples'[s] = samples[s]
  \/ \E p \in Sessions : /\ sess[p].op = "deliver" /\ ~Present(s) /\ ItemsOf(s) # {}
                         /\ samples'[s] = Delivered(s, sess[p].found)
  \/ \E st \in SampleStatuses \ {"absent"}, place \in Places, log \in SampleStatuses :
       /\ Present(s) /\ SamplePlaced(s, st)
       /\ samples'[s] = SampleWith(samples[s], st, place, log)

SamplesChanged ==
  samples' = [s \in Samples |-> samples'[s]] /\ \A s \in Samples : SampleChanged(s)

(* A request under way reads its rows and changes none.                    *)
LEMMA RequestsChangeNothing ==
  ASSUME NEW p \in Sessions, SampleRequest(p) \/ WorkRequest(p)
  PROVE  UNCHANGED <<samples, wips, transfers, claimed, done, told>> /\ sess[p] = Idle
<1>1. ASSUME NEW r, Ask(p, r)
      PROVE  UNCHANGED <<samples, wips, transfers, claimed, done, told>> /\ sess[p] = Idle
  BY <1>1 DEF Ask, rows
<1>2. ASSUME AskDelivery(p)
      PROVE  UNCHANGED <<samples, wips, transfers, claimed, done, told>> /\ sess[p] = Idle
  BY <1>1, <1>2 DEF AskDelivery
<1>3. ASSUME AskReceive(p)
      PROVE  UNCHANGED <<samples, wips, transfers, claimed, done, told>> /\ sess[p] = Idle
  BY <1>1, <1>3 DEF AskReceive
<1>4. ASSUME AskInbound(p)
      PROVE  UNCHANGED <<samples, wips, transfers, claimed, done, told>> /\ sess[p] = Idle
  BY <1>1, <1>4 DEF AskInbound
<1>5. ASSUME AskOutbound(p)
      PROVE  UNCHANGED <<samples, wips, transfers, claimed, done, told>> /\ sess[p] = Idle
  BY <1>1, <1>5 DEF AskOutbound
<1>6. ASSUME AskPickup(p)
      PROVE  UNCHANGED <<samples, wips, transfers, claimed, done, told>> /\ sess[p] = Idle
  BY <1>1, <1>6 DEF AskPickup
<1>7. ASSUME AskSplit(p)
      PROVE  UNCHANGED <<samples, wips, transfers, claimed, done, told>> /\ sess[p] = Idle
  BY <1>1, <1>7 DEF AskSplit
<1>8. ASSUME AskGenerate(p)
      PROVE  UNCHANGED <<samples, wips, transfers, claimed, done, told>> /\ sess[p] = Idle
  BY <1>1, <1>8 DEF AskGenerate
<1>9. ASSUME AskNext(p)
      PROVE  UNCHANGED <<samples, wips, transfers, claimed, done, told>> /\ sess[p] = Idle
  BY <1>1, <1>9 DEF AskNext
<1>10. ASSUME AskWip(p)
      PROVE  UNCHANGED <<samples, wips, transfers, claimed, done, told>> /\ sess[p] = Idle
  BY <1>1, <1>10 DEF AskWip
<1>11. ASSUME AskOthersComplete(p)
      PROVE  UNCHANGED <<samples, wips, transfers, claimed, done, told>> /\ sess[p] = Idle
  BY <1>1, <1>11 DEF AskOthersComplete
<1>12. ASSUME AskTransfer(p)
      PROVE  UNCHANGED <<samples, wips, transfers, claimed, done, told>> /\ sess[p] = Idle
  BY <1>1, <1>12 DEF AskTransfer
<1>13. ASSUME AskWipTransfer(p)
      PROVE  UNCHANGED <<samples, wips, transfers, claimed, done, told>> /\ sess[p] = Idle
  BY <1>1, <1>13 DEF AskWipTransfer
<1>14. ASSUME AskMove(p)
      PROVE  UNCHANGED <<samples, wips, transfers, claimed, done, told>> /\ sess[p] = Idle
  BY <1>1, <1>14 DEF AskMove
<1>15. QED
  BY <1>2, <1>3, <1>4, <1>5, <1>6, <1>7, <1>8, <1>9, <1>10, <1>11, <1>12, <1>13, <1>14 DEF SampleRequest, WorkRequest

(* One sample gets a status, a place and a line of its history.            *)
LEMMA OneSampleChanged ==
  ASSUME SampleRowsOk, NEW x \in Samples, Present(x),
         NEW st \in SampleStatuses \ {"absent"}, SamplePlaced(x, st),
         NEW place \in Places, NEW log \in SampleStatuses,
         samples' = [samples EXCEPT ![x] = SampleWith(samples[x], st, place, log)]
  PROVE  SamplesChanged
<1>1. samples' = [s \in Samples |-> samples'[s]]
  BY DEF SampleRowsOk
<1>2. samples'[x] = SampleWith(samples[x], st, place, log)
  BY DEF SampleRowsOk
<1>3. \A s \in Samples : s # x => samples'[s] = samples[s]
  BY DEF SampleRowsOk
<1>4. \A s \in Samples : SampleChanged(s)
  <2>1. SampleChanged(x)
    BY <1>2 DEF SampleChanged
  <2>2. \A s \in Samples : s # x => SampleChanged(s)
    BY <1>3 DEF SampleChanged
  <2>3. QED
    BY <2>1, <2>2
<1>5. QED
  BY <1>1, <1>4 DEF SamplesChanged

(* No sample changes.                                                      *)
LEMMA NoSampleChanged ==
  ASSUME SampleRowsOk, UNCHANGED samples
  PROVE  SamplesChanged
BY DEF SampleRowsOk, SamplesChanged, SampleChanged

(* What a completed WIP makes of its sample.                               *)
LEMMA CompletionChanged ==
  ASSUME SampleRowsOk, NEW x \in Samples, Present(x), NEW k, NEW lab \in Labs \cup {NoLab},
         samples' = [samples EXCEPT ![x] = AfterCompletion(x, k, lab)]
  PROVE  SamplesChanged
<1>1. IsSample(samples[x])
  BY DEF SampleRowsOk
<1>2. PICK st \in {"split", "pending_transfer"}, log \in SampleStatuses :
        AfterCompletion(x, k, lab) = SampleWith(samples[x], st, At(lab, "temp"), log)
  BY <1>1, AfterCompletionFacts
<1>3. At(lab, "temp") \in Places
  BY PlaceFacts DEF Areas
<1>4. st \in SampleStatuses \ {"absent"} /\ SamplePlaced(x, st)
  BY DEF SampleStatuses, SamplePlaced
<1>5. PICK place \in Places : place = At(lab, "temp")
  BY <1>3
<1>6. samples' = [samples EXCEPT ![x] = SampleWith(samples[x], st, place, log)]
  BY <1>2, <1>5
<1>7. QED
  BY <1>4, <1>6, OneSampleChanged

(* What every handler does to the samples.                                 *)
LEMMA SamplesStep ==
  ASSUME RowsInv, Next
  PROVE  SamplesChanged
<1>0. SampleRowsOk /\ WipRowsOk /\ TransferRowsOk /\ SessOk
  BY DEF RowsInv
<1>a. \A p \in Sessions : RequestOk(sess[p]) /\ IsRequest(sess[p]) /\ sess[p].by.lab \in Labs \cup {NoLab}
  BY <1>0 DEF SessOk, RequestOk, IsRequest, Users
<1>b. \A s \in Samples : /\ IsSample(samples[s])
                         /\ samples[s].status \in SampleStatuses /\ samples[s].at \in Places
                         /\ samples[s].log \in SampleStatuses
  BY <1>0 DEF SampleRowsOk, IsSample
<1>c. ASSUME NEW x \in Samples, Present(x), NEW row, NEW st, NEW place \in Places, NEW log,
             st \in SampleStatuses \ {"absent"}, log \in SampleStatuses, SamplePlaced(x, st),
             samples' = [samples EXCEPT ![x] = row],
             row = SampleWith(samples[x], st, place, log)
      PROVE  SamplesChanged
  BY <1>0, <1>c, OneSampleChanged
<1>1. CASE UNCHANGED samples
  BY <1>0, <1>1, NoSampleChanged
<1>2. ASSUME NEW p \in Sessions, Deliver(p)
      PROVE  SamplesChanged
  <2>1. samples' = [s \in Samples |-> IF Present(s) \/ ItemsOf(s) = {} THEN samples[s]
                                      ELSE Delivered(s, sess[p].found)]
        /\ sess[p].op = "deliver"
    BY <1>2 DEF Deliver
  <2>2. samples' = [s \in Samples |-> samples'[s]]
    BY <2>1
  <2>3. ASSUME NEW s \in Samples
        PROVE  SampleChanged(s)
    BY <2>1 DEF SampleChanged
  <2>4. QED
    BY <2>2, <2>3 DEF SamplesChanged
<1>3. ASSUME NEW p \in Sessions, Receive(p)
      PROVE  SamplesChanged
  <2>1. PICK x \in Samples, place \in Places :
          /\ x = sess[p].s /\ place = At(sess[p].by.lab, "temp") /\ Present(x)
    BY <1>3, <1>a, PlaceFacts DEF Receive, RequestOk, OfSampleOps, Areas
  <2>2. samples' = [samples EXCEPT ![x] = Logged(AsReceived(samples[x], place), "received")]
    BY <1>3, <2>1 DEF Receive
  <2>3. "received" \in SampleStatuses \ {"absent"} /\ SamplePlaced(x, "received")
    BY DEF SampleStatuses, SamplePlaced
  <2>4. Logged(AsReceived(samples[x], place), "received")
          = SampleWith(samples[x], "received", place, "received")
    BY <1>b, <2>3, SampleForms
  <2>5. QED
    BY <1>c, <2>1, <2>2, <2>3, <2>4
<1>4. ASSUME NEW p \in Sessions, Inbound(p)
      PROVE  SamplesChanged
  <2>1. PICK x \in Samples : x = sess[p].s /\ Present(x)
    BY <1>4, <1>a DEF Inbound, RequestOk, OfSampleOps
  <2>2. samples' = [samples EXCEPT ![x] = Logged(AsInStorage(samples[x]), "in_storage")]
    BY <1>4, <2>1 DEF Inbound
  <2>3. "in_storage" \in SampleStatuses \ {"absent"} /\ SamplePlaced(x, "in_storage")
    BY DEF SampleStatuses, SamplePlaced
  <2>4. Logged(AsInStorage(samples[x]), "in_storage")
          = SampleWith(samples[x], "in_storage", samples[x].at, "in_storage")
    BY <1>b, <2>3, SampleForms
  <2>5. QED
    BY <1>b, <1>c, <2>1, <2>2, <2>3, <2>4
<1>5. ASSUME NEW p \in Sessions, Outbound(p)
      PROVE  SamplesChanged
  <2>1. PICK x \in Samples, place \in Places :
          /\ x = sess[p].s /\ place = At(sess[p].by.lab, "pickup") /\ Present(x)
    BY <1>5, <1>a, PlaceFacts DEF Outbound, RequestOk, OfSampleOps, Areas
  <2>2. samples' = [samples EXCEPT ![x] = Logged(AsOutbound(samples[x], place), "outbound")]
    BY <1>5, <2>1 DEF Outbound
  <2>3. "outbound" \in SampleStatuses \ {"absent"} /\ SamplePlaced(x, "outbound")
    BY <1>5, <2>1 DEF SampleStatuses, SamplePlaced, Outbound
  <2>4. Logged(AsOutbound(samples[x], place), "outbound")
          = SampleWith(samples[x], "outbound", place, "outbound")
    BY <1>b, <2>3, SampleForms
  <2>5. QED
    BY <1>c, <2>1, <2>2, <2>3, <2>4
<1>6. ASSUME NEW p \in Sessions, ConfirmPickup(p)
      PROVE  SamplesChanged
  <2>1. PICK x \in Samples, place \in Places :
          /\ x = sess[p].s /\ place = At(NoLab, "with_applicant") /\ Present(x)
    BY <1>6, <1>a, PlaceFacts DEF ConfirmPickup, RequestOk, OfSampleOps, Areas
  <2>2. samples' = [samples EXCEPT ![x] = Logged(AsPickedUp(samples[x], place), "picked_up")]
    BY <1>6, <2>1 DEF ConfirmPickup
  <2>3. "picked_up" \in SampleStatuses \ {"absent"} /\ SamplePlaced(x, "picked_up")
    BY <1>6, <2>1 DEF SampleStatuses, SamplePlaced, ConfirmPickup
  <2>4. Logged(AsPickedUp(samples[x], place), "picked_up")
          = SampleWith(samples[x], "picked_up", place, "picked_up")
    BY <1>b, <2>3, SampleForms
  <2>5. QED
    BY <1>c, <2>1, <2>2, <2>3, <2>4
<1>7. ASSUME NEW p \in Sessions, Split(p)
      PROVE  SamplesChanged
  <2>1. PICK x \in Samples, place \in Places :
          /\ x = sess[p].s /\ place = At(sess[p].by.lab, "temp") /\ Present(x)
    BY <1>7, <1>a, PlaceFacts DEF Split, RequestOk, OfSampleOps, Areas
  <2>2. samples' = [samples EXCEPT ![x] = Logged(AsSplit(samples[x], place), "split")]
    BY <1>7, <2>1 DEF Split
  <2>3. "split" \in SampleStatuses \ {"absent"} /\ SamplePlaced(x, "split")
    BY DEF SampleStatuses, SamplePlaced
  <2>4. Logged(AsSplit(samples[x], place), "split")
          = SampleWith(samples[x], "split", place, "split")
    BY <1>b, <2>3, SampleForms
  <2>5. QED
    BY <1>c, <2>1, <2>2, <2>3, <2>4
<1>8. ASSUME NEW p \in Sessions, GenerateMissing(p)
      PROVE  SamplesChanged
  <2>1. PICK x \in Samples : x = sess[p].s /\ Present(x)
    BY <1>8, <1>a DEF GenerateMissing, RequestOk, OfSampleOps
  <2>2. PICK place \in Places : place = samples[x].at
    BY <1>b
  <2>3. \/ samples' = samples
        \/ samples' = [samples EXCEPT ![x] = Logged(AsSplit(samples[x], place), "split")]
    BY <1>8, <2>1, <2>2 DEF GenerateMissing
  <2>4. "split" \in SampleStatuses \ {"absent"} /\ SamplePlaced(x, "split")
    BY DEF SampleStatuses, SamplePlaced
  <2>5. Logged(AsSplit(samples[x], place), "split")
          = SampleWith(samples[x], "split", place, "split")
    BY <1>b, <2>4, SampleForms
  <2>6. QED
    BY <1>1, <1>c, <2>1, <2>3, <2>4, <2>5
<1>9. ASSUME NEW p \in Sessions, StartWip(p)
      PROVE  SamplesChanged
  <2>1. PICK x \in Samples, place \in Places :
          /\ x = sess[p].s /\ place = At(sess[p].by.lab, "machine") /\ Present(x)
    BY <1>9, <1>a, PlaceFacts DEF StartWip, RequestOk, OfWipOps, Areas
  <2>2. samples' = [samples EXCEPT ![x] = Moved(samples[x], place)]
    BY <1>9, <2>1 DEF StartWip, ActionPlace
  <2>3. samples[x].status \in SampleStatuses \ {"absent"} /\ SamplePlaced(x, samples[x].status)
    BY <1>b, <2>1 DEF SamplePlaced, Present
  <2>4. Moved(samples[x], place) = SampleWith(samples[x], samples[x].status, place, samples[x].log)
    BY <1>b, <2>3, SampleForms
  <2>5. QED
    BY <1>b, <1>c, <2>1, <2>2, <2>3, <2>4
<1>10. ASSUME NEW p \in Sessions, CompleteWip(p)
       PROVE  SamplesChanged
  <2>0. PICK k : k = sess[p].step
    OBVIOUS
  <2>1. PICK x \in Samples, lab \in Labs \cup {NoLab}, place \in Places :
          /\ x = sess[p].s /\ lab = sess[p].by.lab /\ place = At(lab, "temp") /\ Present(x)
    BY <1>10, <1>a, PlaceFacts DEF CompleteWip, RequestOk, OfWipOps, Areas
  <2>2. samples' = [samples EXCEPT ![x] = IF lab = NoLab THEN Moved(samples[x], place)
                                          ELSE AfterCompletion(x, k, lab)]
    BY <1>10, <2>0, <2>1 DEF CompleteWip, ActionPlace
  <2>3. CASE lab = NoLab
    <3>1. samples[x].status \in SampleStatuses \ {"absent"} /\ SamplePlaced(x, samples[x].status)
      BY <1>b, <2>1 DEF SamplePlaced, Present
    <3>2. Moved(samples[x], place) = SampleWith(samples[x], samples[x].status, place, samples[x].log)
      BY <1>b, <3>1, SampleForms
    <3>3. samples' = [samples EXCEPT ![x] = Moved(samples[x], place)]
      BY <2>2, <2>3
    <3>4. QED
      BY <1>b, <1>c, <2>1, <3>1, <3>2, <3>3
  <2>4. CASE lab # NoLab
    <3>1. samples' = [samples EXCEPT ![x] = AfterCompletion(x, k, lab)]
      BY <2>2, <2>4
    <3>2. QED
      BY <1>0, <2>1, <3>1, CompletionChanged
  <2>5. QED
    BY <2>3, <2>4
<1>11. ASSUME NEW p \in Sessions, OthersComplete(p)
       PROVE  SamplesChanged
  <2>1. sess[p].w \in DOMAIN wips /\ sess[p].s \in Samples /\ Present(sess[p].s)
    BY <1>11, <1>a DEF OthersComplete, RequestOk, OfWipOps
  <2>2. wips[sess[p].w].lab \in Labs
    BY <1>0, <2>1, ExperimentFacts DEF WipRowsOk, IsWip
  <2>a. PICK k : k = sess[p].step
    OBVIOUS
  <2>3. PICK x \in Samples, lab \in Labs \cup {NoLab} :
          x = sess[p].s /\ lab = wips[sess[p].w].lab
    BY <2>1, <2>2
  <2>4. samples' = [samples EXCEPT ![x] = AfterCompletion(x, k, lab)]
    BY <1>11, <2>a, <2>3 DEF OthersComplete
  <2>5. QED
    BY <1>0, <2>1, <2>3, <2>4, CompletionChanged
<1>12. ASSUME NEW p \in Sessions, AdvanceSample(p)
       PROVE  SamplesChanged
  <2>1. sess[p].w \in DOMAIN wips /\ sess[p].s \in Samples /\ Present(sess[p].s)
    BY <1>12, <1>a DEF AdvanceSample, RequestOk, OfWipOps
  <2>2. wips[sess[p].w].lab \in Labs
    BY <1>0, <2>1, ExperimentFacts DEF WipRowsOk, IsWip
  <2>a. PICK k : k = StepOfWip(LatestCompleted(sess[p].s, wips[sess[p].w].lab))
    OBVIOUS
  <2>3. PICK x \in Samples, lab \in Labs \cup {NoLab} :
          x = sess[p].s /\ lab = wips[sess[p].w].lab
    BY <2>1, <2>2
  <2>4. samples' = samples \/ samples' = [samples EXCEPT ![x] = AfterCompletion(x, k, lab)]
    BY <1>12, <2>a, <2>3 DEF AdvanceSample
  <2>5. QED
    BY <1>0, <1>1, <2>1, <2>3, <2>4, CompletionChanged
<1>13. ASSUME NEW p \in Sessions, WithdrawSample(p)
       PROVE  SamplesChanged
  <2>1. PICK x \in Samples : x = sess[p].s /\ Present(x)
    BY <1>13, <1>a DEF WithdrawSample, RequestOk, OfWipOps
  <2>2. \/ samples' = samples
        \/ samples' = [samples EXCEPT ![x] =
                         Logged([samples[x] EXCEPT !.status = "terminated"], "terminated")]
    BY <1>13, <2>1 DEF WithdrawSample
  <2>3. "terminated" \in SampleStatuses \ {"absent"} /\ SamplePlaced(x, "terminated")
    BY DEF SampleStatuses, SamplePlaced
  <2>4. Logged([samples[x] EXCEPT !.status = "terminated"], "terminated")
          = SampleWith(samples[x], "terminated", samples[x].at, "terminated")
    BY <1>b, <2>3, SampleForms
  <2>5. QED
    BY <1>1, <1>b, <1>c, <2>1, <2>2, <2>3, <2>4
<1>14. ASSUME NEW p \in Sessions, CreateTransfer(p)
       PROVE  SamplesChanged
  <2>1. PICK x \in Samples, place \in Places, log \in SampleStatuses :
          /\ x = sess[p].s /\ place = WaitingArea(sess[p].by.lab) /\ Present(x)
          /\ log = sess[p].was
    BY <1>14, <1>a, PlaceFacts DEF CreateTransfer, RequestOk, OfSampleOps, IsRequest
  <2>2. samples' = [samples EXCEPT ![x] = Logged(Moved(samples[x], place), log)]
    BY <1>14, <2>1 DEF CreateTransfer
  <2>3. samples[x].status \in SampleStatuses \ {"absent"} /\ SamplePlaced(x, samples[x].status)
    BY <1>b, <2>1 DEF SamplePlaced, Present
  <2>4. Logged(Moved(samples[x], place), log)
          = SampleWith(samples[x], samples[x].status, place, log)
    BY <1>b, SampleForms
  <2>5. QED
    BY <1>c, <2>1, <2>2, <2>3, <2>4
<1>15. ASSUME NEW p \in Sessions, SendTransfer(p)
       PROVE  SamplesChanged
  <2>1. sess[p].t \in DOMAIN transfers
    BY <1>15, <1>a DEF SendTransfer, RequestOk
  <2>2. CASE transfers[sess[p].t].kind = "sample"
    <3>1. PICK x \in Samples, place \in Places :
            /\ x = transfers[sess[p].t].of /\ Present(x)
            /\ place = ReceiveArea(transfers[sess[p].t].to)
      BY <1>0, <2>1, <2>2, PlaceFacts DEF TransferRowsOk, TransferRows
    <3>2. samples' = [samples EXCEPT ![x] =
                        Logged(AsPendingReceive(samples[x], place), "pending_receive")]
      BY <1>15, <2>2, <3>1 DEF SendTransfer
    <3>3. "pending_receive" \in SampleStatuses \ {"absent"} /\ SamplePlaced(x, "pending_receive")
      BY DEF SampleStatuses, SamplePlaced
    <3>4. Logged(AsPendingReceive(samples[x], place), "pending_receive")
            = SampleWith(samples[x], "pending_receive", place, "pending_receive")
      BY <1>b, <3>3, SampleForms
    <3>5. QED
      BY <1>c, <3>1, <3>2, <3>3, <3>4
  <2>3. CASE transfers[sess[p].t].kind # "sample"
    BY <1>15, <1>1, <2>3 DEF SendTransfer
  <2>4. QED
    BY <2>2, <2>3
<1>16. ASSUME NEW p \in Sessions, CancelTransfer(p)
       PROVE  SamplesChanged
  <2>1. sess[p].t \in DOMAIN transfers
    BY <1>16, <1>a DEF CancelTransfer, RequestOk
  <2>2. CASE transfers[sess[p].t].kind = "sample"
    <3>1. PICK x \in Samples, place \in Places :
            /\ x = transfers[sess[p].t].of /\ Present(x)
            /\ place = WaitingArea(transfers[sess[p].t].from)
      BY <1>0, <2>1, <2>2, PlaceFacts DEF TransferRowsOk, TransferRows
    <3>2. samples' = [samples EXCEPT ![x] = Logged(Moved(samples[x], place), samples[x].status)]
      BY <1>16, <2>2, <3>1 DEF CancelTransfer
    <3>3. samples[x].status \in SampleStatuses \ {"absent"} /\ SamplePlaced(x, samples[x].status)
      BY <1>b, <3>1 DEF SamplePlaced, Present
    <3>4. Logged(Moved(samples[x], place), samples[x].status)
            = SampleWith(samples[x], samples[x].status, place, samples[x].status)
      BY <1>b, SampleForms
    <3>5. QED
      BY <1>b, <1>c, <3>1, <3>2, <3>3, <3>4
  <2>3. CASE transfers[sess[p].t].kind # "sample"
    BY <1>16, <1>1, <2>3 DEF CancelTransfer
  <2>4. QED
    BY <2>2, <2>3
<1>17. ASSUME NEW p \in Sessions, SampleRequest(p) \/ WorkRequest(p)
       PROVE  SamplesChanged
  BY <1>1, <1>17, RequestsChangeNothing
<1>18. ASSUME NEW p \in Sessions,
              \/ NextItem(p) \/ SetWip(p) \/ ConfirmResult(p) \/ TerminateRun(p)
              \/ LoseFollowUp(p) \/ CreateWipTransfer(p) \/ TransferNoTaken(p)
       PROVE  SamplesChanged
  BY <1>1, <1>18 DEF NextItem, SetWip, ConfirmResult, TerminateRun, RunEnds, LoseFollowUp,
                     CreateWipTransfer, TransferNoTaken, rows
<1>19. QED
  BY <1>1, <1>2, <1>3, <1>4, <1>5, <1>6, <1>7, <1>8, <1>9, <1>10, <1>11, <1>12, <1>13,
     <1>14, <1>15, <1>16, <1>17, <1>18
     DEF Next, SampleHandler, WorkHandler, AllPickedUp, vars

-----------------------------------------------------------------------------
(* The numbers of WIPs.                                                    *)

(* Of an interval of numbers all are free but for at most as many as are   *)
(* taken at all.                                                           *)
LEMMA FreeAreMany ==
  ASSUME NEW taken, IsFiniteSet(taken), NEW lab, NEW a \in Nat, NEW b \in Nat, a <= b,
         NEW free, free = {m \in a..b : <<lab, m>> \notin taken}
  PROVE  /\ IsFiniteSet(free) /\ Cardinality(free) \in Nat /\ Cardinality(taken) \in Nat
         /\ Cardinality(free) >= (b - a + 1) - Cardinality(taken)
<1> DEFINE T == {m \in a..b : <<lab, m>> \in taken}
           f == [m \in T |-> <<lab, m>>]
<1>1. IsFiniteSet(a..b) /\ Cardinality(a..b) = b - a + 1
  BY FS_Interval
<1>2. IsFiniteSet(T) /\ Cardinality(T) \in Nat /\ T \subseteq a..b
  BY <1>1, FS_Subset, FS_CardinalityType
<1>3. f \in Injection(T, taken)
  <2>1. f \in [T -> taken]
    OBVIOUS
  <2>2. \A m, n \in T : f[m] = f[n] => m = n
    OBVIOUS
  <2> HIDE DEF f, T
  <2>3. QED
    BY <2>1, <2>2, Fun_IsInj
<1> HIDE DEF f
<1>4. Cardinality(T) <= Cardinality(taken) /\ Cardinality(taken) \in Nat
  BY <1>3, FS_Injection, FS_CardinalityType
<1>5. free = (a..b) \ T
  OBVIOUS
<1>6. (a..b) \cap T = T
  BY <1>2
<1> HIDE DEF T
<1>7. IsFiniteSet(free) /\ Cardinality(free) = Cardinality(a..b) - Cardinality(T)
  BY <1>1, <1>5, <1>6, FS_Difference
<1>8. QED
  BY <1>1, <1>2, <1>4, <1>7, FS_CardinalityType

(* generate_unique_wip_no finds a number.                                  *)
LEMMA FreeNumberFacts ==
  ASSUME NEW taken, IsFiniteSet(taken), NEW lab, NEW least \in Nat
  PROVE  /\ FreeNumber(taken, lab, least) \in least..(least + Cardinality(taken))
         /\ Cardinality(taken) \in Nat
<1>1. PICK C \in Nat : C = Cardinality(taken)
  BY FS_CardinalityType
<1>2. PICK free : free = {m \in least..(least + C) : <<lab, m>> \notin taken}
  OBVIOUS
<1>3. Cardinality(free) >= 1 /\ Cardinality(free) \in Nat
  <2>1. least + C \in Nat /\ least <= least + C /\ ((least + C) - least) + 1 - C = 1
    OBVIOUS
  <2>2. PICK b \in Nat : b = least + C
    BY <2>1
  <2>3. /\ Cardinality(free) \in Nat /\ Cardinality(free) >= (b - least + 1) - Cardinality(taken)
    BY <1>2, <2>1, <2>2, FreeAreMany
  <2>4. QED
    BY <1>1, <2>2, <2>3
<1>4. free \in SUBSET Nat /\ free # {}
  <2>1. Cardinality({}) = 0
    BY FS_EmptySet
  <2>2. free \in SUBSET Nat
    BY <1>2
  <2>3. QED
    BY <1>3, <2>1, <2>2
<1>5. PICK n \in free : \A m \in free : n <= m
  BY <1>4, FirstFacts
<1>6. n \in least..(least + C) /\ <<lab, n>> \notin taken /\ \A m \in least..(n - 1) : <<lab, m>> \in taken
  <2>1. ASSUME NEW m \in least..(n - 1)
        PROVE  m \in least..(least + C) /\ ~(n <= m)
    BY <1>2
  <2>2. QED
    BY <1>2, <1>5, <2>1
<1>7. QED
  BY <1>1, <1>6 DEF FreeNumber

(* So does the numbering of a split.                                       *)
LEMMA NthFreeFacts ==
  ASSUME NEW taken, IsFiniteSet(taken), NEW lab, NEW n \in Nat \ {0}
  PROVE  NthFree(taken, lab, n) \in Nat \ {0}
<1>1. PICK C \in Nat : C = Cardinality(taken)
  BY FS_CardinalityType
<1>2. PICK b \in Nat : b = C + n /\ 1 <= b /\ (b - 1 + 1) - C = n
  OBVIOUS
<1>3. PICK free : free = {m \in 1..b : <<lab, m>> \notin taken}
  OBVIOUS
<1>4. Cardinality(free) \in Nat /\ Cardinality(free) >= (b - 1 + 1) - Cardinality(taken) /\ IsFiniteSet(free)
  BY <1>2, <1>3, FreeAreMany
<1>5. n \in 1..Cardinality(free)
  BY <1>1, <1>2, <1>4
<1>6. free \in SUBSET Nat /\ free \subseteq Nat \ {0}
  BY <1>3
<1>7. Ascending(free) \in [1..Cardinality(free) -> free]
  BY <1>4, <1>6, AscendingFacts DEF Lists
<1>8. Ascending(free)[n] \in Nat \ {0}
  BY <1>5, <1>6, <1>7
<1>9. QED
  BY <1>1, <1>2, <1>3, <1>8 DEF NthFree

(* The numbers a sample's WIPs have are finitely many.                     *)
LEMMA NumbersFinite ==
  ASSUME WipRowsOk, NEW s
  PROVE  IsFiniteSet(Numbers(s))
<1>1. PICK n \in Nat : wips = [i \in 1..n |-> wips[i]]
  BY DEF WipRowsOk, IsList
<1>2. IsFiniteSet(1..n)
  BY FS_Interval
<1>3. Mine(s) \in SUBSET (1..n)
  BY <1>1 DEF Mine
<1>4. PICK M : M = Mine(s) /\ IsFiniteSet(M)
  BY <1>2, <1>3, FS_Subset
<1> DEFINE f == [w \in M |-> <<wips[w].lab, wips[w].no>>]
           T == {f[w] : w \in M}
<1>5. f \in Surjection(M, T)
  <2>1. f \in [M -> T] /\ \A t \in T : \E w \in M : f[w] = t
    OBVIOUS
  <2> HIDE DEF f, T
  <2>2. QED
    BY <2>1, Fun_IsSurj
<1>6. T = Numbers(s)
  BY <1>4 DEF Numbers
<1> HIDE DEF f, T
<1>7. QED
  BY <1>4, <1>5, <1>6, FS_Surjection

(* The numbers of a generation, one after the other.                       *)
Follows(no, n, found, new, places) ==
  LET given == {<<new[m].lab, no[m]>> : m \in 1..(n - 1)}
  IN no[n] = FreeNumber(found \cup given, new[n].lab, places[n])

(* generate_missing_others finds a number for each of its rows.            *)
LEMMA GeneratedNumbersFacts ==
  ASSUME NEW N \in Nat, NEW K \in Nat, NEW found, IsFiniteSet(found), NEW new,
         DOMAIN new = 1..N, NEW places, \A n \in 1..N : places[n] \in 1..K,
         NEW most, most = K + Cardinality(found) + N
  PROVE  GeneratedNumbers(found, new, places, most) \in [1..N -> 1..most]
<1>0. ASSUME NEW n \in 1..N, NEW before \in [1..(n - 1) -> 1..most]
      PROVE  \E no \in [1..n -> 1..most] :
               Follows(no, n, found, new, places) /\ \A m \in 1..(n - 1) : no[m] = before[m]
  <2>1. PICK C \in Nat : C = Cardinality(found)
    BY FS_CardinalityType
  <2> DEFINE I == 1..(n - 1)
             f == [m \in I |-> <<new[m].lab, before[m]>>]
             given == {<<new[m].lab, before[m]>> : m \in I}
  <2>2. n - 1 \in Nat /\ IsFiniteSet(I) /\ Cardinality(I) = n - 1
    <3>1. n - 1 \in Nat /\ n - 1 \in Int /\ 1 \in Int
      OBVIOUS
    <3>2. IsFiniteSet(1..(n - 1)) /\ Cardinality(1..(n - 1)) = IF 1 > n - 1 THEN 0 ELSE (n - 1) - 1 + 1
      BY <3>1, FS_Interval
    <3>3. QED
      BY <3>1, <3>2
  <2>3. f \in Surjection(I, given)
    <3>1. f \in [I -> given] /\ \A t \in given : \E m \in I : f[m] = t
      OBVIOUS
    <3> HIDE DEF f, given, I
    <3>2. QED
      BY <3>1, Fun_IsSurj
  <2>4. PICK G : G = given
    OBVIOUS
  <2>5. IsFiniteSet(G) /\ Cardinality(G) \in Nat /\ Cardinality(G) <= n - 1
    <3> HIDE DEF f, given, I
    <3>1. QED
      BY <2>2, <2>3, <2>4, FS_Surjection, FS_CardinalityType
  <2>6. PICK taken : taken = found \cup G
    OBVIOUS
  <2>7. IsFiniteSet(taken) /\ Cardinality(taken) \in Nat /\ Cardinality(taken) <= C + (n - 1)
    <3> HIDE DEF f, given, I
    <3>1. /\ IsFiniteSet(taken)
          /\ Cardinality(taken) = Cardinality(found) + Cardinality(G) - Cardinality(found \cap G)
      BY <2>5, <2>6, FS_Union
    <3>2. IsFiniteSet(found \cap G)
      BY FS_Intersection
    <3>3. Cardinality(found \cap G) \in Nat
      BY <3>2, FS_CardinalityType
    <3>4. Cardinality(taken) \in Nat
      BY <3>1, FS_CardinalityType
    <3>5. PICK a, b, c : a = Cardinality(taken) /\ b = Cardinality(G) /\ c = Cardinality(found \cap G)
      OBVIOUS
    <3>6. a \in Nat /\ b \in Nat /\ c \in Nat /\ a = C + b - c /\ b <= n - 1
      BY <2>1, <2>5, <3>1, <3>3, <3>4, <3>5
    <3>7. a <= C + (n - 1)
      BY <3>6
    <3>8. QED
      BY <3>1, <3>4, <3>5, <3>7
  <2>8. PICK x : x = FreeNumber(taken, new[n].lab, places[n])
    OBVIOUS
  <2>9. x \in 1..most
    <3>1. PICK k \in 1..K : k = places[n]
      OBVIOUS
    <3>2. k \in Nat /\ x \in k..(k + Cardinality(taken))
      BY <2>7, <2>8, <3>1, FreeNumberFacts
    <3>3. PICK a \in Nat : a = Cardinality(taken) /\ a <= C + (n - 1)
      BY <2>7
    <3>4. x \in k..(k + a) /\ most = K + C + N
      BY <2>1, <3>2, <3>3
    <3> HIDE DEF f, given, I
    <3>5. QED
      BY <3>1, <3>2, <3>3, <3>4
  <2>10. PICK no : no = [m \in 1..n |-> IF m = n THEN x ELSE before[m]]
    OBVIOUS
  <2>11. no \in [1..n -> 1..most] /\ no[n] = x /\ \A m \in I : no[m] = before[m]
    <3>1. \A m \in 1..n : m = n \/ m \in I
      OBVIOUS
    <3>2. n \in 1..n /\ \A m \in I : m # n /\ m \in 1..n
      OBVIOUS
    <3>3. \A m \in I : before[m] \in 1..most
      OBVIOUS
    <3> HIDE DEF I, f, given
    <3>4. QED
      BY <2>9, <2>10, <3>1, <3>2, <3>3
  <2>12. {<<new[m].lab, no[m]>> : m \in 1..(n - 1)} = G
    BY <2>4, <2>11
  <2>13. Follows(no, n, found, new, places)
    BY <2>6, <2>8, <2>11, <2>12 DEF Follows
  <2>14. QED
    BY <2>11, <2>13
<1> DEFINE Numbered(no, L) == \A n \in 1..L : Follows(no, n, found, new, places)
           Stuck == {L \in 0..N : ~\E no \in [1..L -> 1..most] : Numbered(no, L)}
<1>1. ASSUME Stuck # {}
      PROVE  FALSE
  <2>1. Stuck \in SUBSET Nat
    OBVIOUS
  <2>2. PICK L \in Stuck : \A M \in Stuck : L <= M
    <3> HIDE DEF Stuck
    <3>1. QED
      BY <1>1, <2>1, FirstFacts
  <2>3. L # 0
    <3>1. [m \in 1..0 |-> 1] \in [1..0 -> 1..most] /\ 1..0 = {}
      OBVIOUS
    <3>2. Numbered([m \in 1..0 |-> 1], 0)
      BY <3>1
    <3> HIDE DEF Numbered
    <3>3. QED
      BY <3>1, <3>2
  <2>4. L \in 1..N /\ L - 1 \in 0..N /\ ~(L <= L - 1)
    BY <2>3
  <2>5. PICK before \in [1..(L - 1) -> 1..most] : Numbered(before, L - 1)
    <3> HIDE DEF Numbered
    <3>1. QED
      BY <2>2, <2>4
  <2>6. PICK no \in [1..L -> 1..most] :
          Follows(no, L, found, new, places) /\ \A m \in 1..(L - 1) : no[m] = before[m]
    <3> HIDE DEF Stuck, Numbered
    <3>1. QED
      BY <1>0, <2>4, <2>5
  <2>7. ASSUME NEW n \in 1..L
        PROVE  Follows(no, n, found, new, places)
    <3>1. CASE n = L
      BY <2>6, <3>1
    <3>2. CASE n # L
      <4>1. n \in 1..(L - 1) /\ \A m \in 1..(n - 1) : m \in 1..(L - 1)
        BY <2>4, <3>2
      <4>2. no[n] = before[n] /\ \A m \in 1..(n - 1) : no[m] = before[m]
        BY <2>6, <4>1
      <4>3. {<<new[m].lab, no[m]>> : m \in 1..(n - 1)} = {<<new[m].lab, before[m]>> : m \in 1..(n - 1)}
        BY <4>2
      <4>4. QED
        BY <2>5, <4>1, <4>2, <4>3 DEF Follows
    <3>3. QED
      BY <3>1, <3>2
  <2>8. QED
    BY <2>6, <2>7
<1>2. \E no \in [1..N -> 1..most] : Numbered(no, N)
  BY <1>1
<1>3. \E no \in [DOMAIN new -> 1..most] :
        \A n \in DOMAIN new :
          LET given == {<<new[m].lab, no[m]>> : m \in 1..(n - 1)}
          IN no[n] = FreeNumber(found \cup given, new[n].lab, places[n])
  BY <1>2 DEF Follows
<1>4. QED
  BY <1>3 DEF GeneratedNumbers

-----------------------------------------------------------------------------
(* What a step does to the WIPs.                                           *)

(* Some action of handle_wip_action takes WIP w out of its status.         *)
Reset(w) ==
  \E p \in Sessions : sess[p].op \in {"send_to_schedule", "terminate", "start"} /\ sess[p].w = w

KeptRow(w, row) ==
  \E st \in WipStatuses, place \in Places :
    /\ row = WipRow(wips[w], st, place)
    /\ wips[w].status = "completed" => st = "completed" \/ Reset(w)
    /\ st = "terminated" => wips[w].status = "terminated" \/ Reset(w) \/ "terminated" \in Operations

Kept(table) ==
  table = [w \in DOMAIN wips |-> table[w]] /\ \A w \in DOMAIN wips : KeptRow(w, table[w])

(* A new row: open, and of an experiment that had none, or of a step that  *)
(* was found creatable.                                                    *)
NewRow(row) ==
  /\ IsWip(row) /\ row.status \in {"created", "waiting_schedule"}
  /\ \E p \in Sessions :
       /\ row.sample = sess[p].s
       /\ \/ /\ sess[p].op = "split"
             /\ [lab |-> row.lab, exp |-> row.exp] \in ToCreate(sess[p].s, sess[p].wanted)
          \/ /\ sess[p].op = "generate"
             /\ \E k \in sess[p].items :
                  LET step == GroupedRoute(samples[sess[p].s].route)[k]
                  IN row.lab = step.lab /\ row.exp = step.exp

WipsChanged ==
  /\ IsList(wips')
  /\ \A w \in DOMAIN wips : w \in DOMAIN wips' /\ KeptRow(w, wips'[w])
  /\ \A w \in DOMAIN wips' \ DOMAIN wips : NewRow(wips'[w])

(* The table as it is.                                                     *)
LEMMA KeptAsTheyAre ==
  ASSUME WipRowsOk
  PROVE  Kept(wips) /\ \A w \in DOMAIN wips : KeptRow(w, wips[w])
<1>1. wips = [w \in DOMAIN wips |-> wips[w]]
  BY DEF WipRowsOk, IsList
<1>2. ASSUME NEW w \in DOMAIN wips
      PROVE  KeptRow(w, wips[w])
  <2>1. IsWip(wips[w]) /\ wips[w].status \in WipStatuses /\ wips[w].at \in Places
    BY DEF WipRowsOk, IsWip
  <2>2. wips[w] = WipRow(wips[w], wips[w].status, wips[w].at)
    BY <2>1, WipForms
  <2>3. QED
    BY <2>1, <2>2 DEF KeptRow
<1>3. QED
  BY <1>1, <1>2 DEF Kept

(* A row that is moved.                                                    *)
LEMMA KeptRowMoved ==
  ASSUME WipRowsOk, NEW w \in DOMAIN wips, NEW row, KeptRow(w, row), NEW place \in Places
  PROVE  KeptRow(w, Moved(row, place))
<1>1. PICK st \in WipStatuses, old \in Places :
        /\ row = WipRow(wips[w], st, old)
        /\ wips[w].status = "completed" => st = "completed" \/ Reset(w)
        /\ st = "terminated" => wips[w].status = "terminated" \/ Reset(w) \/ "terminated" \in Operations
  BY DEF KeptRow
<1>2. IsWip(wips[w])
  BY DEF WipRowsOk
<1>3. IsWip(row)
  BY <1>1, <1>2, WipForms
<1>4. Moved(row, place) = WipRow(row, row.status, place)
  BY <1>1, <1>3, WipForms
<1>5. WipRow(row, row.status, place) = WipRow(wips[w], st, place)
  BY <1>1 DEF WipRow
<1>6. QED
  BY <1>1, <1>4, <1>5 DEF KeptRow

(* Some of the rows are moved.                                             *)
LEMMA KeptMoved ==
  ASSUME WipRowsOk, NEW table, Kept(table), NEW s, NEW lab, NEW place \in Places
  PROVE  Kept(LabWipsMoved(table, s, lab, place)) /\ Kept(AllWipsMoved(table, s, place))
<1>1. /\ DOMAIN table = DOMAIN wips
      /\ \A w \in DOMAIN wips : KeptRow(w, table[w]) /\ KeptRow(w, Moved(table[w], place))
  BY KeptRowMoved DEF Kept
<1>2. Kept(LabWipsMoved(table, s, lab, place))
  <2>1. PICK new : new = LabWipsMoved(table, s, lab, place)
    OBVIOUS
  <2>2. new = [w \in DOMAIN wips |-> new[w]]
    BY <1>1, <2>1 DEF LabWipsMoved
  <2>3. \A w \in DOMAIN wips : new[w] = Moved(table[w], place) \/ new[w] = table[w]
    BY <1>1, <2>1 DEF LabWipsMoved
  <2>4. QED
    BY <1>1, <2>1, <2>2, <2>3 DEF Kept
<1>3. Kept(AllWipsMoved(table, s, place))
  <2>1. PICK new : new = AllWipsMoved(table, s, place)
    OBVIOUS
  <2>2. new = [w \in DOMAIN wips |-> new[w]]
    BY <1>1, <2>1 DEF AllWipsMoved
  <2>3. \A w \in DOMAIN wips : new[w] = Moved(table[w], place) \/ new[w] = table[w]
    BY <1>1, <2>1 DEF AllWipsMoved
  <2>4. QED
    BY <1>1, <2>1, <2>2, <2>3 DEF Kept
<1>4. QED
  BY <1>2, <1>3

(* One row gets a status and a place.                                      *)
LEMMA KeptWith ==
  ASSUME WipRowsOk, NEW w \in DOMAIN wips, NEW st \in WipStatuses, NEW place \in Places,
         wips[w].status = "completed" => st = "completed" \/ Reset(w),
         st = "terminated" => wips[w].status = "terminated" \/ Reset(w) \/ "terminated" \in Operations
  PROVE  /\ Kept([wips EXCEPT ![w] = WipRow(wips[w], st, place)])
         /\ Kept([wips EXCEPT ![w] = WipWith(wips[w], st, place)])
<1>1. PICK new : new = [wips EXCEPT ![w] = WipRow(wips[w], st, place)]
  OBVIOUS
<1>2. wips = [v \in DOMAIN wips |-> wips[v]]
  BY KeptAsTheyAre DEF Kept
<1>3. /\ new = [v \in DOMAIN wips |-> new[v]]
      /\ new[w] = WipRow(wips[w], st, place)
      /\ \A v \in DOMAIN wips : v # w => new[v] = wips[v]
  BY <1>1, <1>2
<1>4. KeptRow(w, new[w])
  BY <1>3 DEF KeptRow
<1>5. \A v \in DOMAIN wips : KeptRow(v, new[v])
  BY <1>3, <1>4, KeptAsTheyAre
<1>6. Kept(new)
  BY <1>3, <1>5 DEF Kept
<1>7. WipWith(wips[w], st, place) = WipRow(wips[w], st, place)
  BY WipForms DEF WipRowsOk
<1>8. QED
  BY <1>1, <1>6, <1>7

(* No row is new.                                                          *)
LEMMA KeptChanged ==
  ASSUME WipRowsOk, Kept(wips')
  PROVE  WipsChanged
<1>1. PICK n \in Nat : DOMAIN wips = 1..n
  BY DEF WipRowsOk, IsList
<1>2. wips' = [i \in 1..n |-> wips'[i]]
  BY <1>1 DEF Kept
<1>3. IsList(wips')
  BY <1>2 DEF IsList
<1>4. QED
  BY <1>1, <1>2, <1>3 DEF Kept, WipsChanged

(* The rows there were stay, the others are the new ones, one each.        *)
Added(new, n) ==
  /\ \A w \in DOMAIN wips : w \in DOMAIN wips' /\ wips'[w] = wips[w]
  /\ \A w \in DOMAIN wips' \ DOMAIN wips : \E i \in 1..n : wips'[w] = new[i]
  /\ \A i \in 1..n : \E w \in DOMAIN wips' : wips'[w] = new[i]
  /\ \A v, w \in DOMAIN wips' \ DOMAIN wips :
       v # w => \E i, j \in 1..n : i # j /\ wips'[v] = new[i] /\ wips'[w] = new[j]

(* New rows follow.                                                        *)
LEMMA RowsAdded ==
  ASSUME WipRowsOk, NEW new, NEW n \in Nat, new = [i \in 1..n |-> new[i]],
         \A i \in 1..n : NewRow(new[i]),
         wips' = wips \o new
  PROVE  WipsChanged /\ Added(new, n)
<1>1. PICK m \in Nat : wips = [i \in 1..m |-> wips[i]]
  BY DEF WipRowsOk, IsList
<1>2. PICK old, all : old = wips /\ all = wips'
  OBVIOUS
<1>3. /\ all = [i \in 1..(m + n) |-> all[i]]
      /\ \A i \in 1..m : all[i] = old[i]
      /\ \A i \in 1..n : all[m + i] = new[i] /\ m + i \in 1..(m + n)
      /\ \A i \in (m + 1)..(m + n) : all[i] = new[i - m] /\ i - m \in 1..n
  <2>1. old = [i \in 1..m |-> old[i]] /\ all = old \o new
    BY <1>1, <1>2
  <2>2. /\ old \o new = [i \in 1..(m + n) |-> (old \o new)[i]]
        /\ \A i \in 1..m : (old \o new)[i] = old[i]
        /\ \A i \in 1..n : (old \o new)[m + i] = new[i]
        /\ \A i \in (m + 1)..(m + n) : (old \o new)[i] = new[i - m] /\ i - m \in 1..n
    BY <2>1, Concatenated, SMTT(60)
  <2>3. \A i \in 1..n : m + i \in 1..(m + n)
    OBVIOUS
  <2>4. QED
    BY <2>1, <2>2, <2>3
<1>4. m + n \in Nat /\ 1..m \subseteq 1..(m + n)
      /\ \A i \in 1..(m + n) \ 1..m : i \in (m + 1)..(m + n)
  OBVIOUS
<1>5. IsList(all) /\ DOMAIN all = 1..(m + n) /\ DOMAIN old = 1..m
  BY <1>1, <1>2, <1>3, <1>4 DEF IsList
<1>6. \A w \in DOMAIN wips : w \in DOMAIN wips' /\ wips'[w] = wips[w]
  BY <1>2, <1>3, <1>4, <1>5
<1>7. \A w \in DOMAIN wips' \ DOMAIN wips :
        w \in (m + 1)..(m + n) /\ wips'[w] = new[w - m] /\ w - m \in 1..n
  BY <1>2, <1>3, <1>4, <1>5
<1>8. \A w \in DOMAIN wips : KeptRow(w, wips'[w])
  BY <1>6, KeptAsTheyAre
<1>9. WipsChanged
  BY <1>2, <1>5, <1>6, <1>7, <1>8 DEF WipsChanged
<1>10. ASSUME NEW v \in DOMAIN wips' \ DOMAIN wips, NEW w \in DOMAIN wips' \ DOMAIN wips, v # w
       PROVE  \E i, j \in 1..n : i # j /\ wips'[v] = new[i] /\ wips'[w] = new[j]
  <2>1. v - m # w - m
    BY <1>7, <1>10
  <2>2. QED
    BY <1>7, <2>1
<1>11. \A i \in 1..n : \E w \in DOMAIN wips' : wips'[w] = new[i]
  BY <1>2, <1>3, <1>5
<1>12. QED
  BY <1>6, <1>7, <1>9, <1>10, <1>11 DEF Added

(* A list of WIPs for experiments that are missing, one for each.          *)
RowsOfSplit(new, s, missing, place) ==
  \E N \in Nat :
    /\ new = [n \in 1..N |-> new[n]]
    /\ \A n \in 1..N : /\ IsWip(new[n]) /\ new[n].sample = s
                        /\ new[n].status = "waiting_schedule" /\ new[n].at = place
                        /\ [lab |-> new[n].lab, exp |-> new[n].exp] \in missing
    /\ \A m, n \in 1..N : new[m].lab = new[n].lab /\ new[m].exp = new[n].exp => m = n
    /\ \A x \in missing : \E n \in 1..N : new[n].lab = x.lab /\ new[n].exp = x.exp

(* The new rows of a split: one for each experiment.                       *)
LEMMA SplitRowsFacts ==
  ASSUME WipRowsOk, NEW s \in Samples, NEW missing \in SUBSET Experiments, NEW place \in Places
  PROVE  RowsOfSplit(SplitRows(s, missing, place), s, missing, place)
<1> DEFINE xs == ByName(missing)
           N == Cardinality(missing)
           Nth(n) == Cardinality({m \in 1..n : xs[m].lab = xs[n].lab})
           no(n) == NthFree(Numbers(s), xs[n].lab, Nth(n))
           new == SplitRows(s, missing, place)
<1>1. /\ N \in Nat /\ xs \in [1..N -> missing]
      /\ \A m, n \in 1..N : xs[m] = xs[n] => m = n
      /\ \A x \in missing : \E n \in 1..N : xs[n] = x
  BY ByNameFacts DEF Lists
<1>2. new = [n \in DOMAIN xs |->
               WipWith(WipFromSplit(s, xs[n], no(n), place), "waiting_schedule", place)]
  BY DEF SplitRows
<1> HIDE DEF xs, N, no, new
<1>3. ASSUME NEW n \in 1..N
      PROVE  new[n] = [sample |-> s, lab |-> xs[n].lab, exp |-> xs[n].exp, no |-> no(n),
                       status |-> "waiting_schedule", at |-> place]
  <2>1. PICK row : row = WipFromSplit(s, xs[n], no(n), place)
    OBVIOUS
  <2>2. row \in [sample : {s}, lab : {xs[n].lab}, exp : {xs[n].exp}, no : {no(n)},
                 status : {"created"}, at : {place}]
    BY <2>1 DEF WipFromSplit
  <2>3. new[n] = WipWith(row, "waiting_schedule", place)
    BY <1>1, <1>2, <2>1
  <2>4. new[n] \in [sample : {s}, lab : {xs[n].lab}, exp : {xs[n].exp}, no : {no(n)},
                    status : {"waiting_schedule"}, at : {place}]
    BY <2>2, <2>3 DEF WipWith
  <2>5. QED
    BY <2>4
<1>4. new = [n \in 1..N |-> new[n]]
  BY <1>1, <1>2
<1>5. ASSUME NEW n \in 1..N
      PROVE  /\ IsWip(new[n]) /\ new[n].sample = s
             /\ new[n].status = "waiting_schedule" /\ new[n].at = place
             /\ new[n].lab = xs[n].lab /\ new[n].exp = xs[n].exp
             /\ [lab |-> new[n].lab, exp |-> new[n].exp] \in missing
             /\ [lab |-> new[n].lab, exp |-> new[n].exp] = xs[n]
  <2>1. xs[n] \in Experiments /\ xs[n] \in missing
    BY <1>1
  <2>2. xs[n] = [lab |-> xs[n].lab, exp |-> xs[n].exp]
    BY <2>1, ExperimentFacts
  <2>3. Nth(n) \in Nat \ {0}
    <3>1. PICK x : x = xs
      OBVIOUS
    <3>2. n \in 1..n
      BY <1>1
    <3>3. PICK them : them = {m \in 1..n : x[m].lab = x[n].lab}
      OBVIOUS
    <3>4. them \subseteq 1..n /\ n \in them /\ n \in Int /\ 1 \in Int
      BY <1>1, <3>2, <3>3
    <3>5. IsFiniteSet(them)
      BY <3>4, FS_Interval, FS_Subset
    <3>6. Cardinality(them) \in Nat /\ Cardinality(them) # 0
      BY <3>4, <3>5, FS_CardinalityType, FS_EmptySet
    <3>7. QED
      BY <3>1, <3>3, <3>6
  <2>4. no(n) \in Nat \ {0}
    <3> HIDE DEF Nth
    <3>1. QED
      BY <2>3, NumbersFinite, NthFreeFacts DEF no
  <2>5. PICK row, num : row = new[n] /\ num = no(n) /\ num \in Nat \ {0}
    BY <2>4
  <2>6. row = [sample |-> s, lab |-> xs[n].lab, exp |-> xs[n].exp, no |-> num,
               status |-> "waiting_schedule", at |-> place]
    BY <1>3, <2>5
  <2>7. row.sample = s /\ row.lab = xs[n].lab /\ row.exp = xs[n].exp /\ row.no = num
        /\ row.status = "waiting_schedule" /\ row.at = place
    BY <2>6
  <2>8. IsWip(row)
    BY <2>1, <2>2, <2>5, <2>6, <2>7 DEF IsWip, WipStatuses
  <2>9. [lab |-> row.lab, exp |-> row.exp] = xs[n]
    BY <2>2, <2>7
  <2>10. QED
    BY <2>1, <2>5, <2>7, <2>8, <2>9
<1>6. ASSUME NEW m \in 1..N, NEW n \in 1..N, new[m].lab = new[n].lab, new[m].exp = new[n].exp
      PROVE  m = n
  <2>1. [lab |-> new[m].lab, exp |-> new[m].exp] = [lab |-> new[n].lab, exp |-> new[n].exp]
    BY <1>6
  <2>2. xs[m] = xs[n]
    BY <1>5, <2>1
  <2>3. QED
    BY <1>1, <2>2
<1>7. \A n \in 1..N : /\ IsWip(new[n]) /\ new[n].sample = s
                      /\ new[n].status = "waiting_schedule" /\ new[n].at = place
                      /\ [lab |-> new[n].lab, exp |-> new[n].exp] \in missing
  BY <1>5
<1>8. ASSUME NEW x \in missing
      PROVE  \E n \in 1..N : new[n].lab = x.lab /\ new[n].exp = x.exp
  <2>1. PICK n \in 1..N : xs[n] = x
    BY <1>1
  <2>2. new[n].lab = x.lab /\ new[n].exp = x.exp
    BY <1>5, <2>1
  <2>3. QED
    BY <2>2
<1>9. PICK list : list = new
  OBVIOUS
<1>10. RowsOfSplit(list, s, missing, place)
  <2>1. /\ list = [n \in 1..N |-> list[n]]
        /\ \A n \in 1..N : /\ IsWip(list[n]) /\ list[n].sample = s
                            /\ list[n].status = "waiting_schedule" /\ list[n].at = place
                            /\ [lab |-> list[n].lab, exp |-> list[n].exp] \in missing
    BY <1>4, <1>7, <1>9
  <2>2. \A m, n \in 1..N : list[m].lab = list[n].lab /\ list[m].exp = list[n].exp => m = n
    BY <1>6, <1>9
  <2>3. \A x \in missing : \E n \in 1..N : list[n].lab = x.lab /\ list[n].exp = x.exp
    BY <1>8, <1>9
  <2>4. QED
    BY <1>1, <2>1, <2>2, <2>3 DEF RowsOfSplit
<1>11. QED
  BY <1>9, <1>10 DEF new

(* The new rows of a generation: of steps that were creatable.             *)
LEMMA GeneratedRowsFacts ==
  ASSUME NEW p \in Sessions, RequestOk(sess[p]), sess[p].op = "generate"
  PROVE  \E N \in Nat :
           /\ GeneratedRows(p) = [n \in 1..N |-> GeneratedRows(p)[n]]
           /\ \A n \in 1..N :
                /\ NewRow(GeneratedRows(p)[n]) /\ GeneratedRows(p)[n].sample = sess[p].s
                /\ [lab |-> GeneratedRows(p)[n].lab, exp |-> GeneratedRows(p)[n].exp] \in sess[p].wanted
           /\ \A m, n \in 1..N :
                GeneratedRows(p)[m].lab = GeneratedRows(p)[n].lab
                  /\ GeneratedRows(p)[m].exp = GeneratedRows(p)[n].exp => m = n
<1> DEFINE s == sess[p].s
           whole == GroupedRoute(samples[s].route)
           places == Ascending(sess[p].items)
           Named(k) == [lab |-> whole[places[k]].lab, exp |-> whole[places[k]].exp]
           F == {k \in DOMAIN places : /\ Named(k) \in sess[p].wanted
                                       /\ \A j \in 1..(k - 1) : Named(j) # Named(k)}
           created == Ascending(F)
           new == [n \in DOMAIN created |-> Named(created[n])]
           most == Len(places) + Cardinality(sess[p].found) + Len(created)
           no  == GeneratedNumbers(sess[p].found, new, created, most)
           fresh == GeneratedRows(p)
<1>1. /\ sess[p].items \in SUBSET Nat /\ IsFiniteSet(sess[p].items)
      /\ sess[p].wanted \subseteq Experiments /\ s \in Samples /\ IsFiniteSet(sess[p].found)
  BY DEF RequestOk, IsRequest, OfSampleOps
<1>2. PICK K \in Nat : places \in [1..K -> sess[p].items]
  BY <1>1, AscendingFacts DEF Lists
<1>3. fresh = [n \in DOMAIN created |->
                 WipFromSplit(s, new[n], no[n], At(new[n].lab, "temp"))]
  BY DEF GeneratedRows
<1> HIDE DEF s, whole, places
<1>4. IsFiniteSet(F) /\ F \in SUBSET Nat /\ F \subseteq 1..K
  <2>1. F \in SUBSET (1..K)
    BY <1>2
  <2>2. K \in Int /\ 1 \in Int
    OBVIOUS
  <2>3. IsFiniteSet(1..K)
    BY <2>2, FS_Interval
  <2>4. IsFiniteSet(F)
    BY <2>1, <2>3, FS_Subset
  <2> HIDE DEF F
  <2>5. F \in SUBSET Nat
    BY <2>1
  <2>6. QED
    BY <2>1, <2>4, <2>5
<1> HIDE DEF F
<1>5. PICK N \in Nat :
        created \in [1..N -> F] /\ \A m, n \in 1..N : m < n <=> created[m] < created[n]
  BY <1>4, AscendingFacts DEF Lists
<1>e. no \in [1..N -> 1..most]
  <2>1. PICK found, steps, least : found = sess[p].found /\ steps = new /\ least = created
    OBVIOUS
  <2>2. DOMAIN steps = 1..N /\ DOMAIN least = 1..N /\ Len(created) = N
    BY <1>5, <2>1
  <2>3. \A n \in 1..N : least[n] \in 1..K
    BY <1>4, <1>5, <2>1
  <2>4. most = K + Cardinality(found) + N
    BY <1>2, <2>1, <2>2
  <2>5. IsFiniteSet(found)
    BY <1>1, <2>1
  <2>6. PICK bound : bound = most
    OBVIOUS
  <2> HIDE DEF created, new, most
  <2>7. bound = K + Cardinality(found) + N
    BY <2>4, <2>6
  <2>8. GeneratedNumbers(found, steps, least, bound) \in [1..N -> 1..bound]
    BY <2>2, <2>3, <2>5, <2>7, GeneratedNumbersFacts
  <2>9. QED
    BY <2>1, <2>6, <2>8 DEF no
<1> HIDE DEF created, no, fresh, most
<1>6. fresh = [n \in 1..N |-> fresh[n]]
  BY <1>3, <1>5
<1>7. ASSUME NEW n \in 1..N
      PROVE  /\ NewRow(fresh[n]) /\ fresh[n].sample = s
             /\ [lab |-> fresh[n].lab, exp |-> fresh[n].exp] = Named(created[n])
             /\ Named(created[n]) \in sess[p].wanted
  <2>1. PICK k \in F : k = created[n]
    BY <1>5
  <2>2. Named(k) \in Experiments /\ places[k] \in sess[p].items /\ new[n] = Named(k)
    BY <1>1, <1>2, <1>4, <1>5, <2>1 DEF F
  <2>3. new[n].lab = whole[places[k]].lab /\ new[n].exp = whole[places[k]].exp
    BY <2>2
  <2>4. new[n].lab \in Labs /\ [lab |-> new[n].lab, exp |-> new[n].exp] \in Experiments
    BY <2>2, ExperimentFacts
  <2> HIDE DEF new, Named
  <2>5. fresh[n] = [sample |-> s, lab |-> new[n].lab, exp |-> new[n].exp, no |-> no[n],
                    status |-> "created", at |-> At(new[n].lab, "temp")]
    BY <1>3, <1>5 DEF WipFromSplit
  <2>6. fresh[n].sample = s /\ fresh[n].lab = new[n].lab /\ fresh[n].exp = new[n].exp
        /\ fresh[n].status = "created" /\ fresh[n].at = At(new[n].lab, "temp")
        /\ fresh[n].no = no[n]
    BY <2>5
  <2>7. At(new[n].lab, "temp") \in Places
    BY <2>4, PlaceFacts DEF Areas
  <2>a. no[n] \in Nat \ {0}
    BY <1>e
  <2>8. IsWip(fresh[n])
    BY <1>1, <2>4, <2>5, <2>6, <2>7, <2>a DEF IsWip, WipStatuses
  <2>9. NewRow(fresh[n])
    BY <2>2, <2>3, <2>6, <2>8 DEF NewRow, whole, s
  <2>10. Named(k) \in sess[p].wanted
    BY DEF F
  <2>11. [lab |-> fresh[n].lab, exp |-> fresh[n].exp] = [lab |-> new[n].lab, exp |-> new[n].exp]
    BY <2>6
  <2>12. [lab |-> new[n].lab, exp |-> new[n].exp] = Named(k)
    BY <2>2, ExperimentFacts
  <2>13. QED
    BY <2>1, <2>6, <2>9, <2>10, <2>11, <2>12
<1>8. ASSUME NEW m \in 1..N, NEW n \in 1..N, m < n
      PROVE  Named(created[m]) # Named(created[n])
  <2>1. created[m] \in 1..K /\ created[n] \in F /\ created[m] < created[n]
    BY <1>4, <1>5, <1>8
  <2>2. created[m] \in 1..(created[n] - 1)
    <3>1. created[n] \in Nat
      BY <1>4, <2>1
    <3>2. QED
      BY <2>1, <3>1
  <2> HIDE DEF Named
  <2>3. QED
    BY <2>1, <2>2 DEF F
<1>9. ASSUME NEW m \in 1..N, NEW n \in 1..N, fresh[m].lab = fresh[n].lab, fresh[m].exp = fresh[n].exp
      PROVE  m = n
  <2> HIDE DEF Named
  <2>1. Named(created[m]) = Named(created[n])
    BY <1>7, <1>9
  <2>2. QED
    BY <1>8, <2>1
<1> HIDE DEF Named, new
<1>10. QED
  BY <1>6, <1>7, <1>9 DEF fresh, s

(* What every handler does to the WIPs.                                    *)
LEMMA WipsStep ==
  ASSUME RowsInv, Next
  PROVE  WipsChanged
<1>0. SampleRowsOk /\ WipRowsOk /\ TransferRowsOk /\ SessOk
  BY DEF RowsInv
<1>a. \A p \in Sessions : RequestOk(sess[p]) /\ IsRequest(sess[p]) /\ sess[p].by.lab \in Labs \cup {NoLab}
  BY <1>0 DEF SessOk, RequestOk, IsRequest, Users
<1>b. /\ Kept(wips)
      /\ \A w \in DOMAIN wips : /\ IsWip(wips[w]) /\ wips[w].at \in Places
                                /\ wips[w].status \in WipStatuses /\ wips[w].lab \in Labs
  BY <1>0, KeptAsTheyAre, ExperimentFacts DEF WipRowsOk, IsWip
<1>c. ASSUME NEW table, Kept(table), wips' = table
      PROVE  WipsChanged
  BY <1>0, <1>c, KeptChanged
<1>1. CASE UNCHANGED wips
  BY <1>b, <1>c, <1>1
<1>2. ASSUME NEW p \in Sessions, Receive(p)
      PROVE  WipsChanged
  <2>1. PICK place \in Places : place = At(sess[p].by.lab, "temp")
    BY <1>a, PlaceFacts DEF Areas
  <2>2. wips' = LabWipsMoved(wips, sess[p].s, sess[p].by.lab, place)
    BY <1>2, <2>1 DEF Receive
  <2>3. Kept(LabWipsMoved(wips, sess[p].s, sess[p].by.lab, place))
    BY <1>0, <1>b, KeptMoved
  <2>4. QED
    BY <1>c, <2>2, <2>3
<1>3. ASSUME NEW p \in Sessions, Outbound(p) \/ ConfirmPickup(p)
      PROVE  WipsChanged
  <2>1. PICK place \in Places : wips' = AllWipsMoved(wips, sess[p].s, place)
    BY <1>3, <1>a, PlaceFacts DEF Outbound, ConfirmPickup, Areas
  <2>2. Kept(AllWipsMoved(wips, sess[p].s, place))
    BY <1>0, <1>b, KeptMoved
  <2>3. QED
    BY <1>c, <2>1, <2>2
<1>4. ASSUME NEW p \in Sessions, Split(p)
      PROVE  WipsChanged
  <2>1. PICK s \in Samples, missing \in SUBSET Experiments, place \in Places :
          /\ s = sess[p].s /\ missing = ToCreate(s, sess[p].wanted)
          /\ place = At(sess[p].by.lab, "temp")
    BY <1>4, <1>a, PlaceFacts DEF Split, RequestOk, IsRequest, OfSampleOps, ToCreate, Areas
  <2>2. RowsOfSplit(SplitRows(s, missing, place), s, missing, place)
    BY <1>0, SplitRowsFacts
  <2>3. PICK new : new = SplitRows(s, missing, place)
    OBVIOUS
  <2>4. wips' = wips \o new
    BY <1>4, <2>1, <2>3 DEF Split
  <2>5. PICK N \in Nat :
          /\ new = [n \in 1..N |-> new[n]]
          /\ \A n \in 1..N : IsWip(new[n]) /\ new[n].sample = s
                             /\ new[n].status = "waiting_schedule"
                             /\ [lab |-> new[n].lab, exp |-> new[n].exp] \in missing
    BY <2>2, <2>3 DEF RowsOfSplit
  <2>6. \A n \in 1..N : NewRow(new[n])
    BY <1>4, <2>1, <2>5 DEF NewRow, Split
  <2>7. QED
    BY <1>0, <2>4, <2>5, <2>6, RowsAdded
<1>5. ASSUME NEW p \in Sessions, GenerateMissing(p)
      PROVE  WipsChanged
  <2>1. wips' = wips \/ wips' = wips \o GeneratedRows(p)
    BY <1>5 DEF GenerateMissing
  <2>2. PICK N \in Nat :
           /\ GeneratedRows(p) = [n \in 1..N |-> GeneratedRows(p)[n]]
           /\ \A n \in 1..N : NewRow(GeneratedRows(p)[n])
    BY <1>5, <1>a, GeneratedRowsFacts DEF GenerateMissing
  <2>3. PICK new : new = GeneratedRows(p)
    OBVIOUS
  <2>4. new = [n \in 1..N |-> new[n]] /\ \A n \in 1..N : NewRow(new[n])
    BY <2>2, <2>3
  <2>5. wips' = wips \o new => WipsChanged
    BY <1>0, <2>4, RowsAdded
  <2>6. QED
    BY <1>1, <2>1, <2>3, <2>5
<1>6. ASSUME NEW p \in Sessions, SetWip(p)
      PROVE  WipsChanged
  <2>a. NewStatus[sess[p].op] \in WipStatuses
    BY <1>6 DEF SetWip, NewStatus, WipStatuses
  <2>b. sess[p].w \in DOMAIN wips
    BY <1>6, <1>a DEF SetWip, RequestOk, OfWipOps
  <2>1. PICK w \in DOMAIN wips, st \in WipStatuses, place \in Places :
          /\ w = sess[p].w /\ st = NewStatus[sess[p].op] /\ place = wips[w].at
    BY <1>b, <2>a, <2>b
  <2>2. wips' = [wips EXCEPT ![w] = WipWith(wips[w], st, place)]
    BY <1>6, <2>1 DEF SetWip, ActionPlace
  <2>3. Reset(w)
    BY <1>6, <2>1 DEF SetWip, Reset
  <2>4. Kept([wips EXCEPT ![w] = WipWith(wips[w], st, place)])
    BY <1>0, <2>3, KeptWith
  <2>5. QED
    BY <1>c, <2>2, <2>4
<1>7. ASSUME NEW p \in Sessions, StartWip(p)
      PROVE  WipsChanged
  <2>1. PICK w \in DOMAIN wips, place \in Places :
          w = sess[p].w /\ place = At(sess[p].by.lab, "machine")
    BY <1>7, <1>a, PlaceFacts DEF StartWip, RequestOk, OfWipOps, Areas
  <2>2. PICK table : table = [wips EXCEPT ![w] = WipWith(wips[w], "running", place)]
    OBVIOUS
  <2>3. wips' = LabWipsMoved(table, sess[p].s, sess[p].by.lab, place)
    BY <1>7, <2>1, <2>2 DEF StartWip, ActionPlace
  <2>4. Reset(w) /\ "running" \in WipStatuses
    BY <1>7, <2>1 DEF StartWip, Reset, WipStatuses
  <2>5. Kept(table)
    BY <1>0, <2>2, <2>4, KeptWith
  <2>6. Kept(LabWipsMoved(table, sess[p].s, sess[p].by.lab, place))
    BY <1>0, <2>5, KeptMoved
  <2>7. QED
    BY <1>c, <2>3, <2>6
<1>8. ASSUME NEW p \in Sessions, CompleteWip(p)
      PROVE  WipsChanged
  <2>1. PICK w \in DOMAIN wips, place \in Places :
          w = sess[p].w /\ place = At(sess[p].by.lab, "temp")
    BY <1>8, <1>a, PlaceFacts DEF CompleteWip, RequestOk, OfWipOps, Areas
  <2>2. PICK table : table = [wips EXCEPT ![w] = WipWith(wips[w], "completed", place)]
    OBVIOUS
  <2>3. wips' = LabWipsMoved(table, sess[p].s, sess[p].by.lab, place)
    BY <1>8, <2>1, <2>2 DEF CompleteWip, ActionPlace
  <2>4. Kept(table)
    BY <1>0, <2>2, KeptWith DEF WipStatuses
  <2>5. Kept(LabWipsMoved(table, sess[p].s, sess[p].by.lab, place))
    BY <1>0, <2>4, KeptMoved
  <2>6. QED
    BY <1>c, <2>3, <2>5
<1>9. ASSUME NEW p \in Sessions, OthersComplete(p)
      PROVE  WipsChanged
  <2>1. sess[p].w \in DOMAIN wips
    BY <1>9, <1>a DEF OthersComplete, RequestOk, OfWipOps
  <2>2. PICK w \in DOMAIN wips, place \in Places :
          w = sess[p].w /\ place = At(wips[sess[p].w].lab, "temp")
    BY <1>b, <2>1, PlaceFacts DEF Areas
  <2>3. wips' = [wips EXCEPT ![w] = WipWith(wips[w], "completed", place)]
    BY <1>9, <2>2 DEF OthersComplete
  <2>4. Kept([wips EXCEPT ![w] = WipWith(wips[w], "completed", place)])
    BY <1>0, KeptWith DEF WipStatuses
  <2>5. QED
    BY <1>c, <2>3, <2>4
<1>10. ASSUME NEW p \in Sessions, ConfirmResult(p) \/ TerminateRun(p)
       PROVE  WipsChanged
  <2>1. PICK w \in DOMAIN wips, st \in WipStatuses, place \in Places :
          /\ wips[w].status # "completed" /\ place = wips[w].at
          /\ wips' = [wips EXCEPT ![w].status = st]
          /\ st = "terminated" => "terminated" \in Operations
    BY <1>10, <1>b DEF ConfirmResult, TerminateRun, RunEnds, WipStatuses
  <2>2. [wips[w] EXCEPT !.status = st] = WipRow(wips[w], st, place)
    BY <1>b, <2>1, WipForms
  <2>3. wips' = [wips EXCEPT ![w] = WipRow(wips[w], st, place)]
    BY <2>1, <2>2
  <2>4. Kept([wips EXCEPT ![w] = WipRow(wips[w], st, place)])
    BY <1>0, <2>1, KeptWith
  <2>5. QED
    BY <1>c, <2>3, <2>4
<1>11. ASSUME NEW p \in Sessions, CreateTransfer(p)
       PROVE  WipsChanged
  <2>1. PICK place \in Places : place = WaitingArea(sess[p].by.lab)
    BY <1>a, PlaceFacts
  <2>2. wips' = LabWipsMoved(wips, sess[p].s, sess[p].to, place)
    BY <1>11, <2>1 DEF CreateTransfer, NextLabWipsMoved
  <2>3. Kept(LabWipsMoved(wips, sess[p].s, sess[p].to, place))
    BY <1>0, <1>b, KeptMoved
  <2>4. QED
    BY <1>c, <2>2, <2>3
<1>d. ASSUME NEW w \in DOMAIN wips, NEW place \in Places, wips' = [wips EXCEPT ![w] = Moved(wips[w], place)]
      PROVE  WipsChanged
  <2>1. PICK st \in WipStatuses : st = wips[w].status
    BY <1>b
  <2>2. Moved(wips[w], place) = WipRow(wips[w], st, place)
    BY <1>b, <2>1, WipForms
  <2>3. wips' = [wips EXCEPT ![w] = WipRow(wips[w], st, place)]
    BY <1>d, <2>2
  <2>4. Kept([wips EXCEPT ![w] = WipRow(wips[w], st, place)])
    BY <1>0, <2>1, KeptWith
  <2>5. QED
    BY <1>c, <2>3, <2>4
<1>12. ASSUME NEW p \in Sessions, CreateWipTransfer(p)
       PROVE  WipsChanged
  <2>1. PICK w \in DOMAIN wips, place \in Places :
          w = sess[p].w /\ place = WaitingArea(sess[p].by.lab)
    BY <1>12, <1>a, PlaceFacts DEF CreateWipTransfer, RequestOk
  <2>2. wips' = [wips EXCEPT ![w] = Moved(wips[w], place)]
    BY <1>12, <2>1 DEF CreateWipTransfer
  <2>3. QED
    BY <1>d, <2>2
<1>13. ASSUME NEW p \in Sessions, SendTransfer(p)
       PROVE  WipsChanged
  <2>1. PICK t \in DOMAIN transfers : t = sess[p].t
    BY <1>13, <1>a DEF SendTransfer, RequestOk
  <2>2. PICK place \in Places : place = ReceiveArea(transfers[t].to)
    BY <1>0, PlaceFacts DEF TransferRowsOk, TransferRows
  <2>3. CASE transfers[t].kind = "sample"
    <3>1. wips' = LabWipsMoved(wips, transfers[t].of, transfers[t].to, place)
      BY <1>13, <2>1, <2>2, <2>3 DEF SendTransfer, NextLabWipsMoved
    <3>2. Kept(LabWipsMoved(wips, transfers[t].of, transfers[t].to, place))
      BY <1>0, <1>b, KeptMoved
    <3>3. QED
      BY <1>c, <3>1, <3>2
  <2>4. CASE transfers[t].kind # "sample"
    <3>1. PICK w \in DOMAIN wips : w = transfers[t].of
      BY <1>0, <2>4 DEF TransferRowsOk, TransferRows
    <3>2. wips' = [wips EXCEPT ![w] = Moved(wips[w], place)]
      BY <1>13, <2>1, <2>2, <2>4, <3>1 DEF SendTransfer
    <3>3. QED
      BY <1>d, <3>2
  <2>5. QED
    BY <2>3, <2>4
<1>14. ASSUME NEW p \in Sessions, SampleRequest(p) \/ WorkRequest(p)
       PROVE  WipsChanged
  BY <1>1, <1>14, RequestsChangeNothing
<1>15. ASSUME NEW p \in Sessions,
              \/ Deliver(p) \/ NextItem(p) \/ Inbound(p) \/ AdvanceSample(p) \/ WithdrawSample(p)
              \/ LoseFollowUp(p) \/ CancelTransfer(p) \/ TransferNoTaken(p)
       PROVE  WipsChanged
  BY <1>1, <1>15 DEF Deliver, NextItem, Inbound, AdvanceSample, WithdrawSample, LoseFollowUp,
                     CancelTransfer, TransferNoTaken, rows
<1>16. QED
  BY <1>1, <1>2, <1>3, <1>4, <1>5, <1>6, <1>7, <1>8, <1>9, <1>10, <1>11, <1>12, <1>13,
     <1>14, <1>15
     DEF Next, SampleHandler, WorkHandler, AllPickedUp, vars

-----------------------------------------------------------------------------
(* What a step does to the transfers.                                      *)

TransferKept(t) ==
  \/ transfers'[t] = transfers[t]
  \/ /\ transfers[t].status = "transferring"
     /\ transfers'[t] = TransferWith(transfers[t], "received")
  \/ \E p \in Sessions :
       /\ sess[p].t = t
       /\ \/ sess[p].op = "send" /\ transfers'[t] = TransferWith(transfers[t], "transferring")
          \/ sess[p].op = "cancel" /\ transfers'[t] = TransferWith(transfers[t], "cancelled")

NewTransferRow(row) ==
  /\ row \in TransferRows
  /\ \E p \in Sessions :
       \/ /\ sess[p].op = "transfer" /\ row.kind = "sample"
          /\ row.of = sess[p].s /\ row.to = sess[p].to
       \/ sess[p].op = "transfer_wip" /\ row.kind = "wip" /\ row.of = sess[p].w

TransfersChanged ==
  /\ IsList(transfers')
  /\ \A t \in DOMAIN transfers : t \in DOMAIN transfers' /\ TransferKept(t)
  /\ \A t \in DOMAIN transfers' \ DOMAIN transfers : NewTransferRow(transfers'[t])

(* No row is new.                                                          *)
LEMMA TransfersKept ==
  ASSUME TransferRowsOk, transfers' = [t \in DOMAIN transfers |-> transfers'[t]],
         \A t \in DOMAIN transfers : TransferKept(t)
  PROVE  TransfersChanged
<1>1. PICK n \in Nat : DOMAIN transfers = 1..n
  BY DEF TransferRowsOk, IsList
<1>2. transfers' = [i \in 1..n |-> transfers'[i]]
  BY <1>1
<1>3. IsList(transfers')
  BY <1>2 DEF IsList
<1>4. QED
  BY <1>1, <1>2, <1>3 DEF TransfersChanged

(* One row is new.                                                         *)
LEMMA TransferAdded ==
  ASSUME TransferRowsOk, NEW row, NewTransferRow(row), transfers' = Append(transfers, row)
  PROVE  TransfersChanged
<1>1. PICK n \in Nat : transfers = [i \in 1..n |-> transfers[i]]
  BY DEF TransferRowsOk, IsList
<1>2. PICK old, all : old = transfers /\ all = transfers'
  OBVIOUS
<1>3. /\ all = [i \in 1..(n + 1) |-> all[i]]
      /\ \A i \in 1..n : all[i] = old[i]
      /\ all[n + 1] = row
  <2>1. old = [i \in 1..n |-> old[i]] /\ all = Append(old, row)
    BY <1>1, <1>2
  <2>2. QED
    BY <2>1, Appended
<1>4. n + 1 \in Nat /\ 1..n \subseteq 1..(n + 1) /\ 1..(n + 1) \ 1..n \subseteq {n + 1}
  OBVIOUS
<1>5. IsList(all) /\ DOMAIN all = 1..(n + 1) /\ DOMAIN old = 1..n
  BY <1>1, <1>2, <1>3, <1>4 DEF IsList
<1>6. \A t \in DOMAIN transfers : t \in DOMAIN transfers' /\ TransferKept(t)
  BY <1>2, <1>3, <1>4, <1>5 DEF TransferKept
<1>7. \A t \in DOMAIN transfers' \ DOMAIN transfers : transfers'[t] = row
  BY <1>2, <1>3, <1>4, <1>5
<1>8. QED
  BY <1>2, <1>5, <1>6, <1>7 DEF TransfersChanged

(* What every handler does to the transfers.                               *)
LEMMA TransfersStep ==
  ASSUME RowsInv, Next
  PROVE  TransfersChanged
<1>0. SampleRowsOk /\ WipRowsOk /\ TransferRowsOk /\ SessOk
  BY DEF RowsInv
<1>a. \A p \in Sessions : RequestOk(sess[p]) /\ IsRequest(sess[p])
  BY <1>0 DEF SessOk, RequestOk
<1>b. /\ transfers = [t \in DOMAIN transfers |-> transfers[t]]
      /\ \A t \in DOMAIN transfers : transfers[t] \in TransferRows
  BY <1>0 DEF TransferRowsOk, IsList
<1>1. CASE UNCHANGED transfers
  <2>1. transfers' = [t \in DOMAIN transfers |-> transfers'[t]]
    BY <1>b, <1>1
  <2>2. \A t \in DOMAIN transfers : TransferKept(t)
    BY <1>1 DEF TransferKept
  <2>3. QED
    BY <1>0, <2>1, <2>2, TransfersKept
<1>2. ASSUME NEW p \in Sessions, Receive(p)
      PROVE  TransfersChanged
  <2>1. transfers' = TransfersReceived(sess[p].s, sess[p].by.lab)
    BY <1>2 DEF Receive
  <2>2. transfers' = [t \in DOMAIN transfers |-> transfers'[t]]
    BY <2>1 DEF TransfersReceived
  <2>3. ASSUME NEW t \in DOMAIN transfers
        PROVE  TransferKept(t)
    <3>1. \/ transfers'[t] = transfers[t]
          \/ /\ transfers[t].status = "transferring"
             /\ transfers'[t] = [transfers[t] EXCEPT !.status = "received"]
      BY <2>1 DEF TransfersReceived
    <3>2. [transfers[t] EXCEPT !.status = "received"] = TransferWith(transfers[t], "received")
      BY <1>b, TransferForms
    <3>3. QED
      BY <3>1, <3>2 DEF TransferKept
  <2>4. QED
    BY <1>0, <2>2, <2>3, TransfersKept
<1>3. ASSUME NEW p \in Sessions, CreateTransfer(p)
      PROVE  TransfersChanged
  <2>1. PICK row : row = NewTransfer("sample", sess[p].s, sess[p].by.lab, sess[p].to)
    OBVIOUS
  <2>2. transfers' = Append(transfers, row)
    BY <1>3, <2>1 DEF CreateTransfer
  <2>3. sess[p].s \in Nat \ {0} /\ sess[p].by.lab \in Labs /\ sess[p].to \in Labs
    BY <1>3, <1>a, SamplesAssumption DEF CreateTransfer, RequestOk, IsRequest, OfSampleOps
  <2>4. row \in TransferRows /\ row.kind = "sample" /\ row.of = sess[p].s /\ row.to = sess[p].to
    BY <2>1, <2>3 DEF NewTransfer, TransferRows, TransferStatuses
  <2>5. NewTransferRow(row)
    BY <1>3, <2>4 DEF NewTransferRow, CreateTransfer
  <2>6. QED
    BY <1>0, <2>2, <2>5, TransferAdded
<1>4. ASSUME NEW p \in Sessions, CreateWipTransfer(p)
      PROVE  TransfersChanged
  <2>1. PICK row : row = NewTransfer("wip", sess[p].w, sess[p].by.lab, sess[p].to)
    OBVIOUS
  <2>2. transfers' = Append(transfers, row)
    BY <1>4, <2>1 DEF CreateWipTransfer
  <2>3. sess[p].w \in DOMAIN wips /\ sess[p].by.lab \in Labs /\ sess[p].to \in Labs
    BY <1>4, <1>a DEF CreateWipTransfer, RequestOk, IsRequest
  <2>4. sess[p].w \in Nat \ {0}
    <3>1. PICK n \in Nat : DOMAIN wips = 1..n
      BY <1>0 DEF WipRowsOk, IsList
    <3>2. QED
      BY <2>3, <3>1
  <2>5. row \in TransferRows /\ row.kind = "wip" /\ row.of = sess[p].w
    BY <2>1, <2>3, <2>4 DEF NewTransfer, TransferRows, TransferStatuses
  <2>6. NewTransferRow(row)
    BY <1>4, <2>5 DEF NewTransferRow, CreateWipTransfer
  <2>7. QED
    BY <1>0, <2>2, <2>6, TransferAdded
<1>5. ASSUME NEW p \in Sessions, SendTransfer(p) \/ CancelTransfer(p)
      PROVE  TransfersChanged
  <2>1. PICK u \in DOMAIN transfers : u = sess[p].t
    BY <1>5, <1>a DEF SendTransfer, CancelTransfer, RequestOk
  <2>2. PICK row : /\ transfers' = [transfers EXCEPT ![u] = row]
                   /\ \/ sess[p].op = "send" /\ row = AsTransferring(transfers[u])
                      \/ sess[p].op = "cancel" /\ row = AsCancelled(transfers[u])
    BY <1>5, <2>1 DEF SendTransfer, CancelTransfer
  <2>3. \/ sess[p].op = "send" /\ row = TransferWith(transfers[u], "transferring")
        \/ sess[p].op = "cancel" /\ row = TransferWith(transfers[u], "cancelled")
    BY <1>b, <2>2, TransferForms
  <2>4. /\ transfers' = [t \in DOMAIN transfers |-> transfers'[t]]
        /\ transfers'[u] = row
        /\ \A t \in DOMAIN transfers : t # u => transfers'[t] = transfers[t]
    BY <1>b, <2>2
  <2>5. TransferKept(u)
    BY <2>1, <2>3, <2>4 DEF TransferKept
  <2>6. \A t \in DOMAIN transfers : TransferKept(t)
    BY <2>4, <2>5 DEF TransferKept
  <2>7. QED
    BY <1>0, <2>4, <2>6, TransfersKept
<1>6. ASSUME NEW p \in Sessions, SampleRequest(p) \/ WorkRequest(p)
       PROVE  TransfersChanged
  BY <1>1, <1>6, RequestsChangeNothing
<1>7. ASSUME NEW p \in Sessions,
              \/ Deliver(p) \/ NextItem(p) \/ Inbound(p) \/ Outbound(p) \/ ConfirmPickup(p)
              \/ Split(p) \/ GenerateMissing(p) \/ SetWip(p) \/ StartWip(p) \/ CompleteWip(p)
              \/ OthersComplete(p) \/ ConfirmResult(p) \/ AdvanceSample(p) \/ TerminateRun(p)
              \/ WithdrawSample(p) \/ LoseFollowUp(p) \/ TransferNoTaken(p)
       PROVE  TransfersChanged
  <2>1. UNCHANGED transfers
    BY <1>7 DEF Deliver, NextItem, Inbound, Outbound, ConfirmPickup, Split, GenerateMissing,
                SetWip, StartWip, CompleteWip, OthersComplete, ConfirmResult, AdvanceSample,
                TerminateRun, RunEnds, WithdrawSample, LoseFollowUp, TransferNoTaken, rows
  <2>2. QED
    BY <1>1, <2>1
<1>8. QED
  BY <1>1, <1>2, <1>3, <1>4, <1>5, <1>6, <1>7
     DEF Next, SampleHandler, WorkHandler, AllPickedUp, vars

-----------------------------------------------------------------------------
(* What is asked.                                                          *)

Request(op, by, s, w, t, to, wanted, items, found, step, was) ==
  [op |-> op, by |-> by, s |-> s, w |-> w, t |-> t, to |-> to, wanted |-> wanted,
   items |-> items, found |-> found, step |-> step, was |-> was]

RequestSet(op, by, s, w, t, to, wanted, items, found, step, was) ==
  [op : {op}, by : {by}, s : {s}, w : {w}, t : {t}, to : {to}, wanted : {wanted},
   items : {items}, found : {found}, step : {step}, was : {was}]

(* The one request with these fields.                                      *)
LEMMA RequestRecord ==
  ASSUME NEW op, NEW by, NEW s, NEW w, NEW t, NEW to, NEW wanted, NEW items, NEW found,
         NEW step, NEW was,
         NEW r \in RequestSet(op, by, s, w, t, to, wanted, items, found, step, was)
  PROVE  r = Request(op, by, s, w, t, to, wanted, items, found, step, was)
BY DEF Request, RequestSet

(* A request of this form.                                                 *)
LEMMA DeliveryRequest ==
  ASSUME NEW found
  PROVE  [Idle EXCEPT !.op = "deliver", !.found = found]
           = Request("deliver", Nobody, 0, 0, 0, NoLab, {}, {}, found, 0, "absent")
<1>1. [Idle EXCEPT !.op = "deliver", !.found = found]
        \in RequestSet("deliver", Nobody, 0, 0, 0, NoLab, {}, {}, found, 0, "absent")
  BY DEF Idle, RequestSet
<1>2. QED
  BY <1>1, RequestRecord

(* A request of this form.                                                 *)
LEMMA OfSampleRequest ==
  ASSUME NEW o, NEW u, NEW s
  PROVE  [Idle EXCEPT !.op = o, !.by = u, !.s = s]
           = Request(o, u, s, 0, 0, NoLab, {}, {}, {}, 0, "absent")
<1>1. [Idle EXCEPT !.op = o, !.by = u, !.s = s]
        \in RequestSet(o, u, s, 0, 0, NoLab, {}, {}, {}, 0, "absent")
  BY DEF Idle, RequestSet
<1>2. QED
  BY <1>1, RequestRecord

(* A request of this form.                                                 *)
LEMMA PickupRequest ==
  ASSUME NEW s
  PROVE  [Idle EXCEPT !.op = "pickup", !.s = s]
           = Request("pickup", Nobody, s, 0, 0, NoLab, {}, {}, {}, 0, "absent")
<1>1. [Idle EXCEPT !.op = "pickup", !.s = s]
        \in RequestSet("pickup", Nobody, s, 0, 0, NoLab, {}, {}, {}, 0, "absent")
  BY DEF Idle, RequestSet
<1>2. QED
  BY <1>1, RequestRecord

(* A request of this form.                                                 *)
LEMMA SplitRequest ==
  ASSUME NEW u, NEW s, NEW wanted
  PROVE  [Idle EXCEPT !.op = "split", !.by = u, !.s = s, !.wanted = wanted]
           = Request("split", u, s, 0, 0, NoLab, wanted, {}, {}, 0, "absent")
<1>1. [Idle EXCEPT !.op = "split", !.by = u, !.s = s, !.wanted = wanted]
        \in RequestSet("split", u, s, 0, 0, NoLab, wanted, {}, {}, 0, "absent")
  BY DEF Idle, RequestSet
<1>2. QED
  BY <1>1, RequestRecord

(* A request of this form.                                                 *)
LEMMA OthersRequest ==
  ASSUME NEW w, NEW s, NEW step
  PROVE  [Idle EXCEPT !.op = "complete_others", !.w = w, !.s = s, !.step = step]
           = Request("complete_others", Nobody, s, w, 0, NoLab, {}, {}, {}, step, "absent")
<1>1. [Idle EXCEPT !.op = "complete_others", !.w = w, !.s = s, !.step = step]
        \in RequestSet("complete_others", Nobody, s, w, 0, NoLab, {}, {}, {}, step, "absent")
  BY DEF Idle, RequestSet
<1>2. QED
  BY <1>1, RequestRecord

(* A request of this form.                                                 *)
LEMMA RunRequest ==
  ASSUME NEW o, NEW w, NEW s
  PROVE  [Idle EXCEPT !.op = o, !.w = w, !.s = s]
           = Request(o, Nobody, s, w, 0, NoLab, {}, {}, {}, 0, "absent")
<1>1. [Idle EXCEPT !.op = o, !.w = w, !.s = s]
        \in RequestSet(o, Nobody, s, w, 0, NoLab, {}, {}, {}, 0, "absent")
  BY DEF Idle, RequestSet
<1>2. QED
  BY <1>1, RequestRecord

(* A request of this form.                                                 *)
LEMMA WipTransferRequest ==
  ASSUME NEW u, NEW w, NEW to, NEW t
  PROVE  [Idle EXCEPT !.op = "transfer_wip", !.by = u, !.w = w, !.to = to, !.t = t]
           = Request("transfer_wip", u, 0, w, t, to, {}, {}, {}, 0, "absent")
<1>1. [Idle EXCEPT !.op = "transfer_wip", !.by = u, !.w = w, !.to = to, !.t = t]
        \in RequestSet("transfer_wip", u, 0, w, t, to, {}, {}, {}, 0, "absent")
  BY DEF Idle, RequestSet
<1>2. QED
  BY <1>1, RequestRecord

(* A request of this form.                                                 *)
LEMMA MoveRequest ==
  ASSUME NEW o, NEW u, NEW t
  PROVE  [Idle EXCEPT !.op = o, !.by = u, !.t = t]
           = Request(o, u, 0, 0, t, NoLab, {}, {}, {}, 0, "absent")
<1>1. [Idle EXCEPT !.op = o, !.by = u, !.t = t]
        \in RequestSet(o, u, 0, 0, t, NoLab, {}, {}, {}, 0, "absent")
  BY DEF Idle, RequestSet
<1>2. QED
  BY <1>1, RequestRecord

(* Nothing is asked.                                                       *)
LEMMA IdleRequest ==
  Idle = Request("none", Nobody, 0, 0, 0, NoLab, {}, {}, {}, 0, "absent")
BY DEF Idle, Request

-----------------------------------------------------------------------------
(* What a step does to the requests.                                       *)

(* What a request has seen when it is made.                                *)
SampleAskRight(r) ==
  /\ r.op = "deliver" =>
       /\ r.found = claimed
       /\ Guided => \A s \in Samples : Present(s) \/ told[NoLab][s] # 0
  /\ r.op \in {"receive", "outbound", "split"} => r.by \in Staff /\ ManagesSample(r.by, r.s)
  /\ r.op = "receive" =>
       /\ samples[r.s].status \in {"pending_receive", "transferring"}
       /\ Guided => PageReceives(r.by, r.s)
  /\ r.op \in {"inbound", "generate", "transfer_wip", "complete_others"} => ~Guided
  /\ r.op = "outbound" =>
       /\ RouteCompleted(r.s) /\ ~SampleUnderWay(r.s)
       /\ Guided => PageNotifies(r.by, r.s)
  /\ r.op = "pickup" => samples[r.s].status = "outbound"
  /\ r.op = "split" =>
       /\ r.wanted # {} /\ CreateInOrder(samples[r.s].route, wips, Mine(r.s), r.wanted)
       /\ Guided => PageSplits(r.by, r.s, r.wanted)
  /\ r.op = "generate" =>
       /\ r.wanted = {x \in Experiments : ExistingWips(r.s, x) = {}}
       /\ r.items = CreatableByGroup(samples[r.s].route, wips, Mine(r.s))

WorkAskRight(r) ==
  /\ r.op = "next" =>
       /\ r.by \in Staff \cup {Nobody} /\ ItemsOf(r.s) # {}
       /\ r.found = claimed /\ r.items = NextCandidates(r.s, wips, Mine(r.s))
       /\ Guided => IF r.by = Nobody THEN told[NoLab][r.s] = 0 /\ ~Present(r.s)
                    ELSE PageShows(r.by, r.s)
  /\ r.op \in {"send_to_schedule", "start", "complete", "terminate"} =>
       /\ r.op \in WipActions
       /\ Guided => r.op = "send_to_schedule" /\ wips[r.w].status = "created"
  /\ r.op = "transfer" =>
       /\ r.by.lab # r.to /\ r.was = samples[r.s].status /\ r.t = NextTransferNo
       /\ ~SampleUnderWay(r.s)
       /\ r.by.role # "admin" => InLab(r.by, samples[r.s].at)
       /\ Guided => r.by \in Staff /\ PageTransfers(r.by, r.s, r.to)
  /\ r.op \in {"send", "cancel"} => r.by \in Staff /\ Movable(r.t)
  /\ r.op \notin {"none", "advance", "withdraw"}

AskRight(r) == r.op \in Operations /\ SampleAskRight(r) /\ WorkAskRight(r)

Asks(p) == \E r : RequestOk(r) /\ AskRight(r) /\ sess' = [sess EXCEPT ![p] = r]

SessChanged ==
  /\ sess' = [p \in Sessions |-> sess'[p]]
  /\ \A p \in Sessions : \E r : RequestOk(r) /\ sess'[p] = r

(* The steps of a route that are creatable are places of it.               *)
LEMMA CreatableFacts ==
  ASSUME NEW route, IsList(route), NEW table, NEW mine
  PROVE  /\ IsFiniteSet(CreatableByGroup(route, table, mine))
         /\ CreatableByGroup(route, table, mine) \subseteq Nat
         /\ CreatableByGroup(route, table, mine) \subseteq DOMAIN GroupedRoute(route)
<1> DEFINE whole == GroupedRoute(route)
           slots == Slots(whole, table, mine)
           Group(k) == First({j \in DOMAIN route : route[j].group = route[k].group})
           Sooner(j, k) == \/ Group(j) < Group(k)
                           \/ /\ Group(j) = Group(k)
                              /\ \/ Before(route[j], route[k])
                                 \/ ~Before(route[k], route[j]) /\ j < k
           Nth(n) == CHOOSE j \in DOMAIN route :
                       Cardinality({i \in DOMAIN route : Sooner(i, j)}) = n - 1
           In(k) == {j \in DOMAIN whole : whole[j].group = whole[k].group}
           open == CreatableByGroup(route, table, mine)
<1>1. PICK n \in Nat : DOMAIN route = 1..n
  BY DEF IsList
<1>2. n \in Int /\ 1 \in Int /\ IsFiniteSet(DOMAIN route) /\ Cardinality(DOMAIN route) \in Nat
  <2>1. n \in Int /\ 1 \in Int
    OBVIOUS
  <2>2. IsFiniteSet(1..n)
    BY <2>1, FS_Interval
  <2>3. QED
    BY <1>1, <2>1, <2>2, FS_CardinalityType
<1>3. Grouping(route) = [m \in 1..Cardinality(DOMAIN route) |-> Nth(m)]
  BY DEF Grouping, Ordered
<1> HIDE DEF Nth
<1>4. DOMAIN whole = 1..Cardinality(DOMAIN route)
  BY <1>3 DEF GroupedRoute
<1>5. open = UNION {Creatable(whole, slots, table, In(k)) : k \in DOMAIN whole}
  BY DEF CreatableByGroup
<1> HIDE DEF open, whole, slots
<1>6. \A places : Creatable(whole, slots, table, places) \subseteq places
  BY DEF Creatable, Segment
<1>7. \A k \in DOMAIN whole : In(k) \subseteq DOMAIN whole
  OBVIOUS
<1>8. open \subseteq DOMAIN whole
  BY <1>5, <1>6, <1>7
<1>9. IsFiniteSet(open)
  <2>1. PICK m \in Int : m = Cardinality(DOMAIN route)
    BY <1>2
  <2>2. IsFiniteSet(1..m) /\ open \in SUBSET (1..m)
    BY <1>2, <1>4, <1>8, <2>1, FS_Interval
  <2>3. QED
    BY <2>2, FS_Subset
<1>10. open \subseteq Nat
  BY <1>2, <1>4, <1>8
<1>11. QED
  BY <1>8, <1>9, <1>10 DEF open, whole

(* The fields of a request.                                                *)
LEMMA RequestFields ==
  ASSUME NEW op, NEW by, NEW s, NEW w, NEW t, NEW to, NEW wanted, NEW items, NEW found,
         NEW step, NEW was, NEW r, r = Request(op, by, s, w, t, to, wanted, items, found, step, was)
  PROVE  /\ Shaped(r)
         /\ r.op = op /\ r.by = by /\ r.s = s /\ r.w = w /\ r.t = t /\ r.to = to
         /\ r.wanted = wanted /\ r.items = items /\ r.found = found /\ r.step = step /\ r.was = was
BY DEF Request, Shaped

(* One request changes.                                                    *)
LEMMA OneRequestChanged ==
  ASSUME SessOk, NEW p \in Sessions, NEW r, RequestOk(r), sess' = [sess EXCEPT ![p] = r]
  PROVE  SessChanged
<1>1. sess' = [q \in Sessions |-> sess'[q]]
  BY DEF SessOk
<1>2. \A q \in Sessions : sess'[q] = r \/ sess'[q] = sess[q]
  BY DEF SessOk
<1>3. ASSUME NEW q \in Sessions
      PROVE  \E x : RequestOk(x) /\ sess'[q] = x
  <2>1. CASE sess'[q] = r
    BY <2>1
  <2>2. CASE sess'[q] = sess[q]
    <3>1. RequestOk(sess[q])
      BY DEF SessOk
    <3>2. QED
      BY <2>2, <3>1
  <2>3. QED
    BY <1>2, <2>1, <2>2
<1>4. QED
  BY <1>1, <1>3 DEF SessChanged

(* Nothing asked is a request.                                             *)
LEMMA IdleOk == RequestOk(Idle) /\ Nobody \in Users /\ Nobody.lab = NoLab
<1>1. Nobody \in Users /\ Nobody.lab = NoLab
  BY DEF Nobody, Users
<1>2. PICK r : r = Idle
  OBVIOUS
<1>3. r = Request("none", Nobody, 0, 0, 0, NoLab, {}, {}, {}, 0, "absent")
  BY <1>2, IdleRequest
<1>4. /\ Shaped(r) /\ r.op = "none" /\ r.by = Nobody /\ r.wanted = {} /\ r.was = "absent"
  BY <1>3, RequestFields
<1>5. IsRequest(r)
  BY <1>1, <1>4 DEF IsRequest, Ops, SampleStatuses
<1>6. RequestOk(r)
  BY <1>4, <1>5 DEF RequestOk, OfSampleOps, OfWipOps
<1>7. QED
  BY <1>1, <1>2, <1>6

(* Such a request is in order: what is asked about a sample or a WIP.      *)
LEMMA OfSampleInOrder ==
  ASSUME NEW r, NEW op \in OfSampleOps \ {"transfer", "generate"}, NEW by \in Users,
         NEW s \in Samples, Present(s), NEW wanted \in SUBSET Experiments,
         r = Request(op, by, s, 0, 0, NoLab, wanted, {}, {}, 0, "absent")
  PROVE  RequestOk(r) /\ r.op = op /\ r.by = by /\ r.s = s /\ r.wanted = wanted
<1>1. /\ Shaped(r) /\ r.op = op /\ r.by = by /\ r.s = s /\ r.wanted = wanted /\ r.was = "absent"
  BY RequestFields
<1>2. op \in Ops /\ op \notin OfWipOps \cup {"next", "transfer", "transfer_wip", "generate", "send", "cancel"}
  BY DEF Ops, OfSampleOps, OfWipOps
<1>3. IsRequest(r)
  BY <1>1, <1>2 DEF IsRequest, SampleStatuses
<1>4. RequestOk(r)
  BY <1>1, <1>2, <1>3 DEF RequestOk
<1>5. QED
  BY <1>1, <1>4

(* The same for what is asked about a WIP.                                 *)
LEMMA OfWipInOrder ==
  ASSUME NEW r, NEW op \in OfWipOps, NEW by \in Users, NEW s \in Samples, Present(s),
         NEW w \in DOMAIN wips, wips[w].sample = s, NEW step,
         r = Request(op, by, s, w, 0, NoLab, {}, {}, {}, step, "absent")
  PROVE  RequestOk(r) /\ r.op = op
<1>1. /\ Shaped(r) /\ r.op = op /\ r.by = by /\ r.s = s /\ r.w = w /\ r.wanted = {} /\ r.was = "absent"
  BY RequestFields
<1>2. op \in Ops /\ op \notin {"next", "transfer", "transfer_wip", "generate", "send", "cancel"}
  BY DEF Ops, OfWipOps
<1>3. IsRequest(r)
  BY <1>1, <1>2 DEF IsRequest, SampleStatuses
<1>4. RequestOk(r)
  BY <1>1, <1>2, <1>3 DEF RequestOk
<1>5. QED
  BY <1>1, <1>4

(* The sample of a WIP.                                                    *)
LEMMA SampleOfWip ==
  ASSUME WipRowsOk, NEW w \in DOMAIN wips
  PROVE  wips[w].sample \in Samples /\ Present(wips[w].sample)
BY DEF WipRowsOk, IsWip

(* A request that is in order and as it should be is one that is asked.    *)
LEMMA AskedInOrder ==
  ASSUME NEW p, NEW r, Ask(p, r), RequestOk(r), SampleAskRight(r), WorkAskRight(r)
  PROVE  Asks(p)
BY DEF Ask, Asks, AskRight

(* Requests about samples have seen nothing of the other kind.             *)
LEMMA SampleKindRight ==
  ASSUME NEW r, r.op \in {"deliver", "receive", "inbound", "outbound", "pickup", "split", "generate"}
  PROVE  WorkAskRight(r)
BY DEF WorkAskRight

(* The same for the other requests.                                        *)
LEMMA WorkKindRight ==
  ASSUME NEW r,
         r.op \in {"next", "send_to_schedule", "start", "complete", "terminate", "transfer", "send", "cancel"}
           \/ (r.op \in {"transfer_wip", "complete_others"} /\ ~Guided)
  PROVE  SampleAskRight(r)
BY DEF SampleAskRight

(* What the requests about samples leave for their handlers.               *)
LEMMA SampleRequestStep ==
  ASSUME RowsInv, NEW p \in Sessions, SampleRequest(p)
  PROVE  Asks(p)
<1>0. SampleRowsOk /\ WipRowsOk /\ TransferRowsOk /\ SessOk
  BY DEF RowsInv
<1>a. Staff \subseteq Users /\ Nobody \in Users /\ {} \in SUBSET Experiments
  BY StaffAssumption, IdleOk
<1>b. \A u, s : ManagesSample(u, s) => Present(s)
  BY DEF ManagesSample
<1>c. \A o \in {"receive", "inbound", "outbound", "pickup", "split"} :
        o \in OfSampleOps \ {"transfer", "generate"}
  BY DEF OfSampleOps
<1>1. ASSUME AskDelivery(p)
      PROVE  Asks(p)
  <2>1. PICK r : r = [Idle EXCEPT !.op = "deliver", !.found = claimed]
    OBVIOUS
  <2>2. Ask(p, r) /\ (Guided => \A s \in Samples : Present(s) \/ told[NoLab][s] # 0)
    BY <1>1, <2>1 DEF AskDelivery
  <2>3. r = Request("deliver", Nobody, 0, 0, 0, NoLab, {}, {}, claimed, 0, "absent")
    BY <2>1, DeliveryRequest
  <2>4. /\ Shaped(r) /\ r.op = "deliver" /\ r.by = Nobody /\ r.wanted = {} /\ r.found = claimed
        /\ r.was = "absent"
    BY <2>3, RequestFields
  <2>5. IsRequest(r)
    BY <1>a, <2>4 DEF IsRequest, Ops, SampleStatuses
  <2>6. RequestOk(r)
    BY <2>4, <2>5 DEF RequestOk, OfSampleOps, OfWipOps
  <2>7. SampleAskRight(r)
    BY <2>2, <2>4 DEF SampleAskRight
  <2>8. QED
    BY <2>2, <2>4, <2>6, <2>7, SampleKindRight, AskedInOrder
<1>2. ASSUME AskReceive(p)
      PROVE  Asks(p)
  <2>1. PICK u \in Staff, s \in Samples :
          /\ ManagesSample(u, s) /\ samples[s].status \in {"pending_receive", "transferring"}
          /\ Guided => PageReceives(u, s)
          /\ Ask(p, [Idle EXCEPT !.op = "receive", !.by = u, !.s = s])
    BY <1>2 DEF AskReceive
  <2>2. PICK r : r = [Idle EXCEPT !.op = "receive", !.by = u, !.s = s]
    OBVIOUS
  <2>e. Ask(p, r)
    BY <2>1, <2>2
  <2>3. r = Request("receive", u, s, 0, 0, NoLab, {}, {}, {}, 0, "absent")
    BY <2>2, OfSampleRequest
  <2>4. RequestOk(r) /\ r.op = "receive" /\ r.by = u /\ r.s = s
    BY <1>a, <1>b, <1>c, <2>1, <2>3, OfSampleInOrder
  <2>5. SampleAskRight(r)
    BY <2>1, <2>4 DEF SampleAskRight
  <2>6. QED
    BY <2>e, <2>4, <2>5, SampleKindRight, AskedInOrder
<1>3. ASSUME AskInbound(p)
      PROVE  Asks(p)
  <2>1. PICK u \in Staff, s \in Samples :
          /\ ManagesSample(u, s) /\ ~Guided
          /\ Ask(p, [Idle EXCEPT !.op = "inbound", !.by = u, !.s = s])
    BY <1>3 DEF AskInbound
  <2>2. PICK r : r = [Idle EXCEPT !.op = "inbound", !.by = u, !.s = s]
    OBVIOUS
  <2>e. Ask(p, r)
    BY <2>1, <2>2
  <2>3. r = Request("inbound", u, s, 0, 0, NoLab, {}, {}, {}, 0, "absent")
    BY <2>2, OfSampleRequest
  <2>4. RequestOk(r) /\ r.op = "inbound"
    BY <1>a, <1>b, <1>c, <2>1, <2>3, OfSampleInOrder
  <2>5. SampleAskRight(r)
    BY <2>1, <2>4 DEF SampleAskRight
  <2>6. QED
    BY <2>e, <2>4, <2>5, SampleKindRight, AskedInOrder
<1>4. ASSUME AskOutbound(p)
      PROVE  Asks(p)
  <2>1. PICK u \in Staff, s \in Samples :
          /\ ManagesSample(u, s) /\ ~SampleUnderWay(s) /\ RouteCompleted(s)
          /\ Guided => PageNotifies(u, s)
          /\ Ask(p, [Idle EXCEPT !.op = "outbound", !.by = u, !.s = s])
    BY <1>4 DEF AskOutbound
  <2>2. PICK r : r = [Idle EXCEPT !.op = "outbound", !.by = u, !.s = s]
    OBVIOUS
  <2>e. Ask(p, r)
    BY <2>1, <2>2
  <2>3. r = Request("outbound", u, s, 0, 0, NoLab, {}, {}, {}, 0, "absent")
    BY <2>2, OfSampleRequest
  <2>4. RequestOk(r) /\ r.op = "outbound" /\ r.by = u /\ r.s = s
    BY <1>a, <1>b, <1>c, <2>1, <2>3, OfSampleInOrder
  <2>5. SampleAskRight(r)
    BY <2>1, <2>4 DEF SampleAskRight
  <2>6. QED
    BY <2>e, <2>4, <2>5, SampleKindRight, AskedInOrder
<1>5. ASSUME AskPickup(p)
      PROVE  Asks(p)
  <2>1. PICK s \in Samples :
          samples[s].status = "outbound" /\ Ask(p, [Idle EXCEPT !.op = "pickup", !.s = s])
    BY <1>5 DEF AskPickup
  <2>2. PICK r : r = [Idle EXCEPT !.op = "pickup", !.s = s]
    OBVIOUS
  <2>e. Ask(p, r)
    BY <2>1, <2>2
  <2>3. r = Request("pickup", Nobody, s, 0, 0, NoLab, {}, {}, {}, 0, "absent")
    BY <2>2, PickupRequest
  <2>4. Present(s)
    BY <2>1 DEF Present
  <2>5. RequestOk(r) /\ r.op = "pickup" /\ r.s = s
    BY <1>a, <1>c, <2>3, <2>4, OfSampleInOrder
  <2>6. SampleAskRight(r)
    BY <2>1, <2>5 DEF SampleAskRight
  <2>7. QED
    BY <2>e, <2>5, <2>6, SampleKindRight, AskedInOrder
<1>6. ASSUME AskSplit(p)
      PROVE  Asks(p)
  <2>1. PICK u \in Staff, s \in Samples, wanted \in SUBSET Experiments :
          /\ ManagesSample(u, s) /\ (Guided => PageSplits(u, s, wanted)) /\ wanted # {}
          /\ CreateInOrder(samples[s].route, wips, Mine(s), wanted)
          /\ Ask(p, [Idle EXCEPT !.op = "split", !.by = u, !.s = s, !.wanted = wanted])
    BY <1>6 DEF AskSplit
  <2>2. PICK r : r = [Idle EXCEPT !.op = "split", !.by = u, !.s = s, !.wanted = wanted]
    OBVIOUS
  <2>e. Ask(p, r)
    BY <2>1, <2>2
  <2>3. r = Request("split", u, s, 0, 0, NoLab, wanted, {}, {}, 0, "absent")
    BY <2>2, SplitRequest
  <2>4. RequestOk(r) /\ r.op = "split" /\ r.by = u /\ r.s = s /\ r.wanted = wanted
    BY <1>a, <1>b, <1>c, <2>1, <2>3, OfSampleInOrder
  <2>5. SampleAskRight(r)
    BY <2>1, <2>4 DEF SampleAskRight
  <2>6. QED
    BY <2>e, <2>4, <2>5, SampleKindRight, AskedInOrder
<1>7. ASSUME AskGenerate(p)
      PROVE  Asks(p)
  <2>1. PICK s \in Samples :
          /\ ~Guided /\ samples[s].status \in {"received", "split", "pending_transfer"}
          /\ Ask(p, [Idle EXCEPT !.op = "generate", !.s = s, !.found = Numbers(s),
                            !.items = CreatableByGroup(samples[s].route, wips, Mine(s)),
                            !.wanted = {x \in Experiments : ExistingWips(s, x) = {}}])
    BY <1>7 DEF AskGenerate
  <2>a. PICK items : items = CreatableByGroup(samples[s].route, wips, Mine(s))
    OBVIOUS
  <2>b. PICK wanted : wanted = {x \in Experiments : ExistingWips(s, x) = {}}
    OBVIOUS
  <2>c. PICK found : found = Numbers(s)
    OBVIOUS
  <2>2. PICK r : r = [Idle EXCEPT !.op = "generate", !.s = s, !.found = found, !.items = items,
                                  !.wanted = wanted]
    OBVIOUS
  <2>e. Ask(p, r)
    BY <2>1, <2>2, <2>a, <2>b, <2>c
  <2>f. r \in RequestSet("generate", Nobody, s, 0, 0, NoLab, wanted, items, found, 0, "absent")
    BY <2>2 DEF Idle, RequestSet
  <2>3. r = Request("generate", Nobody, s, 0, 0, NoLab, wanted, items, found, 0, "absent")
    BY <2>f, RequestRecord
  <2>4. /\ Shaped(r) /\ r.op = "generate" /\ r.by = Nobody /\ r.s = s /\ r.wanted = wanted
        /\ r.items = items /\ r.found = found /\ r.was = "absent"
    BY <2>3, RequestFields
  <2>d. IsFiniteSet(found)
    BY <1>0, <2>c, NumbersFinite
  <2>5. IsList(samples[s].route) /\ wanted \subseteq Experiments /\ Present(s)
    BY <1>0, <2>1, <2>b DEF SampleRowsOk, IsSample, Present
  <2>6. IsFiniteSet(items) /\ items \subseteq Nat
    <3>1. PICK route, mine : route = samples[s].route /\ mine = Mine(s)
      OBVIOUS
    <3>2. IsFiniteSet(CreatableByGroup(route, wips, mine)) /\ CreatableByGroup(route, wips, mine) \subseteq Nat
      BY <2>5, <3>1, CreatableFacts
    <3>3. QED
      BY <2>a, <3>1, <3>2
  <2>7. IsRequest(r)
    BY <1>a, <2>4, <2>5, <2>6, <2>d DEF IsRequest, Ops, OfSampleOps, SampleStatuses
  <2>8. RequestOk(r)
    BY <2>4, <2>5, <2>7 DEF RequestOk, OfWipOps
  <2>9. SampleAskRight(r)
    BY <2>1, <2>a, <2>b, <2>4 DEF SampleAskRight
  <2>10. QED
    BY <2>e, <2>4, <2>8, <2>9, SampleKindRight, AskedInOrder
<1>8. QED
  BY <1>1, <1>2, <1>3, <1>4, <1>5, <1>6, <1>7 DEF SampleRequest

(* What the requests about WIPs and transfers leave for their handlers.    *)
LEMMA WorkRequestStep ==
  ASSUME RowsInv, NEW p \in Sessions, WorkRequest(p)
  PROVE  Asks(p)
<1>0. SampleRowsOk /\ WipRowsOk /\ TransferRowsOk /\ SessOk
  BY DEF RowsInv
<1>a. Staff \subseteq Users /\ Nobody \in Users
  BY StaffAssumption, IdleOk
<1>1. ASSUME AskNext(p)
      PROVE  Asks(p)
  <2>1. PICK u \in Staff \cup {Nobody}, s \in Samples :
          /\ ItemsOf(s) # {}
          /\ Guided => IF u = Nobody THEN told[NoLab][s] = 0 /\ ~Present(s) ELSE PageShows(u, s)
          /\ Ask(p, [Idle EXCEPT !.op = "next", !.by = u, !.s = s, !.found = claimed,
                                 !.items = NextCandidates(s, wips, Mine(s))])
    BY <1>1 DEF AskNext
  <2>2. PICK items : items = NextCandidates(s, wips, Mine(s))
    OBVIOUS
  <2>3. PICK r : /\ r = [Idle EXCEPT !.op = "next", !.by = u, !.s = s, !.found = claimed, !.items = items]
                 /\ Ask(p, r)
    BY <2>1, <2>2
  <2>4. r = Request("next", u, s, 0, 0, NoLab, {}, items, claimed, 0, "absent")
    <3>1. r \in RequestSet("next", u, s, 0, 0, NoLab, {}, items, claimed, 0, "absent")
      BY <2>3 DEF Idle, RequestSet
    <3>2. QED
      BY <3>1, RequestRecord
  <2>5. /\ Shaped(r) /\ r.op = "next" /\ r.by = u /\ r.s = s /\ r.wanted = {} /\ r.items = items
        /\ r.found = claimed /\ r.was = "absent"
    BY <2>4, RequestFields
  <2>6. IsRequest(r)
    BY <1>a, <2>5 DEF IsRequest, Ops, SampleStatuses
  <2>7. RequestOk(r)
    BY <2>5, <2>6 DEF RequestOk, OfSampleOps, OfWipOps
  <2>8. WorkAskRight(r)
    BY <2>1, <2>2, <2>5 DEF WorkAskRight
  <2>9. QED
    BY <2>3, <2>5, <2>7, <2>8, WorkKindRight, AskedInOrder
<1>2. ASSUME AskWip(p)
      PROVE  Asks(p)
  <2>1. PICK u \in Staff, w \in DOMAIN wips, action \in WipActions :
          /\ Guided => action = "send_to_schedule" /\ wips[w].status = "created"
          /\ Ask(p, [Idle EXCEPT !.op = action, !.by = u, !.w = w, !.s = wips[w].sample,
                                 !.step = IF action = "complete" THEN StepOfWip(w) ELSE 0])
    BY <1>2 DEF AskWip
  <2>2. PICK step : step = IF action = "complete" THEN StepOfWip(w) ELSE 0
    OBVIOUS
  <2>3. PICK s \in Samples : s = wips[w].sample /\ Present(s)
    BY <1>0, SampleOfWip
  <2>4. PICK r : /\ r = [Idle EXCEPT !.op = action, !.by = u, !.w = w, !.s = s, !.step = step]
                 /\ Ask(p, r)
    BY <2>1, <2>2, <2>3
  <2>5. r = Request(action, u, s, w, 0, NoLab, {}, {}, {}, step, "absent")
    <3>1. r \in RequestSet(action, u, s, w, 0, NoLab, {}, {}, {}, step, "absent")
      BY <2>4 DEF Idle, RequestSet
    <3>2. QED
      BY <3>1, RequestRecord
  <2>6. action \in {"send_to_schedule", "start", "complete", "terminate"} /\ action \in OfWipOps
    BY OptionsAssumption DEF OfWipOps
  <2>7. RequestOk(r) /\ r.op = action
    BY <1>a, <2>3, <2>5, <2>6, OfWipInOrder
  <2>8. r.w = w
    BY <2>5, RequestFields
  <2>9. WorkAskRight(r)
    BY <2>1, <2>6, <2>7, <2>8 DEF WorkAskRight
  <2>10. QED
    BY <2>4, <2>6, <2>7, <2>9, WorkKindRight, AskedInOrder
<1>3. ASSUME AskOthersComplete(p)
      PROVE  Asks(p)
  <2>1. PICK w \in DOMAIN wips :
          /\ ~Guided
          /\ Ask(p, [Idle EXCEPT !.op = "complete_others", !.w = w, !.s = wips[w].sample,
                                 !.step = StepOfWip(w)])
    BY <1>3 DEF AskOthersComplete
  <2>2. PICK step : step = StepOfWip(w)
    OBVIOUS
  <2>3. PICK s \in Samples : s = wips[w].sample /\ Present(s)
    BY <1>0, SampleOfWip
  <2>4. PICK r : /\ r = [Idle EXCEPT !.op = "complete_others", !.w = w, !.s = s, !.step = step]
                 /\ Ask(p, r)
    BY <2>1, <2>2, <2>3
  <2>5. r = Request("complete_others", Nobody, s, w, 0, NoLab, {}, {}, {}, step, "absent")
    BY <2>4, OthersRequest
  <2>6. "complete_others" \in OfWipOps
    BY DEF OfWipOps
  <2>7. RequestOk(r) /\ r.op = "complete_others"
    BY <1>a, <2>3, <2>5, <2>6, OfWipInOrder
  <2>8. WorkAskRight(r)
    BY <2>7 DEF WorkAskRight
  <2>9. QED
    BY <2>1, <2>4, <2>7, <2>8, WorkKindRight, AskedInOrder
<1>4. ASSUME AskTransfer(p)
      PROVE  Asks(p)
  <2>1. PICK u \in Staff, s \in Samples, from \in Labs, to \in Labs :
          /\ Present(s) /\ ~SampleUnderWay(s) /\ from # to /\ FromOwnLab(u, from)
          /\ u.role # "admin" => InLab(u, samples[s].at)
          /\ Guided => from = u.lab /\ PageTransfers(u, s, to)
          /\ Ask(p, [Idle EXCEPT !.op = "transfer", !.by = [u EXCEPT !.lab = from], !.s = s,
                                 !.to = to, !.t = NextTransferNo, !.was = samples[s].status])
    BY <1>4 DEF AskTransfer
  <2>2. PICK by : by = [u EXCEPT !.lab = from]
    OBVIOUS
  <2>3. PICK t : t = NextTransferNo
    OBVIOUS
  <2>4. PICK was : was = samples[s].status
    OBVIOUS
  <2>5. u \in Users
    BY <1>a
  <2>6. by \in Users /\ by.lab \in Labs /\ by.lab = from /\ by.role = u.role /\ (from = u.lab => by = u)
    BY <2>2, <2>5 DEF Users
  <2>7. was \in SampleStatuses
    BY <1>0, <2>4 DEF SampleRowsOk, IsSample
  <2>8. PICK r : r = [Idle EXCEPT !.op = "transfer", !.by = by, !.s = s, !.to = to, !.t = t, !.was = was]
    OBVIOUS
  <2>e. Ask(p, r)
    BY <2>1, <2>2, <2>3, <2>4, <2>8
  <2>f. r \in RequestSet("transfer", by, s, 0, t, to, {}, {}, {}, 0, was)
    BY <2>8 DEF Idle, RequestSet
  <2>9. r = Request("transfer", by, s, 0, t, to, {}, {}, {}, 0, was)
    BY <2>f, RequestRecord
  <2>10. /\ Shaped(r) /\ r.op = "transfer" /\ r.by = by /\ r.s = s /\ r.t = t /\ r.to = to
         /\ r.wanted = {} /\ r.was = was
    BY <2>9, RequestFields
  <2>11. IsRequest(r)
    BY <2>6, <2>7, <2>10 DEF IsRequest, Ops, OfSampleOps
  <2>12. RequestOk(r)
    BY <2>1, <2>10, <2>11 DEF RequestOk, OfWipOps
  <2>13. by.role # "admin" => InLab(by, samples[s].at)
    BY <2>1, <2>6 DEF FromOwnLab, InLab
  <2>14. Guided => by \in Staff /\ PageTransfers(by, s, to)
    BY <2>1, <2>6
  <2>15. WorkAskRight(r)
    BY <2>1, <2>3, <2>4, <2>6, <2>10, <2>13, <2>14 DEF WorkAskRight
  <2>16. QED
    BY <2>e, <2>10, <2>12, <2>15, WorkKindRight, AskedInOrder
<1>5. ASSUME AskWipTransfer(p)
      PROVE  Asks(p)
  <2>1. PICK u \in Staff, w \in DOMAIN wips, to \in Labs :
          /\ u.lab # NoLab /\ ~Guided
          /\ Ask(p, [Idle EXCEPT !.op = "transfer_wip", !.by = u, !.w = w, !.to = to,
                                 !.t = NextTransferNo])
    BY <1>5 DEF AskWipTransfer
  <2>2. PICK t : t = NextTransferNo
    OBVIOUS
  <2>3. u \in Users /\ u.lab \in Labs
    BY <1>a, <2>1 DEF Users
  <2>4. PICK r : r = [Idle EXCEPT !.op = "transfer_wip", !.by = u, !.w = w, !.to = to, !.t = t] /\ Ask(p, r)
    BY <2>1, <2>2
  <2>5. r = Request("transfer_wip", u, 0, w, t, to, {}, {}, {}, 0, "absent")
    BY <2>4, WipTransferRequest
  <2>6. /\ Shaped(r) /\ r.op = "transfer_wip" /\ r.by = u /\ r.w = w /\ r.to = to /\ r.wanted = {}
        /\ r.was = "absent"
    BY <2>5, RequestFields
  <2>7. IsRequest(r)
    BY <2>3, <2>6 DEF IsRequest, Ops, SampleStatuses
  <2>8. RequestOk(r)
    BY <2>6, <2>7 DEF RequestOk, OfSampleOps, OfWipOps
  <2>9. WorkAskRight(r)
    BY <2>6 DEF WorkAskRight
  <2>10. QED
    BY <2>1, <2>4, <2>6, <2>8, <2>9, WorkKindRight, AskedInOrder
<1>6. ASSUME AskMove(p)
      PROVE  Asks(p)
  <2>1. PICK u \in Staff, t \in DOMAIN transfers, op \in {"send", "cancel"} :
          Movable(t) /\ Ask(p, [Idle EXCEPT !.op = op, !.by = u, !.t = t])
    BY <1>6 DEF AskMove
  <2>2. PICK r : r = [Idle EXCEPT !.op = op, !.by = u, !.t = t]
    OBVIOUS
  <2>e. Ask(p, r)
    BY <2>1, <2>2
  <2>3. r = Request(op, u, 0, 0, t, NoLab, {}, {}, {}, 0, "absent")
    BY <2>2, MoveRequest
  <2>4. Shaped(r) /\ r.op = op /\ r.by = u /\ r.t = t /\ r.wanted = {} /\ r.was = "absent"
    BY <2>3, RequestFields
  <2>5. u \in Users
    BY <1>a
  <2>6. IsRequest(r)
    BY <2>4, <2>5 DEF IsRequest, Ops, SampleStatuses
  <2>7. RequestOk(r)
    BY <2>4, <2>6 DEF RequestOk, OfSampleOps, OfWipOps
  <2>8. WorkAskRight(r)
    BY <2>1, <2>4 DEF WorkAskRight
  <2>9. SampleAskRight(r)
    BY <2>4, WorkKindRight
  <2>10. QED
    BY <2>e, <2>7, <2>8, <2>9, AskedInOrder
<1>7. QED
  BY <1>1, <1>2, <1>3, <1>4, <1>5, <1>6 DEF WorkRequest

(* What a handler leaves in its session: nothing, or the second            *)
(* transaction of a run that has ended.                                    *)
Nothing == {"none", "advance", "withdraw"}

Left(r) ==
  /\ RequestOk(r) /\ r.op \in Nothing
  /\ r.op = "none" => r = Idle
  /\ r.op = "withdraw" => "terminated" \in Operations

Answers(p) == \E r : Left(r) /\ sess' = [sess EXCEPT ![p] = r]

(* What every handler does to the requests: it answers, or an ended run    *)
(* leaves its second transaction to be done.                               *)
LEMMA AnswerStep ==
  ASSUME RowsInv, NEW p \in Sessions, SampleHandler(p) \/ WorkHandler(p)
  PROVE  Answers(p)
<1>0. SampleRowsOk /\ WipRowsOk /\ TransferRowsOk /\ SessOk
  BY DEF RowsInv
<1>1. ASSUME Answer(p)
      PROVE  Answers(p)
  <2>1. PICK r : r = Idle
    OBVIOUS
  <2>2. RequestOk(r) /\ sess' = [sess EXCEPT ![p] = r]
    BY <1>1, <2>1, IdleOk DEF Answer
  <2>3. r.op = "none"
    BY <2>1 DEF Idle
  <2>4. QED
    BY <2>1, <2>2, <2>3 DEF Answers, Left, Nothing
<1>2. ASSUME NEW w \in DOMAIN wips, NEW result, NEW o \in {"advance", "withdraw"},
             RunEnds(p, w, result, o), o = "withdraw" => result = "terminated"
      PROVE  Answers(p)
  <2>1. PICK s \in Samples : s = wips[w].sample /\ Present(s)
    BY <1>0, SampleOfWip
  <2>2. PICK r : r = [Idle EXCEPT !.op = o, !.w = w, !.s = s]
    OBVIOUS
  <2>3. sess' = [sess EXCEPT ![p] = r]
    BY <1>2, <2>1, <2>2 DEF RunEnds
  <2>4. r = Request(o, Nobody, s, w, 0, NoLab, {}, {}, {}, 0, "absent")
    BY <2>2, RunRequest
  <2>5. o \in OfWipOps /\ Nobody \in Users
    BY IdleOk DEF OfWipOps
  <2>6. RequestOk(r) /\ r.op = o
    BY <2>1, <2>4, <2>5, OfWipInOrder
  <2>7. QED
    BY <1>2, <2>3, <2>6 DEF Answers, Left, Nothing, RunEnds
<1>3. ASSUME ConfirmResult(p) \/ TerminateRun(p)
      PROVE  Answers(p)
  <2>1. PICK w \in DOMAIN wips : \/ RunEnds(p, w, "completed", "advance")
                                 \/ RunEnds(p, w, "terminated", "withdraw")
    BY <1>3 DEF ConfirmResult, TerminateRun
  <2>2. QED
    BY <1>2, <2>1
<1>4. CASE SampleHandler(p)
  BY <1>1, <1>4 DEF SampleHandler, Deliver, Receive, Inbound, Outbound, ConfirmPickup, Split,
                    GenerateMissing
<1>5. CASE NextItem(p) \/ SetWip(p) \/ StartWip(p) \/ CompleteWip(p) \/ OthersComplete(p)
  BY <1>1, <1>5 DEF NextItem, SetWip, StartWip, CompleteWip, OthersComplete
<1>6. CASE \/ AdvanceSample(p) \/ WithdrawSample(p) \/ LoseFollowUp(p)
           \/ CreateTransfer(p) \/ CreateWipTransfer(p) \/ TransferNoTaken(p)
           \/ SendTransfer(p) \/ CancelTransfer(p)
  BY <1>1, <1>6 DEF AdvanceSample, WithdrawSample, LoseFollowUp, CreateTransfer,
                    CreateWipTransfer, TransferNoTaken, SendTransfer, CancelTransfer
<1>7. QED
  BY <1>3, <1>4, <1>5, <1>6 DEF WorkHandler

(* Whatever happens to a session, its request is in order.                 *)
LEMMA SessStep ==
  ASSUME RowsInv, Next
  PROVE  SessChanged
<1>0. SessOk
  BY DEF RowsInv
<1>1. ASSUME NEW p \in Sessions, Asks(p) \/ Answers(p)
      PROVE  SessChanged
  <2>1. PICK r : RequestOk(r) /\ sess' = [sess EXCEPT ![p] = r]
    BY <1>1 DEF Asks, Answers, Left
  <2>2. QED
    BY <1>0, <2>1, OneRequestChanged
<1>2. ASSUME UNCHANGED sess
      PROVE  SessChanged
  BY <1>0, <1>2 DEF SessChanged, SessOk
<1>3. QED
  BY <1>1, <1>2, SampleRequestStep, WorkRequestStep, AnswerStep DEF Next, AllPickedUp, vars

-----------------------------------------------------------------------------
(* Every step keeps the rows in order.                                     *)

(* A new sample.                                                           *)
LEMMA DeliveredFacts ==
  ASSUME NEW s \in Samples, ItemsOf(s) # {}, NEW found
  PROVE  /\ IsSample(Delivered(s, found))
         /\ Delivered(s, found).status = "pending_receive" /\ Delivered(s, found).log = "pending_receive"
         /\ Delivered(s, found).route = RouteOf(s, found)
         /\ Delivered(s, found).at = At(FirstLab(s, found), "receive")
<1>1. PICK row, at, route : /\ row = Delivered(s, found) /\ route = RouteOf(s, found)
                            /\ at = At(FirstLab(s, found), "receive")
  OBVIOUS
<1>2. row = [status |-> "pending_receive", log |-> "pending_receive", at |-> at, route |-> route]
  BY <1>1 DEF Delivered
<1>3. at \in Places
  <2>1. Cardinality(ItemsOf(s)) \in Nat /\ ItemsOf(s) \subseteq ItemIds
    BY ItemFacts
  <2>2. PICK i \in ItemsOf(s) : i = DeliveryOrder(s, found)[1]
    <3>1. PICK f, S : f = DeliveryOrder(s, found) /\ S = ItemsOf(s)
      OBVIOUS
    <3>a. Lists(DeliveryOrder(s, found), ItemsOf(s))
      BY DeliveryFacts
    <3>b. Lists(f, S)
      BY <3>1, <3>a
    <3>2. f \in [1..Cardinality(S) -> S] /\ \A j \in S : \E n \in 1..Cardinality(S) : f[n] = j
      BY <3>b DEF Lists
    <3>3. 1 \in 1..Cardinality(S)
      BY <2>1, <3>1, <3>2
    <3>4. QED
      BY <3>1, <3>2, <3>3
  <2>3. FirstLab(s, found) \in Labs
    BY <2>1, <2>2, SamplesAssumption DEF FirstLab
  <2>4. QED
    BY <1>1, <2>3, PlaceFacts DEF Areas
<1>4. IsList(route)
  BY <1>1, RouteFacts DEF Cut, IsList
<1>5. /\ row = [status |-> row.status, at |-> row.at, route |-> row.route, log |-> row.log]
      /\ row.status = "pending_receive" /\ row.log = "pending_receive" /\ row.at = at
      /\ row.route = route
  BY <1>2
<1>6. IsSample(row)
  BY <1>3, <1>4, <1>5 DEF IsSample, SampleStatuses
<1>7. QED
  BY <1>1, <1>5, <1>6

(* What becomes of a sample.                                               *)
LEMMA SampleKept ==
  ASSUME SampleRowsOk, SamplesChanged, NEW s \in Samples
  PROVE  /\ IsSample(samples'[s])
         /\ Present(s) => Present(s)' /\ samples'[s].route = samples[s].route
         /\ ~Present(s) /\ Present(s)' =>
              \E p \in Sessions : /\ sess[p].op = "deliver" /\ ItemsOf(s) # {}
                                  /\ samples'[s] = Delivered(s, sess[p].found)
         /\ samples'[s].status # samples[s].status /\ Present(s) => SamplePlaced(s, samples'[s].status)
<1>1. IsSample(samples[s])
  BY DEF SampleRowsOk
<1>2. SampleChanged(s)
  BY DEF SamplesChanged
<1>3. CASE samples'[s] = samples[s]
  BY <1>1, <1>3 DEF Present
<1>4. ASSUME NEW p \in Sessions, sess[p].op = "deliver", ~Present(s), ItemsOf(s) # {},
             samples'[s] = Delivered(s, sess[p].found)
      PROVE  IsSample(samples'[s])
  BY <1>4, DeliveredFacts
<1>5. ASSUME NEW st \in SampleStatuses \ {"absent"}, NEW place \in Places, NEW log \in SampleStatuses,
             Present(s), SamplePlaced(s, st),
             samples'[s] = SampleWith(samples[s], st, place, log)
      PROVE  /\ IsSample(samples'[s]) /\ samples'[s].route = samples[s].route
             /\ samples'[s].status = st /\ Present(s)'
  BY <1>1, <1>5, SampleWithIsSample DEF Present
<1>6. QED
  BY <1>2, <1>3, <1>4, <1>5 DEF SampleChanged

(* What becomes of a WIP.                                                  *)
LEMMA WipKept ==
  ASSUME WipRowsOk, WipsChanged, NEW w \in DOMAIN wips
  PROVE  /\ w \in DOMAIN wips' /\ IsWip(wips'[w])
         /\ wips'[w].sample = wips[w].sample /\ wips'[w].lab = wips[w].lab
         /\ wips'[w].exp = wips[w].exp /\ wips'[w].no = wips[w].no
         /\ wips[w].status = "completed" => wips'[w].status = "completed" \/ Reset(w)
         /\ wips'[w].status = "terminated" =>
              wips[w].status = "terminated" \/ Reset(w) \/ "terminated" \in Operations
<1>1. IsWip(wips[w])
  BY DEF WipRowsOk
<1>2. w \in DOMAIN wips' /\ KeptRow(w, wips'[w])
  BY DEF WipsChanged
<1>3. PICK st \in WipStatuses, place \in Places :
        /\ wips'[w] = WipRow(wips[w], st, place)
        /\ wips[w].status = "completed" => st = "completed" \/ Reset(w)
        /\ st = "terminated" => wips[w].status = "terminated" \/ Reset(w) \/ "terminated" \in Operations
  BY <1>2 DEF KeptRow
<1>a. IsWip(WipRow(wips[w], st, place))
  BY <1>1, WipForms
<1>4. IsWip(wips'[w])
  BY <1>3, <1>a
<1>5. QED
  BY <1>2, <1>3, <1>4 DEF WipRow

(* The tables of samples and WIPs.                                         *)
LEMMA TablesKept ==
  ASSUME RowsInv, SamplesChanged, WipsChanged, TransfersChanged
  PROVE  SampleRowsOk' /\ WipRowsOk' /\ TransferRowsOk'
<1>0. SampleRowsOk /\ WipRowsOk /\ TransferRowsOk /\ SessOk
  BY DEF RowsInv
<1>a. \A p \in Sessions : RequestOk(sess[p])
  BY <1>0 DEF SessOk
<1>1. SampleRowsOk'
  BY <1>0, SampleKept DEF SampleRowsOk, SamplesChanged
<1>2. WipRowsOk'
  <2>1. ASSUME NEW w \in DOMAIN wips
        PROVE  IsWip(wips'[w]) /\ samples'[wips'[w].sample].status # "absent"
    <3>1. PICK s \in Samples : s = wips[w].sample /\ Present(s)
      BY <1>0, SampleOfWip
    <3>2. wips'[w].sample = s /\ IsWip(wips'[w])
      BY <1>0, <3>1, WipKept
    <3>3. Present(s)'
      BY <1>0, <3>1, SampleKept
    <3>4. QED
      BY <3>2, <3>3 DEF Present
  <2>2. ASSUME NEW w \in DOMAIN wips' \ DOMAIN wips
        PROVE  IsWip(wips'[w]) /\ samples'[wips'[w].sample].status # "absent"
    <3>1. NewRow(wips'[w])
      BY DEF WipsChanged
    <3>2. PICK p \in Sessions : wips'[w].sample = sess[p].s /\ sess[p].op \in {"split", "generate"}
      BY <3>1 DEF NewRow
    <3>3. PICK s \in Samples : s = sess[p].s /\ Present(s)
      BY <1>a, <3>2 DEF RequestOk, OfSampleOps
    <3>4. Present(s)'
      BY <1>0, <3>3, SampleKept
    <3>5. QED
      BY <3>1, <3>2, <3>3, <3>4 DEF Present, NewRow
  <2>3. \A w \in DOMAIN wips' : IsWip(wips'[w]) /\ samples'[wips'[w].sample].status # "absent"
    BY <2>1, <2>2
  <2>4. IsList(wips')
    BY DEF WipsChanged
  <2>5. QED
    BY <2>3, <2>4 DEF WipRowsOk, Present
<1>3. TransferRowsOk'
  <2>1. ASSUME NEW t \in DOMAIN transfers
        PROVE  /\ transfers'[t] \in TransferRows
               /\ transfers'[t].kind = transfers[t].kind /\ transfers'[t].of = transfers[t].of
    <3>1. TransferKept(t) /\ transfers[t] \in TransferRows
      BY <1>0 DEF TransfersChanged, TransferRowsOk
    <3>2. \/ transfers'[t] = transfers[t]
          \/ \E st \in TransferStatuses : transfers'[t] = TransferWith(transfers[t], st)
      BY <3>1 DEF TransferKept, TransferStatuses
    <3>3. \A st \in TransferStatuses : TransferWith(transfers[t], st) \in TransferRows
      BY <3>1, TransferForms
    <3>4. ASSUME NEW st \in TransferStatuses, transfers'[t] = TransferWith(transfers[t], st)
          PROVE  /\ transfers'[t] \in TransferRows
                 /\ transfers'[t].kind = transfers[t].kind /\ transfers'[t].of = transfers[t].of
      <4>1. TransferWith(transfers[t], st) \in TransferRows
        BY <3>3
      <4>2. /\ TransferWith(transfers[t], st).kind = transfers[t].kind
            /\ TransferWith(transfers[t], st).of = transfers[t].of
        BY DEF TransferWith
      <4>3. QED
        BY <3>4, <4>1, <4>2
    <3>5. QED
      BY <3>1, <3>2, <3>4
  <2>2. ASSUME NEW t \in DOMAIN transfers' \ DOMAIN transfers
        PROVE  NewTransferRow(transfers'[t])
    BY DEF TransfersChanged
  <2>3. ASSUME NEW t \in DOMAIN transfers', transfers'[t].kind = "sample"
        PROVE  transfers'[t].of \in Samples /\ samples'[transfers'[t].of].status # "absent"
    <3>1. PICK s \in Samples : s = transfers'[t].of /\ Present(s)
      <4>1. CASE t \in DOMAIN transfers
        BY <1>0, <2>1, <2>3, <4>1 DEF TransferRowsOk
      <4>2. CASE t \notin DOMAIN transfers
        BY <1>a, <2>2, <2>3, <4>2 DEF NewTransferRow, RequestOk, OfSampleOps
      <4>3. QED
        BY <4>1, <4>2
    <3>2. Present(s)'
      BY <1>0, <3>1, SampleKept
    <3>3. QED
      BY <3>1, <3>2 DEF Present
  <2>4. ASSUME NEW t \in DOMAIN transfers', transfers'[t].kind = "wip"
        PROVE  transfers'[t].of \in DOMAIN wips'
    <3>1. transfers'[t].of \in DOMAIN wips
      <4>1. CASE t \in DOMAIN transfers
        BY <1>0, <2>1, <2>4, <4>1 DEF TransferRowsOk
      <4>2. CASE t \notin DOMAIN transfers
        BY <1>a, <2>2, <2>4, <4>2 DEF NewTransferRow, RequestOk
      <4>3. QED
        BY <4>1, <4>2
    <3>2. QED
      BY <3>1 DEF WipsChanged
  <2>5. \A t \in DOMAIN transfers' : transfers'[t] \in TransferRows
    BY <2>1, <2>2 DEF NewTransferRow
  <2>6. IsList(transfers')
    BY DEF TransfersChanged
  <2>7. QED
    BY <2>3, <2>4, <2>5, <2>6 DEF TransferRowsOk, Present
<1>4. QED
  BY <1>1, <1>2, <1>3

(* A request that was in order is so still.                                *)
LEMMA RequestKept ==
  ASSUME RowsInv, SamplesChanged, WipsChanged, TransfersChanged, NEW r, RequestOk(r)
  PROVE  RequestOk(r)'
<1>0. SampleRowsOk /\ WipRowsOk /\ TransferRowsOk
  BY DEF RowsInv
<1>1. ASSUME NEW s \in Samples, Present(s)
      PROVE  Present(s)'
  BY <1>0, <1>1, SampleKept
<1>2. \A w \in DOMAIN wips : w \in DOMAIN wips' /\ wips'[w].sample = wips[w].sample
  BY <1>0, WipKept
<1>3. \A t \in DOMAIN transfers : t \in DOMAIN transfers'
  BY DEF TransfersChanged
<1>4. IsRequest(r)'
  BY DEF RequestOk, IsRequest, Shaped
<1>5. r.op \in OfSampleOps \cup OfWipOps => r.s \in Samples /\ Present(r.s)'
  BY <1>1 DEF RequestOk
<1>6. QED
  BY <1>2, <1>3, <1>4, <1>5 DEF RequestOk

(* What any step does.                                                     *)
LEMMA StepFacts ==
  ASSUME RowsInv, [Next]_vars
  PROVE  SamplesChanged /\ WipsChanged /\ TransfersChanged /\ SessChanged
<1>1. CASE Next
  BY <1>1, SamplesStep, WipsStep, TransfersStep, SessStep
<1>2. CASE UNCHANGED vars
  <2>1. /\ UNCHANGED <<samples, wips, transfers, sess>>
        /\ SampleRowsOk /\ WipRowsOk /\ TransferRowsOk /\ SessOk
    BY <1>2 DEF vars, RowsInv
  <2>2. SamplesChanged
    BY <2>1, NoSampleChanged
  <2>3. Kept(wips')
    BY <2>1, KeptAsTheyAre
  <2>4. WipsChanged
    BY <2>1, <2>3, KeptChanged
  <2>5. TransfersChanged
    BY <2>1, TransfersKept DEF TransferRowsOk, IsList, TransferKept
  <2>6. SessChanged
    BY <2>1 DEF SessOk, SessChanged
  <2>7. QED
    BY <2>2, <2>4, <2>5, <2>6
<1>3. QED
  BY <1>1, <1>2

(* The rows are in order, and so are the requests.                         *)
LEMMA RowsHold == Spec => []RowsInv
<1>1. ASSUME Init
      PROVE  RowsInv
  <2>1. SampleRowsOk
    <3>1. PICK row : row = NoSample
      OBVIOUS
    <3>2. IsSample(row)
      <4>1. At(NoLab, "receive") \in Places
        BY PlaceFacts DEF Areas
      <4>2. IsList(<<>>)
        <5>1. PICK e : e = <<>>
          OBVIOUS
        <5>2. 0 \in Nat /\ e = [i \in 1..0 |-> e[i]]
          BY <5>1
        <5>3. QED
          BY <5>1, <5>2 DEF IsList
      <4>3. QED
        BY <3>1, <4>1, <4>2 DEF IsSample, NoSample, SampleStatuses
    <3>3. samples = [s \in Samples |-> row]
      BY <1>1, <3>1 DEF Init
    <3>4. QED
      BY <3>2, <3>3 DEF SampleRowsOk
  <2>2. WipRowsOk /\ TransferRowsOk
    <3>1. IsList(<<>>)
      <4>1. PICK e : e = <<>>
        OBVIOUS
      <4>2. 0 \in Nat /\ e = [i \in 1..0 |-> e[i]]
        BY <4>1
      <4>3. QED
        BY <4>1, <4>2 DEF IsList
    <3>2. wips = <<>> /\ transfers = <<>> /\ DOMAIN wips = {} /\ DOMAIN transfers = {}
      BY <1>1 DEF Init
    <3>3. QED
      BY <3>1, <3>2 DEF WipRowsOk, TransferRowsOk
  <2>3. SessOk
    <3>1. PICK r : r = Idle /\ RequestOk(r)
      BY IdleOk
    <3>2. sess = [p \in Sessions |-> r]
      BY <1>1, <3>1 DEF Init
    <3>3. QED
      BY <3>1, <3>2 DEF SessOk
  <2>4. QED
    BY <2>1, <2>2, <2>3 DEF RowsInv
<1>2. ASSUME RowsInv, [Next]_vars
      PROVE  RowsInv'
  <2>1. SamplesChanged /\ WipsChanged /\ TransfersChanged /\ SessChanged
    BY <1>2, StepFacts
  <2>2. SampleRowsOk' /\ WipRowsOk' /\ TransferRowsOk'
    BY <1>2, <2>1, TablesKept
  <2>3. SessOk'
    <3>1. \A p \in Sessions : \E r : RequestOk(r)' /\ sess'[p] = r
      BY <1>2, <2>1, RequestKept DEF SessChanged
    <3>2. ASSUME NEW p \in Sessions
          PROVE  RequestOk(sess[p])'
      BY <3>1 DEF RequestOk, IsRequest, Present
    <3>3. QED
      BY <2>1, <3>2 DEF SessOk, SessChanged
  <2>4. QED
    BY <2>2, <2>3 DEF RowsInv
<1>3. QED
  BY <1>1, <1>2, PTL DEF Spec

-----------------------------------------------------------------------------
(* Requests among each other.                                              *)

Still == UNCHANGED <<samples, wips, transfers, claimed, done, told>>

(* A step is a request, which changes no row, or an answer.                *)
LEMMA StepKinds ==
  ASSUME RowsInv, [Next]_vars
  PROVE  \/ UNCHANGED vars
         \/ \E p \in Sessions : Asks(p) /\ Still
         \/ \E p \in Sessions : Answers(p)
<1>1. ASSUME NEW p \in Sessions, SampleRequest(p) \/ WorkRequest(p)
      PROVE  Asks(p) /\ Still
  BY <1>1, RequestsChangeNothing, SampleRequestStep, WorkRequestStep DEF Still
<1>2. QED
  BY <1>1, AnswerStep DEF Next, AllPickedUp

(* Only what is offered is asked.                                          *)
OpsOk ==
  \A p \in Sessions :
    /\ sess[p].op \in Operations \cup Nothing
    /\ sess[p].op = "withdraw" => "terminated" \in Operations
    /\ sess[p].op \in {"send_to_schedule", "start", "complete", "terminate"} => sess[p].op \in WipActions

(* Only what is offered is asked.                                          *)
LEMMA OpsHold == Spec => []OpsOk
<1>1. ASSUME Init
      PROVE  OpsOk
  BY <1>1 DEF Init, OpsOk, Nothing, Idle
<1>2. ASSUME RowsInv, OpsOk, [Next]_vars
      PROVE  OpsOk'
  <2>1. ASSUME NEW p \in Sessions, NEW r, sess' = [sess EXCEPT ![p] = r],
               r.op \in Operations \cup Nothing,
               r.op = "withdraw" => "terminated" \in Operations,
               r.op \in {"send_to_schedule", "start", "complete", "terminate"} => r.op \in WipActions
        PROVE  OpsOk'
    <3>1. \A q \in Sessions : sess'[q] = r \/ sess'[q] = sess[q]
      BY <1>2, <2>1 DEF RowsInv, SessOk
    <3>2. QED
      BY <1>2, <2>1, <3>1 DEF OpsOk
  <2>2. ASSUME NEW p \in Sessions, Asks(p)
        PROVE  OpsOk'
    <3>1. PICK r : AskRight(r) /\ sess' = [sess EXCEPT ![p] = r]
      BY <2>2 DEF Asks
    <3>2. QED
      BY <2>1, <3>1 DEF AskRight, WorkAskRight
  <2>3. ASSUME NEW p \in Sessions, Answers(p)
        PROVE  OpsOk'
    <3>1. PICK r : /\ r.op \in Nothing /\ sess' = [sess EXCEPT ![p] = r]
                   /\ r.op = "withdraw" => "terminated" \in Operations
      BY <2>3 DEF Answers, Left
    <3>2. QED
      BY <2>1, <3>1 DEF Nothing
  <2>4. CASE UNCHANGED vars
    BY <1>2, <2>4 DEF vars, OpsOk
  <2>5. QED
    BY <1>2, <2>2, <2>3, <2>4, StepKinds
<1>3. QED
  BY <1>1, <1>2, RowsHold, PTL DEF Spec

(* What a request has seen is true as long as no row changes.              *)
LEMMA SeenStill ==
  ASSUME Still, NEW r
  PROVE  AskRight(r)' <=> AskRight(r)
<1>0. /\ samples' = samples /\ wips' = wips /\ transfers' = transfers
      /\ claimed' = claimed /\ told' = told
  BY DEF Still
<1>1. \A s : Present(s)' = Present(s) /\ Mine(s)' = Mine(s)
  BY <1>0 DEF Present, Mine
<1>2. /\ \A s : IncompleteWips(s)' = IncompleteWips(s) /\ CompletedWips(s)' = CompletedWips(s)
      /\ \A s, x : ExistingWips(s, x)' = ExistingWips(s, x)
  BY <1>0, <1>1 DEF IncompleteWips, CompletedWips, ExistingWips
<1>3. /\ \A t, s : OfSample(t, s)' = OfSample(t, s)
      /\ \A k, i : ActiveTransfers(k, i)' = ActiveTransfers(k, i)
      /\ NextTransferNo' = NextTransferNo /\ \A t : Movable(t)' = Movable(t)
  BY <1>0 DEF OfSample, ActiveTransfers, NextTransferNo, Movable
<1>4. \A s : SampleUnderWay(s)' = SampleUnderWay(s)
  BY <1>3 DEF SampleUnderWay
<1>5. \A s, lab : RelatedToLab(s, lab)' = RelatedToLab(s, lab) /\ SentToLab(s, lab)' = SentToLab(s, lab)
  BY <1>0, <1>1, <1>3 DEF RelatedToLab, SentToLab
<1>6. /\ \A u, s : ManagesSample(u, s)' = ManagesSample(u, s)
      /\ \A u, s, all : SampleListed(u, s, all)' = SampleListed(u, s, all)
      /\ \A u, w : WipListed(u, w)' = WipListed(u, w) /\ FlowListed(u, w)' = FlowListed(u, w)
  BY <1>0, <1>1, <1>5 DEF ManagesSample, SampleListed, WipListed, FlowListed, InLab
<1>7. /\ \A u : SamplesOf(u)' = SamplesOf(u)
      /\ \A u, s : WipsOf(u, s)' = WipsOf(u, s) /\ FlowWipsOf(u, s)' = FlowWipsOf(u, s)
  BY <1>1, <1>6 DEF SamplesOf, WipsOf, FlowWipsOf
<1>8. \A s, k : StepDone(s, k)' = StepDone(s, k)
  BY <1>0, <1>2 DEF StepDone
<1>9. \A u, s, k : SeenDone(u, s, k)' = SeenDone(u, s, k)
  BY <1>0, <1>2, <1>7 DEF SeenDone
<1>10. \A s : RouteCompleted(s)' = RouteCompleted(s)
  BY <1>0, <1>2, <1>8 DEF RouteCompleted
<1>11. \A u, s : PageForms(u, s)' = PageForms(u, s)
  BY <1>0, <1>2, <1>9 DEF PageForms
<1>12. /\ \A u, s, wanted : PageSplits(u, s, wanted)' = PageSplits(u, s, wanted)
       /\ \A u, s : PageReceives(u, s)' = PageReceives(u, s) /\ PageShows(u, s)' = PageShows(u, s)
  BY <1>0, <1>2, <1>4, <1>7, <1>11 DEF PageSplits, PageReceives, PageShows, InLab
<1>13. /\ \A u, s : PageNotifies(u, s)' = PageNotifies(u, s)
       /\ \A u, s, to : PageTransfers(u, s, to)' = PageTransfers(u, s, to)
  BY <1>0, <1>1, <1>2, <1>4, <1>7, <1>12 DEF PageNotifies, PageTransfers
<1>14. SampleAskRight(r)' <=> SampleAskRight(r)
  BY <1>0, <1>1, <1>2, <1>4, <1>6, <1>10, <1>12, <1>13 DEF SampleAskRight
<1>15. WorkAskRight(r)' <=> WorkAskRight(r)
  BY <1>0, <1>1, <1>3, <1>4, <1>12, <1>13 DEF WorkAskRight, InLab
<1>16. QED
  BY <1>14, <1>15 DEF AskRight

-----------------------------------------------------------------------------
(* One request at a time: what it has seen is true when it is handled.     *)

Alone == \A p, q \in Sessions : p = q

Fresh == \A p \in Sessions : sess[p].op \in Nothing \/ AskRight(sess[p])

(* With one session no row changes between a request and its handler.      *)
LEMMA FreshHolds ==
  ASSUME Alone
  PROVE  Spec => []Fresh
<1>1. ASSUME Init
      PROVE  Fresh
  BY <1>1 DEF Init, Fresh, Nothing, Idle
<1>2. ASSUME RowsInv, Fresh, [Next]_vars
      PROVE  Fresh'
  <2>0. sess = [p \in Sessions |-> sess[p]]
    BY <1>2 DEF RowsInv, SessOk
  <2>1. ASSUME NEW p \in Sessions, Asks(p), Still
        PROVE  Fresh'
    <3>1. PICK r : AskRight(r) /\ sess' = [sess EXCEPT ![p] = r]
      BY <2>1 DEF Asks
    <3>2. AskRight(r)'
      BY <2>1, <3>1, SeenStill
    <3>3. \A q \in Sessions : sess'[q] = r
      BY <2>0, <3>1 DEF Alone
    <3>4. QED
      BY <3>2, <3>3 DEF Fresh
  <2>2. ASSUME NEW p \in Sessions, Answers(p)
        PROVE  Fresh'
    <3>1. PICK r : r.op \in Nothing /\ sess' = [sess EXCEPT ![p] = r]
      BY <2>2 DEF Answers, Left
    <3>2. \A q \in Sessions : sess'[q] = r
      BY <2>0, <3>1 DEF Alone
    <3>3. QED
      BY <3>1, <3>2 DEF Fresh
  <2>3. CASE UNCHANGED vars
    <3>1. Still
      BY <2>3 DEF vars, Still
    <3>2. ASSUME NEW p \in Sessions
          PROVE  sess'[p].op \in Nothing \/ AskRight(sess[p])'
      <4>1. PICK r : r = sess[p]
        OBVIOUS
      <4>2. r.op \in Nothing \/ AskRight(r)
        BY <1>2, <4>1 DEF Fresh
      <4>3. r.op \in Nothing \/ AskRight(r)'
        BY <3>1, <4>2, SeenStill
      <4>4. r = sess'[p]
        BY <2>3, <4>1 DEF vars
      <4>5. QED
        BY <4>3, <4>4
    <3>3. QED
      BY <3>2 DEF Fresh
  <2>4. QED
    BY <1>2, <2>1, <2>2, <2>3, StepKinds
<1>3. QED
  BY <1>1, <1>2, RowsHold, PTL DEF Spec

(* A transfer that has ended stays as it ended, unless two requests        *)
(* overlap: the status is checked when a request is read, not when it is   *)
(* written (transfer_service).                                             *)
THEOREM EndedTransfersStay ==
  ASSUME Alone
  PROVE  Spec => EndedStays
<1>1. ASSUME RowsInv, Fresh, [Next]_vars
      PROVE  [\A t \in DOMAIN transfers : transfers[t].status \in {"received", "cancelled"} =>
                transfers'[t] = transfers[t]]_vars
  <2>1. ASSUME NEW t \in DOMAIN transfers, transfers[t].status \in {"received", "cancelled"}
        PROVE  transfers'[t] = transfers[t]
    <3>1. TransferKept(t)
      BY <1>1, StepFacts DEF TransfersChanged
    <3>2. ASSUME NEW p \in Sessions, sess[p].t = t, sess[p].op \in {"send", "cancel"}
          PROVE  FALSE
      <4>1. transfers[t].status = "pending"
        BY <1>1, <3>2 DEF Fresh, Nothing, AskRight, WorkAskRight, Movable
      <4>2. QED
        BY <2>1, <4>1
    <3>3. QED
      BY <2>1, <3>1, <3>2 DEF TransferKept
  <2>2. QED
    BY <2>1
<1>2. QED
  BY <1>1, RowsHold, FreshHolds, PTL DEF Spec, EndedStays

-----------------------------------------------------------------------------
(* The route a sample got when it was delivered.                           *)

Written ==
  \A s \in Samples : Present(s) => ItemsOf(s) # {} /\ \E c : samples[s].route = RouteOf(s, c)

(* A sample keeps the route that delivery wrote.                           *)
LEMMA WrittenHolds == Spec => []Written
<1>1. ASSUME Init
      PROVE  Written
  BY <1>1 DEF Init, Written, Present, NoSample
<1>2. ASSUME RowsInv, Written, [Next]_vars
      PROVE  Written'
  <2>1. ASSUME NEW s \in Samples, Present(s)'
        PROVE  ItemsOf(s) # {} /\ \E c : samples'[s].route = RouteOf(s, c)
    <3>1. SampleRowsOk /\ SamplesChanged
      BY <1>2, StepFacts DEF RowsInv
    <3>2. CASE Present(s)
      BY <1>2, <3>1, <3>2, SampleKept DEF Written
    <3>3. CASE ~Present(s)
      <4>1. PICK p \in Sessions : ItemsOf(s) # {} /\ samples'[s] = Delivered(s, sess[p].found)
        BY <2>1, <3>1, <3>3, SampleKept
      <4>2. samples'[s].route = RouteOf(s, sess[p].found)
        BY <4>1, DeliveredFacts
      <4>3. QED
        BY <4>1, <4>2
    <3>4. QED
      BY <3>2, <3>3
  <2>2. QED
    BY <2>1 DEF Written
<1>3. QED
  BY <1>1, <1>2, RowsHold, PTL DEF Spec

RoutesFit == \A s \in Samples : Cardinality(ItemsOf(s)) <= Room

(* A route that fits names every item; so does a completed WIP for each of *)
(* its steps.                                                              *)
LEMMA RouteNamesItems ==
  ASSUME RoutesFit, Written, NEW s \in Samples, Present(s)
  PROVE  /\ \A i \in ItemsOf(s) : \E k \in DOMAIN samples[s].route : samples[s].route[k] = Step(i)
         /\ \A k \in DOMAIN samples[s].route : \E i \in ItemsOf(s) : samples[s].route[k] = Step(i)
<1>1. PICK c : samples[s].route = RouteOf(s, c)
  BY DEF Written
<1>2. Cardinality(ItemsOf(s)) <= Room
  BY DEF RoutesFit
<1>3. Names(RouteOf(s, c), ItemsOf(s))
  BY <1>2, RouteFacts
<1>4. PICK route : route = samples[s].route /\ Names(route, ItemsOf(s))
  BY <1>1, <1>3
<1>5. PICK M \in Nat :
        /\ route \in [1..M -> {Step(i) : i \in ItemsOf(s)}]
        /\ \A i \in ItemsOf(s) : \E m \in 1..M : route[m] = Step(i)
  BY <1>4 DEF Names
<1>6. DOMAIN route = 1..M /\ \A m \in 1..M : \E i \in ItemsOf(s) : route[m] = Step(i)
  BY <1>5
<1>7. QED
  BY <1>4, <1>5, <1>6

AllDone(s) == \A i \in ItemsOf(s) : ItemDone(i, wips, Mine(s))

(* What the handler counts, the steps of the route, covers the items.      *)
LEMMA CompletedMeansAllDone ==
  ASSUME RoutesFit, Written, NEW s \in Samples, Present(s), RouteCompleted(s)
  PROVE  AllDone(s)
<1>1. ASSUME NEW i \in ItemsOf(s)
      PROVE  ItemDone(i, wips, Mine(s))
  <2>1. PICK k \in DOMAIN samples[s].route : samples[s].route[k] = Step(i)
    BY RouteNamesItems
  <2>2. PICK w \in CompletedWips(s) : SameExperiment(samples[s].route[k], wips[w])
    BY DEF RouteCompleted, StepDone
  <2>3. SameExperiment(Items[i], wips[w])
    BY <2>1, <2>2 DEF SameExperiment, Step
  <2>4. QED
    BY <2>2, <2>3 DEF ItemDone, CompletedWips
<1>2. QED
  BY <1>1 DEF AllDone

(* A sample is announced for pickup only when every item has a completed   *)
(* WIP, none is open and no transfer is under way, if the route fits its   *)
(* column and no other request comes between (handle_sample_action,        *)
(* outbound).                                                              *)
THEOREM OutboundIsJustified ==
  ASSUME Alone, RoutesFit
  PROVE  Spec => OutboundJustified
<1>1. ASSUME RowsInv, Fresh, Written, [Next]_vars
      PROVE  [\A s \in Samples :
                samples[s].status # "outbound" /\ samples'[s].status = "outbound" =>
                  /\ IncompleteWips(s) = {} /\ ~SampleUnderWay(s)
                  /\ \A i \in ItemsOf(s) : ItemDone(i, wips, Mine(s))]_vars
  <2>0. SampleRowsOk /\ SamplesChanged
    BY <1>1, StepFacts DEF RowsInv
  <2>1. ASSUME NEW s \in Samples, samples[s].status # "outbound", samples'[s].status = "outbound"
        PROVE  IncompleteWips(s) = {} /\ ~SampleUnderWay(s) /\ AllDone(s)
    <3>1. Present(s)
      <4>1. ASSUME ~Present(s), NEW p \in Sessions, ItemsOf(s) # {},
                   samples'[s] = Delivered(s, sess[p].found)
            PROVE  FALSE
        BY <2>1, <4>1, DeliveredFacts
      <4>2. Present(s)'
        BY <2>1 DEF Present
      <4>3. QED
        BY <2>0, <4>1, <4>2, SampleKept
    <3>2. PICK p \in Sessions : sess[p].op = "outbound" /\ sess[p].s = s
      BY <2>0, <2>1, <3>1, SampleKept DEF SamplePlaced
    <3>3. RouteCompleted(s) /\ ~SampleUnderWay(s)
      BY <1>1, <3>2 DEF Fresh, Nothing, AskRight, SampleAskRight
    <3>4. QED
      BY <1>1, <3>1, <3>3, CompletedMeansAllDone DEF RouteCompleted
  <2>2. QED
    BY <2>1 DEF AllDone
<1>2. QED
  BY <1>1, RowsHold, FreshHolds, WrittenHolds, PTL DEF Spec, OutboundJustified

-----------------------------------------------------------------------------
(* Requests that overlap: what is completed stays completed, if no action  *)
(* of handle_wip_action takes it back.                                     *)

NoReset == WipActions \subseteq {"complete"}

(* An item that is done stays so.                                          *)
LEMMA DoneKept ==
  ASSUME WipRowsOk, WipsChanged, \A w : ~Reset(w), NEW s, NEW i, ItemDone(i, wips, Mine(s))
  PROVE  ItemDone(i, wips, Mine(s))'
<1>1. ASSUME NEW w \in DOMAIN wips, wips[w].status = "completed"
      PROVE  /\ w \in DOMAIN wips' /\ wips'[w].status = "completed"
             /\ wips'[w].sample = wips[w].sample /\ wips'[w].lab = wips[w].lab
             /\ wips'[w].exp = wips[w].exp
  BY <1>1, WipKept
<1>2. PICK w \in DOMAIN wips : /\ wips[w].sample = s /\ SameExperiment(Items[i], wips[w])
                               /\ wips[w].status = "completed"
  BY DEF ItemDone, Mine
<1>3. QED
  BY <1>1, <1>2 DEF ItemDone, Mine, SameExperiment

(* The same, if the only action is to complete a WIP.                      *)
LEMMA DoneStays ==
  ASSUME NoReset, OpsOk, WipRowsOk, WipsChanged, NEW s, NEW i, ItemDone(i, wips, Mine(s))
  PROVE  ItemDone(i, wips, Mine(s))'
<1>1. \A w : ~Reset(w)
  BY DEF Reset, OpsOk, NoReset
<1>2. QED
  BY <1>1, DoneKept

(* A sample whose items are done stays so.                                 *)
LEMMA CompletedStays ==
  ASSUME NoReset, OpsOk, WipRowsOk, WipsChanged, NEW s, AllDone(s)
  PROVE  AllDone(s)'
BY DoneStays DEF AllDone

(* The items of a sample that is announced, or is to be announced, are     *)
(* done.                                                                   *)
AnnouncedDone ==
  /\ \A s \in Samples : samples[s].status \in {"outbound", "picked_up"} => AllDone(s)
  /\ \A p \in Sessions : sess[p].op \in {"outbound", "pickup"} => AllDone(sess[p].s)

(* A sample that was announced for pickup, or has been picked up, has a    *)
(* completed WIP for every item of its order, however requests overlap: a  *)
(* route that fits its column names every item, and completed WIPs stay    *)
(* completed (_outbound_sample counts the route and the WIPs alone).       *)
THEOREM PickedUpMeansDone ==
  ASSUME RoutesFit, NoReset
  PROVE  Spec => []PickedUpWhenDone
<1>1. ASSUME Init
      PROVE  AnnouncedDone
  BY <1>1 DEF Init, AnnouncedDone, NoSample, Idle
<1>2. ASSUME RowsInv, OpsOk, Written, AnnouncedDone, [Next]_vars
      PROVE  AnnouncedDone'
  <2>0. /\ SampleRowsOk /\ WipRowsOk /\ SessOk /\ SamplesChanged /\ WipsChanged
    BY <1>2, StepFacts DEF RowsInv
  <2>1. ASSUME NEW s \in Samples, samples'[s].status \in {"outbound", "picked_up"}
        PROVE  AllDone(s)'
    <3>1. Present(s)
      <4>1. ASSUME ~Present(s), NEW p \in Sessions, ItemsOf(s) # {},
                   samples'[s] = Delivered(s, sess[p].found)
            PROVE  FALSE
        BY <2>1, <4>1, DeliveredFacts
      <4>2. Present(s)'
        BY <2>1 DEF Present
      <4>3. QED
        BY <2>0, <4>1, <4>2, SampleKept
    <3>2. \/ samples[s].status = samples'[s].status
          \/ \E p \in Sessions : sess[p].op \in {"outbound", "pickup"} /\ sess[p].s = s
      BY <2>0, <2>1, <3>1, SampleKept DEF SamplePlaced
    <3>3. AllDone(s)
      BY <1>2, <2>1, <3>2 DEF AnnouncedDone
    <3>4. QED
      BY <1>2, <2>0, <3>3, CompletedStays
  <2>2. ASSUME NEW p \in Sessions, NEW r, sess' = [sess EXCEPT ![p] = r],
               r.op \in {"outbound", "pickup"} => AllDone(r.s)
        PROVE  \A q \in Sessions : sess'[q].op \in {"outbound", "pickup"} => AllDone(sess'[q].s)
    <3>1. \A q \in Sessions : sess'[q] = r \/ sess'[q] = sess[q]
      BY <2>0, <2>2 DEF SessOk
    <3>2. QED
      BY <1>2, <2>2, <3>1 DEF AnnouncedDone
  <2>3. \A q \in Sessions : sess'[q].op \in {"outbound", "pickup"} => AllDone(sess'[q].s)
    <3>1. ASSUME NEW p \in Sessions, Asks(p)
          PROVE  \A q \in Sessions : sess'[q].op \in {"outbound", "pickup"} => AllDone(sess'[q].s)
      <4>1. PICK r : RequestOk(r) /\ AskRight(r) /\ sess' = [sess EXCEPT ![p] = r]
        BY <3>1 DEF Asks
      <4>2. ASSUME r.op = "outbound"
            PROVE  AllDone(r.s)
        <5>1. RouteCompleted(r.s) /\ r.s \in Samples /\ Present(r.s)
          BY <4>1, <4>2 DEF AskRight, SampleAskRight, RequestOk, OfSampleOps
        <5>2. QED
          BY <1>2, <5>1, CompletedMeansAllDone
      <4>3. ASSUME r.op = "pickup"
            PROVE  AllDone(r.s)
        <5>1. samples[r.s].status = "outbound" /\ r.s \in Samples
          BY <4>1, <4>3 DEF AskRight, SampleAskRight, RequestOk, OfSampleOps
        <5>2. QED
          BY <1>2, <5>1 DEF AnnouncedDone
      <4>4. QED
        BY <2>2, <4>1, <4>2, <4>3
    <3>2. ASSUME NEW p \in Sessions, Answers(p)
          PROVE  \A q \in Sessions : sess'[q].op \in {"outbound", "pickup"} => AllDone(sess'[q].s)
      <4>1. PICK r : r.op \in Nothing /\ sess' = [sess EXCEPT ![p] = r]
        BY <3>2 DEF Answers, Left
      <4>2. QED
        BY <2>2, <4>1 DEF Nothing
    <3>3. CASE UNCHANGED vars
      BY <1>2, <3>3 DEF vars, AnnouncedDone
    <3>4. QED
      BY <1>2, <3>1, <3>2, <3>3, StepKinds
  <2>4. ASSUME NEW p \in Sessions, sess'[p].op \in {"outbound", "pickup"}
        PROVE  AllDone(sess[p].s)'
    <3>1. PICK s : s = sess'[p].s
      OBVIOUS
    <3>2. AllDone(s)
      BY <2>3, <2>4, <3>1
    <3>3. AllDone(s)'
      BY <1>2, <2>0, <3>2, CompletedStays
    <3>4. QED
      BY <3>1, <3>3 DEF AllDone, Mine
  <2>5. QED
    BY <2>1, <2>4 DEF AnnouncedDone
<1>3. AnnouncedDone => PickedUpWhenDone
  BY DEF AnnouncedDone, AllDone, PickedUpWhenDone
<1>4. QED
  BY <1>1, <1>2, <1>3, RowsHold, OpsHold, WrittenHolds, PTL DEF Spec

-----------------------------------------------------------------------------
(* One WIP for each experiment of a sample.                                *)

(* Only two handlers create WIPs.                                          *)
LEMMA OnlyNewRows ==
  ASSUME RowsInv, [Next]_vars, NEW w \in DOMAIN wips' \ DOMAIN wips
  PROVE  \E p \in Sessions : Split(p) \/ GenerateMissing(p)
<1>1. SUFFICES ASSUME \A p \in Sessions : ~Split(p) /\ ~GenerateMissing(p)
               PROVE  DOMAIN wips' = DOMAIN wips
  OBVIOUS
<1>2. ASSUME NEW p \in Sessions, Receive(p) \/ Outbound(p) \/ ConfirmPickup(p) \/ StartWip(p) \/ CompleteWip(p)
                                 \/ CreateTransfer(p)
      PROVE  DOMAIN wips' = DOMAIN wips
  <2>1. \A table, s, lab, place : /\ DOMAIN LabWipsMoved(table, s, lab, place) = DOMAIN table
                                  /\ DOMAIN AllWipsMoved(table, s, place) = DOMAIN table
    BY DEF LabWipsMoved, AllWipsMoved
  <2>2. CASE Receive(p)
    BY <2>1, <2>2 DEF Receive
  <2>3. CASE Outbound(p)
    BY <2>1, <2>3 DEF Outbound
  <2>4. CASE ConfirmPickup(p)
    BY <2>1, <2>4 DEF ConfirmPickup
  <2>5. CASE StartWip(p)
    BY <2>1, <2>5 DEF StartWip
  <2>6. CASE CompleteWip(p)
    BY <2>1, <2>6 DEF CompleteWip
  <2>7. CASE CreateTransfer(p)
    BY <2>1, <2>7 DEF CreateTransfer, NextLabWipsMoved
  <2>8. QED
    BY <1>2, <2>2, <2>3, <2>4, <2>5, <2>6, <2>7
<1>3. ASSUME NEW p \in Sessions, SendTransfer(p)
      PROVE  DOMAIN wips' = DOMAIN wips
  BY <1>3 DEF SendTransfer, NextLabWipsMoved, LabWipsMoved
<1>4. ASSUME NEW p \in Sessions,
             \/ SetWip(p) \/ OthersComplete(p) \/ ConfirmResult(p) \/ TerminateRun(p)
             \/ CreateWipTransfer(p)
      PROVE  DOMAIN wips' = DOMAIN wips
  BY <1>4 DEF SetWip, OthersComplete, ConfirmResult, TerminateRun, RunEnds, CreateWipTransfer
<1>5. ASSUME NEW p \in Sessions,
             \/ Deliver(p) \/ NextItem(p) \/ Inbound(p) \/ AdvanceSample(p) \/ WithdrawSample(p)
             \/ LoseFollowUp(p) \/ CancelTransfer(p) \/ TransferNoTaken(p)
      PROVE  DOMAIN wips' = DOMAIN wips
  BY <1>5 DEF Deliver, NextItem, Inbound, AdvanceSample, WithdrawSample, LoseFollowUp,
              CancelTransfer, TransferNoTaken, rows
<1>6. ASSUME NEW p \in Sessions, SampleRequest(p) \/ WorkRequest(p)
      PROVE  DOMAIN wips' = DOMAIN wips
  BY <1>6, RequestsChangeNothing
<1>7. CASE UNCHANGED vars
  BY <1>7 DEF vars
<1>8. QED
  BY <1>1, <1>2, <1>3, <1>4, <1>5, <1>6, <1>7
     DEF Next, SampleHandler, WorkHandler, AllPickedUp

OneEach(table) ==
  \A v, w \in DOMAIN table :
    table[v].sample = table[w].sample /\ table[v].lab = table[w].lab /\ table[v].exp = table[w].exp
      => v = w

(* New rows for experiments that have none, one for each.                  *)
LEMMA OneEachAdded ==
  ASSUME WipRowsOk, OneEach(wips), NEW s, NEW N \in Nat, NEW new, new = [n \in 1..N |-> new[n]],
         \A n \in 1..N : /\ NewRow(new[n]) /\ new[n].sample = s
                         /\ ExistingWips(s, [lab |-> new[n].lab, exp |-> new[n].exp]) = {},
         \A m, n \in 1..N : new[m].lab = new[n].lab /\ new[m].exp = new[n].exp => m = n,
         wips' = wips \o new
  PROVE  OneEach(wips')
<1>0. Added(new, N)
  BY RowsAdded
<1>1. /\ \A w \in DOMAIN wips : wips'[w] = wips[w]
      /\ \A w \in DOMAIN wips' \ DOMAIN wips : \E i \in 1..N : wips'[w] = new[i]
      /\ \A v, w \in DOMAIN wips' \ DOMAIN wips :
           v # w => \E i, j \in 1..N : i # j /\ wips'[v] = new[i] /\ wips'[w] = new[j]
  BY <1>0 DEF Added
<1>2. ASSUME NEW v \in DOMAIN wips, NEW n \in 1..N, wips[v].sample = new[n].sample,
             wips[v].lab = new[n].lab, wips[v].exp = new[n].exp
      PROVE  FALSE
  <2>1. v \in ExistingWips(s, [lab |-> new[n].lab, exp |-> new[n].exp])
    BY <1>2 DEF ExistingWips, Mine
  <2>2. QED
    BY <2>1
<1>3. ASSUME NEW v \in DOMAIN wips', NEW w \in DOMAIN wips',
             wips'[v].sample = wips'[w].sample, wips'[v].lab = wips'[w].lab,
             wips'[v].exp = wips'[w].exp, v # w
      PROVE  FALSE
  <2>1. CASE v \in DOMAIN wips /\ w \in DOMAIN wips
    <3>1. wips'[v] = wips[v] /\ wips'[w] = wips[w]
      BY <1>1, <2>1
    <3>2. QED
      BY <1>3, <2>1, <3>1 DEF OneEach
  <2>2. CASE v \in DOMAIN wips /\ w \notin DOMAIN wips
    <3>1. PICK n \in 1..N : wips'[w] = new[n]
      BY <1>1, <1>3, <2>2
    <3>2. QED
      BY <1>1, <1>2, <1>3, <2>2, <3>1
  <2>3. CASE v \notin DOMAIN wips /\ w \in DOMAIN wips
    <3>1. PICK n \in 1..N : wips'[v] = new[n]
      BY <1>1, <1>3, <2>3
    <3>2. QED
      BY <1>1, <1>2, <1>3, <2>3, <3>1
  <2>4. CASE v \notin DOMAIN wips /\ w \notin DOMAIN wips
    <3>1. v \in DOMAIN wips' \ DOMAIN wips /\ w \in DOMAIN wips' \ DOMAIN wips
      BY <1>3, <2>4
    <3>2. \E i, j \in 1..N : i # j /\ wips'[v] = new[i] /\ wips'[w] = new[j]
      BY <1>1, <1>3, <3>1
    <3>3. PICK i \in 1..N, j \in 1..N : i # j /\ wips'[v] = new[i] /\ wips'[w] = new[j]
      BY <3>2
    <3>4. new[i].lab = new[j].lab /\ new[i].exp = new[j].exp
      BY <1>3, <3>3
    <3>5. QED
      BY <3>3, <3>4
  <2>5. QED
    BY <2>1, <2>2, <2>3, <2>4
<1>4. QED
  BY <1>3 DEF OneEach

(* An experiment of a sample has one WIP, however many requests create it, *)
(* unless the generation of routes/others.py is among those that overlap:  *)
(* it looks for what is missing before it takes the sample's row, where    *)
(* splitting looks again after it has (wip_service.py, routes/others.py).  *)
THEOREM EveryExperimentOnce ==
  ASSUME Alone \/ "generate" \notin Operations
  PROVE  Spec => []OneWipPerExperiment
<1>1. ASSUME Init
      PROVE  OneEach(wips)
  BY <1>1 DEF Init, OneEach
<1>2. ASSUME RowsInv, OpsOk, Fresh \/ "generate" \notin Operations, OneEach(wips), [Next]_vars
      PROVE  OneEach(wips')
  <2>0. WipRowsOk /\ SessOk /\ WipsChanged
    BY <1>2, StepFacts DEF RowsInv
  <2>a. \A p \in Sessions : RequestOk(sess[p])
    BY <2>0 DEF SessOk
  <2>1. CASE \A w \in DOMAIN wips' : w \in DOMAIN wips
    <3>1. \A w \in DOMAIN wips' : /\ wips'[w].sample = wips[w].sample /\ wips'[w].lab = wips[w].lab
                                  /\ wips'[w].exp = wips[w].exp
      BY <2>0, <2>1, WipKept
    <3>2. QED
      BY <1>2, <2>1, <3>1 DEF OneEach
  <2>2. ASSUME NEW p \in Sessions, Split(p)
        PROVE  OneEach(wips')
    <3>1. PICK s \in Samples, missing \in SUBSET Experiments, place \in Places :
            /\ s = sess[p].s /\ missing = ToCreate(s, sess[p].wanted)
            /\ place = At(sess[p].by.lab, "temp")
      <4>1. sess[p].by.lab \in Labs \cup {NoLab}
        BY <2>a DEF RequestOk, IsRequest, Users
      <4>2. QED
        BY <2>2, <2>a, <4>1, PlaceFacts DEF Split, RequestOk, IsRequest, OfSampleOps, ToCreate, Areas
    <3>2. RowsOfSplit(SplitRows(s, missing, place), s, missing, place)
      BY <2>0, SplitRowsFacts
    <3>3. PICK new : new = SplitRows(s, missing, place)
      OBVIOUS
    <3>4. wips' = wips \o new
      BY <2>2, <3>1, <3>3 DEF Split
    <3>5. PICK N \in Nat :
            /\ new = [n \in 1..N |-> new[n]]
            /\ \A n \in 1..N : IsWip(new[n]) /\ new[n].sample = s
                               /\ new[n].status = "waiting_schedule"
                               /\ [lab |-> new[n].lab, exp |-> new[n].exp] \in missing
            /\ \A m, n \in 1..N : new[m].lab = new[n].lab /\ new[m].exp = new[n].exp => m = n
      BY <3>2, <3>3 DEF RowsOfSplit
    <3>6. \A n \in 1..N : /\ NewRow(new[n]) /\ new[n].sample = s
                          /\ ExistingWips(s, [lab |-> new[n].lab, exp |-> new[n].exp]) = {}
      BY <2>2, <3>1, <3>5 DEF NewRow, Split, ToCreate
    <3>7. QED
      BY <1>2, <2>0, <3>4, <3>5, <3>6, OneEachAdded
  <2>3. ASSUME NEW p \in Sessions, GenerateMissing(p)
        PROVE  OneEach(wips')
    <3>1. AskRight(sess[p]) /\ sess[p].op = "generate"
      BY <1>2, <2>3 DEF GenerateMissing, OpsOk, Nothing, Fresh
    <3>2. PICK s \in Samples :
            s = sess[p].s /\ sess[p].wanted = {x \in Experiments : ExistingWips(s, x) = {}}
      BY <2>a, <3>1 DEF AskRight, SampleAskRight, RequestOk, OfSampleOps
    <3>3. PICK new : new = GeneratedRows(p)
      OBVIOUS
    <3>4. PICK N \in Nat :
            /\ new = [n \in 1..N |-> new[n]]
            /\ \A n \in 1..N : /\ NewRow(new[n]) /\ new[n].sample = s
                               /\ [lab |-> new[n].lab, exp |-> new[n].exp] \in sess[p].wanted
            /\ \A m, n \in 1..N : new[m].lab = new[n].lab /\ new[m].exp = new[n].exp => m = n
      BY <2>a, <3>1, <3>2, <3>3, GeneratedRowsFacts
    <3>5. \A n \in 1..N : ExistingWips(s, [lab |-> new[n].lab, exp |-> new[n].exp]) = {}
      BY <3>2, <3>4
    <3>6. wips' = wips \/ wips' = wips \o new
      BY <2>3, <3>3 DEF GenerateMissing
    <3>7. wips' = wips \o new => OneEach(wips')
      BY <1>2, <2>0, <3>4, <3>5, OneEachAdded
    <3>8. QED
      BY <1>2, <3>6, <3>7
  <2>4. QED
    BY <1>2, <2>1, <2>2, <2>3, OnlyNewRows
<1>3. Init => OneWipPerExperiment
  BY <1>1 DEF OneEach, OneWipPerExperiment
<1>4. /\ RowsInv /\ OpsOk /\ (Fresh \/ "generate" \notin Operations) /\ OneWipPerExperiment
      /\ [Next]_vars
      => OneWipPerExperiment'
  BY <1>2 DEF OneEach, OneWipPerExperiment
<1>5. CASE Alone
  <2>1. RowsInv /\ OpsOk /\ Fresh /\ OneWipPerExperiment /\ [Next]_vars => OneWipPerExperiment'
    BY <1>4
  <2>2. Spec => []Fresh
    BY <1>5, FreshHolds
  <2>3. QED
    BY <1>3, <2>1, <2>2, RowsHold, OpsHold, PTL DEF Spec
<1>6. CASE "generate" \notin Operations
  <2>1. RowsInv /\ OpsOk /\ OneWipPerExperiment /\ [Next]_vars => OneWipPerExperiment'
    BY <1>4, <1>6
  <2>2. QED
    BY <1>3, <2>1, RowsHold, OpsHold, PTL DEF Spec
<1>7. QED
  BY <1>5, <1>6

-----------------------------------------------------------------------------
(* The promise to the applicant.                                           *)

(* Items name their sample by its number.                                  *)
LEMMA ItemSamples == \A i \in ItemIds : Items[i].sample \in Nat
<1>1. PICK T : T = [sample : Nat, lab : Nat \ {0}, exp : Nat \ {0}, group : Nat, target : Nat]
  OBVIOUS
<1>2. Items \in Seq(T)
  BY <1>1, ItemsAssumption
<1>3. \A i \in ItemIds : Items[i] \in T
  BY <1>2 DEF ItemIds
<1>4. QED
  BY <1>1, <1>3

(* Claims and answers.                                                     *)

(* The machine the preferred candidate is chosen by has a load.            *)
LEMMA UtilizationFacts ==
  ASSUME NEW park \in Parks, NEW candidates, NEW i
  PROVE  Utilization(i, CandidateMachines(candidates, park)) \in Nat
<1> DEFINE read == CandidateMachines(candidates, park)
           able == {m \in read : m.lab = Items[i].lab /\ Supports(m, i)}
           loads == {m.load : m \in able}
<1>1. able \subseteq park
  BY DEF CandidateMachines
<1>2. loads \in SUBSET Nat
  BY <1>1, OptionsAssumption
<1>3. CASE able = {}
  BY <1>3 DEF Utilization, MissingUtilization
<1>4. CASE able # {}
  <2>1. loads # {}
    BY <1>4
  <2> HIDE DEF loads
  <2>2. First(loads) \in Nat
    BY <1>2, <2>1, FirstFacts
  <2>3. QED
    BY <1>4, <2>2 DEF Utilization, loads
<1>5. QED
  BY <1>3, <1>4

(* The least of a set by three numbers, one after the other.               *)
LEMMA LeastByThree ==
  ASSUME NEW S \in SUBSET Nat, S # {}, NEW u, NEW v,
         \A i \in S : u[i] \in Nat /\ v[i] \in Nat
  PROVE  \E i \in S : \A j \in S : \/ u[i] < u[j]
                                   \/ u[i] = u[j] /\ v[i] < v[j]
                                   \/ u[i] = u[j] /\ v[i] = v[j] /\ i <= j
<1>1. PICK a \in {u[i] : i \in S} : \A j \in S : a <= u[j]
  <2> DEFINE U == {u[i] : i \in S}
  <2>1. U \in SUBSET Nat /\ U # {}
    OBVIOUS
  <2>2. \A j \in S : u[j] \in U
    OBVIOUS
  <2>3. \E n \in U : \A m \in U : n <= m
    <3> HIDE DEF U
    <3>1. QED
      BY <2>1, FirstFacts
  <2>4. QED
    BY <2>2, <2>3
<1>2. PICK A \in SUBSET S : A = {i \in S : u[i] = a} /\ A # {}
  BY <1>1
<1>3. PICK b \in {v[i] : i \in A} : \A j \in A : b <= v[j]
  <2> DEFINE U == {v[i] : i \in A}
  <2>1. U \in SUBSET Nat /\ U # {}
    BY <1>2
  <2>2. \A j \in A : v[j] \in U
    OBVIOUS
  <2>3. \E n \in U : \A m \in U : n <= m
    <3> HIDE DEF U
    <3>1. QED
      BY <2>1, FirstFacts
  <2>4. QED
    BY <2>2, <2>3
<1>4. PICK B \in SUBSET A : B = {i \in A : v[i] = b} /\ B # {}
  BY <1>3
<1>5. PICK c \in B : \A j \in B : c <= j
  <2>1. B \in SUBSET Nat
    BY <1>4
  <2>2. QED
    BY <1>4, <2>1, FirstFacts
<1>6. ASSUME NEW j \in S
      PROVE  u[c] < u[j] \/ (u[c] = u[j] /\ v[c] < v[j]) \/ (u[c] = u[j] /\ v[c] = v[j] /\ c <= j)
  <2>1. u[c] = a /\ v[c] = b /\ a \in Nat /\ b \in Nat /\ u[j] \in Nat /\ v[j] \in Nat /\ a <= u[j]
    BY <1>1, <1>2, <1>3, <1>4
  <2>2. CASE u[j] # a
    BY <2>1, <2>2
  <2>3. CASE u[j] = a
    <3>1. j \in A /\ b <= v[j]
      BY <1>2, <1>3, <2>3
    <3>2. v[j] = b => c <= j
      BY <1>4, <1>5, <3>1
    <3>3. QED
      BY <2>1, <2>3, <3>1, <3>2
  <2>4. QED
    BY <2>2, <2>3
<1>7. QED
  BY <1>4, <1>6

(* The item that is chosen is one of the candidates, or there is none.     *)
LEMMA ChosenFacts ==
  ASSUME NEW park \in Parks, NEW candidates \in SUBSET ItemIds, NEW found, NEW held
  PROVE  /\ Chosen(candidates, found, held, park) \in candidates \cup {0}
         /\ found = held /\ candidates # {} =>
              Chosen(candidates, found, held, park) \in candidates
<1> DEFINE usable == {i \in candidates : i \in found \/ Claimable(i, held)}
           read == CandidateMachines(candidates, park)
<1>1. usable \in SUBSET Nat /\ \A i \in usable : Items[i].target \in Nat
  BY ItemFacts
<1>2. found = held => usable = candidates
  BY DEF Claimable
<1>3. CASE usable = {}
  BY <1>2, <1>3 DEF Chosen
<1>4. CASE usable # {}
  <2>1. PICK u : u = [i \in usable |-> Utilization(i, read)]
    OBVIOUS
  <2>2. PICK v : v = [i \in usable |-> Items[i].target]
    OBVIOUS
  <2>3. \A i \in usable : Utilization(i, read) \in Nat
    BY UtilizationFacts
  <2> HIDE DEF usable, read
  <2>4. \A i \in usable : u[i] = Utilization(i, read) /\ v[i] = Items[i].target
    BY <2>1, <2>2
  <2>5. \A i \in usable : u[i] \in Nat /\ v[i] \in Nat
    BY <1>1, <2>3, <2>4
  <2>6. \E i \in usable : \A j \in usable : \/ u[i] < u[j]
                                            \/ u[i] = u[j] /\ v[i] < v[j]
                                            \/ u[i] = u[j] /\ v[i] = v[j] /\ i <= j
    BY <1>1, <1>4, <2>5, LeastByThree
  <2>7. \E i \in usable : \A j \in usable : Preferred(i, j, read)
    BY <2>4, <2>6 DEF Preferred
  <2>8. (CHOOSE i \in usable : \A j \in usable : Preferred(i, j, read)) \in usable
    BY <2>7
  <2>9. Chosen(candidates, found, held, park)
          = CHOOSE i \in usable : \A j \in usable : Preferred(i, j, read)
    BY <1>4 DEF Chosen, usable, read
  <2>10. QED
    BY <1>2, <2>8, <2>9 DEF usable
<1>5. QED
  BY <1>3, <1>4

(* Answers are kept by laboratory and sample.                              *)
Told(table) ==
  /\ table = [l \in Labs \cup {NoLab} |-> table[l]]
  /\ \A l \in Labs \cup {NoLab} : table[l] = [s \in Samples |-> table[l][s]]

ToldThen(new, table, l, s, i) == new = [table EXCEPT ![l][s] = i]

(* One of them changes.                                                    *)
LEMMA ToldChanged ==
  ASSUME NEW table, Told(table), NEW l \in Labs \cup {NoLab}, NEW s \in Samples, NEW i,
         NEW new, ToldThen(new, table, l, s, i)
  PROVE  /\ Told(new) /\ new[l][s] = i
         /\ \A k \in Labs \cup {NoLab} : k # l => new[k] = table[k]
         /\ \A x \in Samples : x # s => new[l][x] = table[l][x]
<1>1. PICK row : row = [table[l] EXCEPT ![s] = i]
  OBVIOUS
<1>2. new = [table EXCEPT ![l] = row]
  BY <1>1 DEF ToldThen
<1>3. /\ new = [k \in Labs \cup {NoLab} |-> new[k]] /\ new[l] = row
      /\ \A k \in Labs \cup {NoLab} : k # l => new[k] = table[k]
  BY <1>2 DEF Told
<1>4. /\ row = [x \in Samples |-> row[x]] /\ row[s] = i
      /\ \A x \in Samples : x # s => row[x] = table[l][x]
  BY <1>1 DEF Told
<1>5. \A k \in Labs \cup {NoLab} : new[k] = [x \in Samples |-> new[k][x]]
  BY <1>3, <1>4 DEF Told
<1>6. QED
  BY <1>3, <1>4, <1>5 DEF Told

(* What a step does to the claims and the answers.                         *)
Picks(p) ==
  \E i \in sess[p].items \cup {0} :
    /\ sess[p].op = "next"
    /\ claimed' = IF i = 0 THEN claimed ELSE claimed \cup {i}
    /\ told' = [told EXCEPT ![sess[p].by.lab][sess[p].s] = i]
    /\ UNCHANGED samples

(* Only dependency/next claims an item or gives an answer; a cancelled     *)
(* transfer releases none.                                                 *)
LEMMA ClaimStep ==
  ASSUME RowsInv, claimed \subseteq ItemIds, [Next]_vars,
         \A p \in Sessions : sess[p].op = "next" => sess[p].items \subseteq ItemIds
  PROVE  UNCHANGED <<claimed, told>> \/ \E p \in Sessions : Picks(p)
<1>1. ASSUME NEW p \in Sessions, NextItem(p)
      PROVE  Picks(p)
  <2>a. PICK park \in Parks :
          LET i == Chosen(sess[p].items, sess[p].found, claimed, park)
          IN /\ claimed' = IF i = 0 THEN claimed ELSE claimed \cup {i}
             /\ told' = [told EXCEPT ![sess[p].by.lab][sess[p].s] = i]
    BY <1>1 DEF NextItem
  <2>1. PICK i : /\ i = Chosen(sess[p].items, sess[p].found, claimed, park)
                 /\ claimed' = IF i = 0 THEN claimed ELSE claimed \cup {i}
                 /\ told' = [told EXCEPT ![sess[p].by.lab][sess[p].s] = i]
    BY <2>a
  <2>2. sess[p].op = "next" /\ UNCHANGED samples
    BY <1>1 DEF NextItem
  <2>3. PICK candidates \in SUBSET ItemIds : candidates = sess[p].items
    BY <2>2
  <2>4. Chosen(candidates, sess[p].found, claimed, park) \in candidates \cup {0}
    BY ChosenFacts
  <2>5. i \in sess[p].items \cup {0}
    BY <2>1, <2>3, <2>4
  <2>6. QED
    BY <2>1, <2>2, <2>5 DEF Picks
<1>2. ASSUME NEW p \in Sessions, CancelTransfer(p)
      PROVE  UNCHANGED <<claimed, told>>
  <2>1. PICK t : t = sess[p].t /\ t \in DOMAIN transfers
    BY <1>2 DEF CancelTransfer, RowsInv, SessOk, RequestOk
  <2>2. PICK of : of = transfers[t].of
    OBVIOUS
  <2>3. UNCHANGED told /\ \/ UNCHANGED claimed
                          \/ /\ transfers[t].kind = "sample"
                             /\ claimed' \in IF Releasable(RowId(of), transfers[t].to) = {} THEN {claimed}
                                             ELSE {claimed \ {i} : i \in Releasable(RowId(of), transfers[t].to)}
    BY <1>2, <2>1, <2>2 DEF CancelTransfer
  <2>4. transfers[t].kind = "sample" => of \in Samples
    BY <2>1, <2>2 DEF RowsInv, TransferRowsOk
  <2>5. ASSUME of \in Samples
        PROVE  Releasable(RowId(of), transfers[t].to) = {}
    <3>1. of \in Nat \ {0}
      BY <2>5, SamplesAssumption
    <3>2. RowId(of) \notin Nat
      BY <3>1 DEF RowId
    <3>3. \A i \in claimed : Items[i].sample \in Nat
      BY ItemSamples
    <3>4. QED
      BY <3>2, <3>3 DEF Releasable
  <2>6. QED
    BY <2>3, <2>4, <2>5
<1>3. ASSUME NEW p \in Sessions, SampleHandler(p)
      PROVE  UNCHANGED <<claimed, told>>
  BY <1>3 DEF SampleHandler, Deliver, Receive, Inbound, Outbound, ConfirmPickup, Split,
              GenerateMissing
<1>4. ASSUME NEW p \in Sessions,
             \/ SetWip(p) \/ StartWip(p) \/ CompleteWip(p) \/ OthersComplete(p)
             \/ ConfirmResult(p) \/ TerminateRun(p)
      PROVE  UNCHANGED <<claimed, told>>
  BY <1>4 DEF SetWip, StartWip, CompleteWip, OthersComplete, ConfirmResult, TerminateRun, RunEnds
<1>5. ASSUME NEW p \in Sessions,
             \/ AdvanceSample(p) \/ WithdrawSample(p) \/ LoseFollowUp(p)
             \/ CreateTransfer(p) \/ CreateWipTransfer(p) \/ TransferNoTaken(p) \/ SendTransfer(p)
      PROVE  UNCHANGED <<claimed, told>>
  BY <1>5 DEF AdvanceSample, WithdrawSample, LoseFollowUp, CreateTransfer, CreateWipTransfer,
              TransferNoTaken, SendTransfer, rows
<1>6. QED
  BY <1>1, <1>2, <1>3, <1>4, <1>5, RequestsChangeNothing DEF Next, WorkHandler, AllPickedUp, vars

(* Before its delivery the one item of a sample that is claimed is the one *)
(* its applicant was told; after it, the route begins with that.           *)
Promised ==
  /\ claimed \subseteq ItemIds
  /\ Told(told)
  /\ \A s \in Samples :
       /\ told[NoLab][s] \in ItemsOf(s) \cup {0}
       /\ ~Present(s) => claimed \cap ItemsOf(s) = {told[NoLab][s]} \ {0}
       /\ Present(s) => samples[s].route[1] = Step(told[NoLab][s])

(* What is asked by a page is asked for one of its own samples.            *)
LEMMA PageAsksForPresent ==
  ASSUME WipRowsOk, NEW u, NEW s, PageShows(u, s)
  PROVE  Present(s) /\ u.lab \in Labs /\ u.lab # NoLab
<1>1. s \in SamplesOf(u) /\ {w \in FlowWipsOf(u, s) : wips[w].lab = u.lab} # {}
  BY DEF PageShows
<1>2. Present(s)
  BY <1>1 DEF SamplesOf, SampleListed
<1>3. PICK w \in DOMAIN wips : wips[w].lab = u.lab
  BY <1>1 DEF FlowWipsOf, Mine
<1>4. [lab |-> wips[w].lab, exp |-> wips[w].exp] \in Experiments
  BY DEF WipRowsOk, IsWip
<1>5. wips[w].lab \in Labs
  BY <1>4, ExperimentFacts
<1>6. 0 \notin Labs
  BY SamplesAssumption
<1>7. QED
  BY <1>2, <1>3, <1>5, <1>6 DEF NoLab

(* A sample keeps its promise as long as nothing about it changes.         *)
LEMMA PromiseKept ==
  ASSUME Promised, NEW s \in Samples, Present(s)' <=> Present(s),
         Present(s) => samples'[s].route = samples[s].route,
         told'[NoLab][s] = told[NoLab][s], ~Present(s) => claimed' \cap ItemsOf(s) = claimed \cap ItemsOf(s)
  PROVE  /\ told'[NoLab][s] \in ItemsOf(s) \cup {0}
         /\ ~Present(s)' => claimed' \cap ItemsOf(s) = {told'[NoLab][s]} \ {0}
         /\ Present(s)' => samples'[s].route[1] = Step(told'[NoLab][s])
BY DEF Promised

(* An answer to a page, or to the applicant.                               *)
LEMMA AnswerPromised ==
  ASSUME Guided, RowsInv, Fresh, Promised, NEW p \in Sessions, Picks(p)
  PROVE  Promised'
<1>0. WipRowsOk /\ RequestOk(sess[p]) /\ sess[p].op = "next" /\ UNCHANGED samples
  BY DEF RowsInv, SessOk, Picks
<1>1. PICK x \in Samples, u \in Users : u = sess[p].by /\ x = sess[p].s
  BY <1>0 DEF RequestOk, IsRequest
<1>2. u.lab \in Labs \cup {NoLab}
  BY <1>0, <1>1 DEF RequestOk, IsRequest, Users
<1>3. /\ sess[p].items = NextCandidates(x, wips, Mine(x))
      /\ IF u = Nobody THEN told[NoLab][x] = 0 /\ ~Present(x) ELSE PageShows(u, x)
  BY <1>0, <1>1 DEF Fresh, Nothing, AskRight, WorkAskRight
<1>4. sess[p].items \subseteq ItemsOf(x)
  BY <1>3 DEF NextCandidates
<1>5. PICK i \in ItemsOf(x) \cup {0} :
        /\ claimed' = IF i = 0 THEN claimed ELSE claimed \cup {i}
        /\ told' = [told EXCEPT ![u.lab][x] = i]
  BY <1>1, <1>4 DEF Picks
<1>6. 0 \notin ItemsOf(x) /\ ItemsOf(x) \subseteq ItemIds
  BY ItemFacts
<1>7. /\ Told(told') /\ told'[u.lab][x] = i
      /\ \A k \in Labs \cup {NoLab} : k # u.lab => told'[k] = told[k]
      /\ \A s \in Samples : s # x => told'[u.lab][s] = told[u.lab][s]
  <2>1. PICK table, new, l : table = told /\ new = told' /\ l = u.lab
    OBVIOUS
  <2>2. Told(table) /\ l \in Labs \cup {NoLab} /\ ToldThen(new, table, l, x, i)
    BY <1>2, <1>5, <2>1 DEF Promised, ToldThen
  <2>3. /\ Told(new) /\ new[l][x] = i
        /\ \A k \in Labs \cup {NoLab} : k # l => new[k] = table[k]
        /\ \A s \in Samples : s # x => new[l][s] = table[l][s]
    BY <2>2, ToldChanged
  <2>4. QED
    BY <2>1, <2>3
<1>8. claimed' \subseteq ItemIds
  BY <1>5, <1>6 DEF Promised
<1>9. \A s : Present(s)' <=> Present(s)
  BY <1>0 DEF Present
<1>10. ASSUME NEW s \in Samples, s # x
       PROVE  claimed' \cap ItemsOf(s) = claimed \cap ItemsOf(s)
  BY <1>5, <1>10 DEF ItemsOf
<1>11. ASSUME NEW s \in Samples, s # x \/ u # Nobody
       PROVE  /\ told'[NoLab][s] \in ItemsOf(s) \cup {0}
              /\ ~Present(s)' => claimed' \cap ItemsOf(s) = {told'[NoLab][s]} \ {0}
              /\ Present(s)' => samples'[s].route[1] = Step(told'[NoLab][s])
  <2>1. told'[NoLab][s] = told[NoLab][s]
    <3>1. CASE u # Nobody
      BY <1>0, <1>3, <1>7, <3>1, PageAsksForPresent
    <3>2. CASE s # x
      BY <1>7, <3>2
    <3>3. QED
      BY <1>11, <3>1, <3>2
  <2>2. ~Present(s) => s # x
    BY <1>0, <1>3, <1>11, PageAsksForPresent
  <2>3. ~Present(s) => claimed' \cap ItemsOf(s) = claimed \cap ItemsOf(s)
    BY <1>10, <2>2
  <2>4. samples' = samples
    BY <1>0
  <2>5. QED
    BY <1>9, <2>1, <2>3, <2>4, PromiseKept
<1>12. ASSUME u = Nobody
       PROVE  /\ told'[NoLab][x] \in ItemsOf(x) \cup {0}
              /\ ~Present(x)' /\ claimed' \cap ItemsOf(x) = {told'[NoLab][x]} \ {0}
  <2>1. told[NoLab][x] = 0 /\ ~Present(x) /\ u.lab = NoLab
    BY <1>3, <1>12, IdleOk
  <2>2. claimed \cap ItemsOf(x) = {} /\ told'[NoLab][x] = i
    BY <1>7, <2>1 DEF Promised
  <2>3. CASE i = 0
    BY <1>5, <1>9, <2>1, <2>2, <2>3
  <2>4. CASE i # 0
    BY <1>5, <1>9, <2>1, <2>2, <2>4
  <2>5. QED
    BY <2>3, <2>4
<1>13. QED
  BY <1>7, <1>8, <1>11, <1>12 DEF Promised

(* A sample is delivered where its applicant was told.                     *)
LEMMA DeliveredPromised ==
  ASSUME Guided, Room # 0, RowsInv, Fresh, Promised, NEW p \in Sessions, sess[p].op = "deliver",
         NEW s \in Samples, ~Present(s), ItemsOf(s) # {}
  PROVE  Delivered(s, sess[p].found).route[1] = Step(told[NoLab][s])
<1>1. PICK i : i = told[NoLab][s]
  OBVIOUS
<1>2. sess[p].found = claimed /\ i # 0
  BY <1>1 DEF Fresh, Nothing, AskRight, SampleAskRight
<1>3. i \in ItemsOf(s) /\ claimed \cap ItemsOf(s) = {i}
  BY <1>1, <1>2 DEF Promised
<1>4. ItemsOf(s) \cap claimed = {i}
  BY <1>3
<1>5. First(ItemsOf(s) \cap claimed) \in ItemsOf(s) \cap claimed
      /\ DeliveryOrder(s, claimed)[1] = First(ItemsOf(s) \cap claimed)
  BY <1>4, DeliveryFacts
<1>6. DeliveryOrder(s, claimed)[1] = i
  BY <1>4, <1>5
<1>7. RouteOf(s, claimed)[1] = Step(DeliveryOrder(s, claimed)[1])
  BY RouteFacts
<1>8. Delivered(s, claimed).route = RouteOf(s, claimed)
  BY DeliveredFacts
<1>9. QED
  BY <1>1, <1>2, <1>6, <1>7, <1>8

(* With one request of the pages at a time the promise is kept.            *)
LEMMA PromisedHolds ==
  ASSUME Guided, Alone, Room # 0
  PROVE  Spec => []Promised
<1>1. ASSUME Init
      PROVE  Promised
  <2>1. told = [l \in Labs \cup {NoLab} |-> [s \in Samples |-> 0]] /\ claimed = {}
        /\ \A s \in Samples : ~Present(s)
    BY <1>1 DEF Init, Present, NoSample
  <2>2. Told(told)
    BY <2>1 DEF Told
  <2>3. QED
    BY <2>1, <2>2 DEF Promised
<1>2. ASSUME RowsInv, Fresh, Promised, [Next]_vars
      PROVE  Promised'
  <2>0. SampleRowsOk /\ SamplesChanged
    BY <1>2, StepFacts DEF RowsInv
  <2>1. \A p \in Sessions : sess[p].op = "next" => sess[p].items \subseteq ItemIds
    <3>1. ASSUME NEW p \in Sessions, sess[p].op = "next"
          PROVE  sess[p].items = NextCandidates(sess[p].s, wips, Mine(sess[p].s))
      BY <1>2, <3>1 DEF Fresh, Nothing, AskRight, WorkAskRight
    <3>2. QED
      BY <3>1, ItemFacts DEF NextCandidates
  <2>2. CASE \E p \in Sessions : Picks(p)
    BY <1>2, <2>2, AnswerPromised
  <2>3. CASE UNCHANGED <<claimed, told>>
    <3>1. ASSUME NEW s \in Samples
          PROVE  /\ told'[NoLab][s] \in ItemsOf(s) \cup {0}
                 /\ ~Present(s)' => claimed' \cap ItemsOf(s) = {told'[NoLab][s]} \ {0}
                 /\ Present(s)' => samples'[s].route[1] = Step(told'[NoLab][s])
      <4>1. CASE Present(s)' <=> Present(s)
        BY <1>2, <2>0, <2>3, <4>1, SampleKept, PromiseKept
      <4>2. CASE ~Present(s) /\ Present(s)'
        <5>1. PICK p \in Sessions : /\ sess[p].op = "deliver" /\ ItemsOf(s) # {}
                                    /\ samples'[s] = Delivered(s, sess[p].found)
          BY <2>0, <4>2, SampleKept
        <5>2. samples'[s].route[1] = Step(told[NoLab][s])
          BY <1>2, <4>2, <5>1, DeliveredPromised
        <5>3. QED
          BY <1>2, <2>3, <4>2, <5>2 DEF Promised
      <4>3. CASE Present(s) /\ ~Present(s)'
        BY <2>0, <4>3, SampleKept
      <4>4. QED
        BY <4>1, <4>2, <4>3
    <3>2. QED
      BY <1>2, <2>3, <3>1 DEF Promised
  <2>4. QED
    BY <1>2, <2>1, <2>2, <2>3, ClaimStep DEF Promised
<1>3. QED
  BY <1>1, <1>2, RowsHold, FreshHolds, PTL DEF Spec

(* With one request of the pages at a time, a sample starts in the         *)
(* laboratory its applicant was told to deliver it to: between the answer  *)
(* of dependency/next and the delivery nobody else claims an item of it,   *)
(* and a claim is not released (wip_service, order_repo).                  *)
THEOREM StartsWhereTold ==
  ASSUME Guided, Alone, Room # 0
  PROVE  Spec => []DeliveredWhereTold
<1>1. Promised => DeliveredWhereTold
  BY DEF Promised, DeliveredWhereTold
<1>2. QED
  BY <1>1, PromisedHolds, PTL

-----------------------------------------------------------------------------
(* The order of a dependency group.                                        *)

(* The items of other laboratories before those of experiment x are done.  *)
Led(s, x) ==
  \A i, j \in ItemsOf(s) :
    /\ Items[i].group = Items[j].group /\ Items[i].target < Items[j].target
    /\ Items[i].lab # Items[j].lab /\ SameExperiment(Items[j], x)
    => ItemDone(i, wips, Mine(s))

RequestLed(r) ==
  /\ r.op = "split" => \A x \in r.wanted : Led(r.s, x)
  /\ r.op = "generate" =>
       \A k \in r.items : Led(r.s, GroupedRoute(samples[r.s].route)[k])

(* What has a WIP is led; so is what a request is about to create.         *)
AllLed ==
  /\ \A w \in DOMAIN wips : Led(wips[w].sample, wips[w])
  /\ \A p \in Sessions : RequestLed(sess[p])

ExperimentsDiffer == \A s \in Samples : OnceEach(ItemsOf(s))

(* What the rows let a request create is led.                              *)
LEMMA CreatableLed ==
  ASSUME RoutesFit, ExperimentsDiffer, WipRowsOk, Written, NEW s \in Samples, Present(s),
         NEW k \in CreatableByGroup(samples[s].route, wips, Mine(s))
  PROVE  Led(s, GroupedRoute(samples[s].route)[k])
<1>1. PICK c : samples[s].route = RouteOf(s, c)
  BY DEF Written
<1>2. Names(RouteOf(s, c), ItemsOf(s))
  BY RouteFacts DEF RoutesFit
<1>3. PICK route, mine, S : route = samples[s].route /\ mine = Mine(s) /\ S = ItemsOf(s)
  OBVIOUS
<1>4. Names(route, S) /\ OnceEach(S) /\ S \in SUBSET ItemIds
  BY <1>1, <1>2, <1>3, ItemFacts DEF ExperimentsDiffer
<1>5. mine \in SUBSET Nat
  <2>1. PICK n \in Nat : DOMAIN wips = 1..n
    BY DEF WipRowsOk, IsList
  <2>2. QED
    BY <1>3, <2>1 DEF Mine
<1>6. ASSUME NEW i \in S, NEW j \in S, Items[i].group = Items[j].group,
             Items[i].target < Items[j].target, Items[i].lab # Items[j].lab,
             SameExperiment(Items[j], GroupedRoute(route)[k])
      PROVE  ItemDone(i, wips, mine)
  <2>1. k \in CreatableByGroup(route, wips, mine)
    BY <1>3
  <2>2. QED
    BY <1>4, <1>5, <1>6, <2>1, CreatableInOrder
<1>7. QED
  BY <1>3, <1>6 DEF Led

(* What passes the check of a split is led.                                *)
LEMMA WantedLed ==
  ASSUME RoutesFit, ExperimentsDiffer, SampleRowsOk, WipRowsOk, Written, NEW s \in Samples, Present(s),
         NEW wanted, CreateInOrder(samples[s].route, wips, Mine(s), wanted), NEW x \in wanted
  PROVE  Led(s, x)
<1>1. samples[s].route # <<>>
  <2>1. PICK i \in ItemsOf(s) : TRUE
    BY DEF Written
  <2>2. PICK k \in DOMAIN samples[s].route : TRUE
    BY <2>1, RouteNamesItems
  <2>3. DOMAIN <<>> = {}
    OBVIOUS
  <2>4. QED
    BY <2>2, <2>3
<1>2. PICK route, mine : route = samples[s].route /\ mine = Mine(s)
  OBVIOUS
<1>3. PICK open : open = CreatableByGroup(route, wips, mine)
  OBVIOUS
<1>4. open \in SUBSET Nat
  <2>1. IsList(route)
    BY <1>2 DEF SampleRowsOk, IsSample
  <2>2. QED
    BY <1>3, <2>1, CreatableFacts
<1>5. PICK them : them = {k \in open : SameExperiment(GroupedRoute(route)[k], x)}
  OBVIOUS
<1>6. First(them) # 0
  BY <1>1, <1>2, <1>3, <1>5 DEF CreateInOrder
<1>7. PICK k \in them : TRUE
  BY <1>6 DEF First
<1>8. k \in open /\ SameExperiment(GroupedRoute(route)[k], x)
  BY <1>5, <1>7
<1>9. Led(s, GroupedRoute(route)[k])
  BY <1>2, <1>3, <1>8, CreatableLed
<1>10. QED
  BY <1>8, <1>9 DEF Led, SameExperiment

(* What is led stays so, however the rows of experiment x are written.     *)
LEMMA LedStays ==
  ASSUME \A w : ~Reset(w), WipRowsOk, WipsChanged, NEW s, NEW x, NEW y, Led(s, x),
         y.lab = x.lab, y.exp = x.exp
  PROVE  Led(s, y)'
BY DoneKept DEF Led, SameExperiment

(* So it is with every step, as long as no WIP is reset.                   *)
LEMMA LedStep ==
  ASSUME RoutesFit, ExperimentsDiffer, RowsInv, \A w : ~Reset(w), Written, AllLed, [Next]_vars
  PROVE  AllLed'
<1>0. /\ SampleRowsOk /\ WipRowsOk /\ SamplesChanged /\ WipsChanged
      /\ SessOk /\ \A p \in Sessions : RequestOk(sess[p])
  BY StepFacts DEF RowsInv, SessOk
<1>1. ASSUME NEW s, NEW x, Led(s, x)
      PROVE  Led(s, x)'
  BY <1>0, <1>1, LedStays
<1>2. ASSUME NEW w \in DOMAIN wips'
      PROVE  Led(wips[w].sample, wips[w])'
  <2>1. CASE w \in DOMAIN wips
    <3>1. /\ wips'[w].sample = wips[w].sample /\ wips'[w].lab = wips[w].lab
          /\ wips'[w].exp = wips[w].exp
      BY <1>0, <2>1, WipKept
    <3>2. PICK s, x, y : s = wips[w].sample /\ x = wips[w] /\ y = wips'[w]
      OBVIOUS
    <3>3. Led(s, x) /\ y.lab = x.lab /\ y.exp = x.exp
      BY <2>1, <3>1, <3>2 DEF AllLed
    <3>4. Led(s, y)'
      BY <1>0, <3>3, LedStays
    <3>5. QED
      BY <3>1, <3>2, <3>4
  <2>2. CASE w \notin DOMAIN wips
    <3>1. NewRow(wips'[w])
      BY <1>0, <1>2, <2>2 DEF WipsChanged
    <3>2. PICK row : row = wips'[w]
      OBVIOUS
    <3>3. PICK p \in Sessions :
            /\ row.sample = sess[p].s
            /\ \/ /\ sess[p].op = "split"
                  /\ [lab |-> row.lab, exp |-> row.exp] \in ToCreate(sess[p].s, sess[p].wanted)
               \/ /\ sess[p].op = "generate"
                  /\ \E k \in sess[p].items :
                       LET step == GroupedRoute(samples[sess[p].s].route)[k]
                       IN row.lab = step.lab /\ row.exp = step.exp
      BY <3>1, <3>2 DEF NewRow
    <3>4. PICK x : Led(sess[p].s, x) /\ row.lab = x.lab /\ row.exp = x.exp
      <4>1. CASE sess[p].op = "split" /\ [lab |-> row.lab, exp |-> row.exp] \in ToCreate(sess[p].s, sess[p].wanted)
        <5>1. PICK x \in sess[p].wanted : x = [lab |-> row.lab, exp |-> row.exp]
          BY <4>1 DEF ToCreate
        <5>2. QED
          BY <4>1, <5>1 DEF AllLed, RequestLed
      <4>2. ASSUME sess[p].op = "generate", NEW k \in sess[p].items,
                   row.lab = GroupedRoute(samples[sess[p].s].route)[k].lab,
                   row.exp = GroupedRoute(samples[sess[p].s].route)[k].exp
            PROVE  \E x : Led(sess[p].s, x) /\ row.lab = x.lab /\ row.exp = x.exp
        BY <4>2 DEF AllLed, RequestLed
      <4>3. QED
        BY <3>3, <4>1, <4>2
    <3>5. PICK s : s = sess[p].s
      OBVIOUS
    <3>6. Led(s, row)'
      BY <1>0, <3>4, <3>5, LedStays
    <3>7. QED
      BY <3>2, <3>3, <3>5, <3>6
  <2>3. QED
    BY <2>1, <2>2
<1>3. ASSUME NEW r, RequestOk(r), RequestLed(r)
      PROVE  RequestLed(r)'
  <2>1. r.op = "split" => \A x \in r.wanted : Led(r.s, x)'
    BY <1>1, <1>3 DEF RequestLed
  <2>2. ASSUME r.op = "generate", NEW k \in r.items
        PROVE  Led(r.s, GroupedRoute(samples[r.s].route)[k])'
    <3>1. r.s \in Samples /\ Present(r.s)
      BY <1>3, <2>2 DEF RequestOk, OfSampleOps
    <3>2. samples'[r.s].route = samples[r.s].route
      BY <1>0, <3>1, SampleKept
    <3>3. PICK x : x = GroupedRoute(samples[r.s].route)[k]
      OBVIOUS
    <3>4. Led(r.s, x)
      BY <1>3, <2>2, <3>3 DEF RequestLed
    <3>5. Led(r.s, x)'
      BY <1>1, <3>4
    <3>6. x = GroupedRoute(samples'[r.s].route)[k]
      BY <3>2, <3>3
    <3>7. QED
      BY <3>5, <3>6
  <2>3. QED
    BY <2>1, <2>2 DEF RequestLed
<1>4. ASSUME NEW r, RequestOk(r), AskRight(r)
      PROVE  RequestLed(r)
  <2>1. CASE r.op = "split"
    <3>1. /\ r.s \in Samples /\ Present(r.s)
          /\ CreateInOrder(samples[r.s].route, wips, Mine(r.s), r.wanted)
      BY <1>4, <2>1 DEF RequestOk, OfSampleOps, AskRight, SampleAskRight
    <3>2. \A x \in r.wanted : Led(r.s, x)
      BY <1>0, <3>1, WantedLed
    <3>3. QED
      BY <2>1, <3>2 DEF RequestLed
  <2>2. CASE r.op = "generate"
    <3>1. /\ r.s \in Samples /\ Present(r.s)
          /\ r.items = CreatableByGroup(samples[r.s].route, wips, Mine(r.s))
      BY <1>4, <2>2 DEF RequestOk, OfSampleOps, AskRight, SampleAskRight
    <3>2. \A k \in r.items : Led(r.s, GroupedRoute(samples[r.s].route)[k])
      BY <1>0, <3>1, CreatableLed
    <3>3. QED
      BY <2>2, <3>2 DEF RequestLed
  <2>3. QED
    BY <2>1, <2>2 DEF RequestLed
<1>5. ASSUME NEW p \in Sessions, NEW r, sess' = [sess EXCEPT ![p] = r], RequestOk(r), RequestLed(r)
      PROVE  \A q \in Sessions : RequestLed(sess[q])'
  <2>1. ASSUME NEW q \in Sessions
        PROVE  RequestLed(sess[q])'
    <3>1. PICK a : a = sess'[q]
      OBVIOUS
    <3>2. a = r \/ a = sess[q]
      BY <1>0, <1>5, <3>1 DEF SessOk
    <3>3. RequestOk(a) /\ RequestLed(a)
      BY <1>0, <1>5, <3>2 DEF AllLed
    <3>4. RequestLed(a)'
      BY <1>3, <3>3
    <3>5. QED
      BY <3>1, <3>4
  <2>2. QED
    BY <2>1
<1>6. \A q \in Sessions : RequestLed(sess[q])'
  <2>1. ASSUME NEW p \in Sessions, Asks(p)
        PROVE  \A q \in Sessions : RequestLed(sess[q])'
    <3>1. PICK r : RequestOk(r) /\ AskRight(r) /\ sess' = [sess EXCEPT ![p] = r]
      BY <2>1 DEF Asks
    <3>2. QED
      BY <1>4, <1>5, <3>1
  <2>2. ASSUME NEW p \in Sessions, Answers(p)
        PROVE  \A q \in Sessions : RequestLed(sess[q])'
    <3>1. PICK r : RequestOk(r) /\ r.op \in Nothing /\ sess' = [sess EXCEPT ![p] = r]
      BY <2>2 DEF Answers, Left
    <3>2. RequestLed(r)
      BY <3>1 DEF Nothing, RequestLed
    <3>3. QED
      BY <1>5, <3>1, <3>2
  <2>3. CASE UNCHANGED vars
    <3>1. ASSUME NEW q \in Sessions
          PROVE  RequestLed(sess[q])'
      <4>1. PICK a : a = sess[q]
        OBVIOUS
      <4>2. RequestLed(a)'
        BY <1>0, <1>3, <4>1 DEF AllLed
      <4>3. a = sess'[q]
        BY <2>3, <4>1 DEF vars
      <4>4. QED
        BY <4>2, <4>3
    <3>2. QED
      BY <3>1
  <2>4. QED
    BY <2>1, <2>2, <2>3, StepKinds
<1>7. QED
  BY <1>2, <1>6 DEF AllLed

(* What is led is in order.                                                *)
LEMMA LedInOrder == AllLed => InDependencyOrder
BY DEF AllLed, Led, InDependencyOrder, Mine

(* In a dependency group a laboratory has a WIP only when the items of     *)
(* other laboratories before its own are completed, however requests       *)
(* overlap and whoever makes them: completed WIPs stay completed, a route  *)
(* that fits its column names every item, and sorts a group by its targets *)
(* (validate_wip_create_items_in_order, routes/others.py).                 *)
THEOREM GroupsInOrder ==
  ASSUME RoutesFit, ExperimentsDiffer, NoReset
  PROVE  Spec => []InDependencyOrder
<1>1. ASSUME Init
      PROVE  AllLed
  BY <1>1 DEF Init, AllLed, RequestLed, Idle
<1>2. ASSUME RowsInv, OpsOk, Written, AllLed, [Next]_vars
      PROVE  AllLed'
  <2>1. \A w : ~Reset(w)
    BY <1>2 DEF Reset, OpsOk, NoReset
  <2>2. QED
    BY <1>2, <2>1, LedStep
<1>3. AllLed => InDependencyOrder
  BY LedInOrder
<1>4. QED
  BY <1>1, <1>2, <1>3, RowsHold, OpsHold, WrittenHolds, PTL DEF Spec

-----------------------------------------------------------------------------
(* Where a sample is, with one request of the pages at a time.             *)

(* Staff of laboratories, one request at a time.                           *)
PagesAlone == Guided /\ Patient /\ Alone /\ \A u \in Staff : u.role # "admin"

Active(s) == ActiveTransfers("sample", s)

(* Open WIPs are where the sample is, and keep it there.                   *)
WipsHere(s) ==
  \A w \in IncompleteWips(s) :
    /\ Active(s) = {} /\ wips[w].lab = samples[s].at.lab /\ wips[w].status # "created"
    /\ \/ samples[s].status \in {"split", "pending_transfer"}
       \/ samples[s].status = "terminated" /\ wips[w].status = "terminated"

TransfersHere(s) ==
  /\ \A t, u \in Active(s) : t = u
  /\ \A t \in Active(s) :
       /\ samples[s].status \notin {"outbound", "picked_up"}
       /\ transfers[t].status = "pending" =>
            samples[s].at.lab = transfers[t].from /\ samples[s].status # "pending_receive"
       /\ transfers[t].status = "transferring" =>
            /\ samples[s].at = At(transfers[t].to, "receive")
            /\ samples[s].status = "pending_receive"

HistoryHere(s) ==
  \/ samples[s].log = samples[s].status
  \/ samples[s].log = "pending_transfer" /\ samples[s].status = "split"

Steady(s) == WipsHere(s) /\ TransfersHere(s) /\ HistoryHere(s)

(* A run has just ended where the sample is.                               *)
RunJustEnded(r) ==
  r.op \in {"advance", "withdraw"} =>
    /\ Active(r.s) = {} /\ wips[r.w].lab = samples[r.s].at.lab
    /\ samples[r.s].status \in {"split", "pending_transfer"}

AllSteady ==
  (\A s \in Samples : Steady(s)) /\ (\A p \in Sessions : RunJustEnded(sess[p]))

(* The rows about a sample are as they were, but for the places of WIPs    *)
(* and what has been completed.                                            *)
SameWips(s) ==
  \A w \in IncompleteWips(s)' :
    w \in IncompleteWips(s) /\ wips'[w].lab = wips[w].lab /\ wips'[w].status = wips[w].status

SameTransfers(s) ==
  Active(s)' = Active(s) /\ \A t \in Active(s) : transfers'[t] = transfers[t]

(* Then it is as steady as it was.                                         *)
LEMMA SteadyKept ==
  ASSUME NEW s, Steady(s), samples'[s] = samples[s], SameWips(s), SameTransfers(s)
  PROVE  Steady(s)'
<1>1. WipsHere(s)'
  BY DEF Steady, WipsHere, SameWips, SameTransfers
<1>2. TransfersHere(s)'
  BY DEF Steady, TransfersHere, SameTransfers
<1>3. HistoryHere(s)'
  BY DEF Steady, HistoryHere
<1>4. QED
  BY <1>1, <1>2, <1>3 DEF Steady

(* One sample changes.                                                     *)
LEMMA OneSampleSteady ==
  ASSUME SampleRowsOk, NEW x \in Samples, NEW row, samples' = [samples EXCEPT ![x] = row],
         \A s \in Samples : Steady(s),
         \A s \in Samples : s # x => SameWips(s) /\ SameTransfers(s),
         samples'[x] = row => Steady(x)'
  PROVE  \A s \in Samples : Steady(s)'
<1>1. samples'[x] = row /\ \A s \in Samples : s # x => samples'[s] = samples[s]
  BY DEF SampleRowsOk
<1>2. QED
  BY <1>1, SteadyKept

(* WIPs that stay, or are only moved.                                      *)
LEMMA WipsStay ==
  ASSUME WipRowsOk, NEW place \in Places, NEW s, NEW lab,
         \/ wips' = wips
         \/ wips' = LabWipsMoved(wips, s, lab, place)
         \/ wips' = AllWipsMoved(wips, s, place)
  PROVE  \A x : SameWips(x)
<1>1. DOMAIN wips' = DOMAIN wips
  BY DEF LabWipsMoved, AllWipsMoved
<1>2. ASSUME NEW w \in DOMAIN wips
      PROVE  /\ wips'[w].sample = wips[w].sample /\ wips'[w].lab = wips[w].lab
             /\ wips'[w].status = wips[w].status
  <2>1. wips'[w] = wips[w] \/ wips'[w] = Moved(wips[w], place)
    BY DEF LabWipsMoved, AllWipsMoved
  <2>2. IsWip(wips[w]) /\ wips[w].status \in WipStatuses
    BY DEF WipRowsOk, IsWip
  <2>3. Moved(wips[w], place) = WipRow(wips[w], wips[w].status, place)
    BY <2>2, WipForms
  <2>4. QED
    BY <2>1, <2>3 DEF WipRow
<1>3. QED
  BY <1>1, <1>2 DEF SameWips, IncompleteWips, Mine

(* Transfers that stay.                                                    *)
LEMMA TransfersStay ==
  ASSUME UNCHANGED transfers
  PROVE  \A s : SameTransfers(s)
BY DEF SameTransfers, Active, ActiveTransfers

(* One transfer gets a status.                                             *)
LEMMA OneTransferChanged ==
  ASSUME TransferRowsOk, NEW t \in DOMAIN transfers, NEW st,
         transfers' = [transfers EXCEPT ![t] = TransferWith(transfers[t], st)]
  PROVE  /\ DOMAIN transfers' = DOMAIN transfers
         /\ \A u \in DOMAIN transfers : u # t => transfers'[u] = transfers[u]
         /\ transfers'[t] = TransferWith(transfers[t], st)
         /\ \A s : ~OfSample(t, s) => SameTransfers(s)
<1>1. /\ DOMAIN transfers' = DOMAIN transfers
      /\ \A u \in DOMAIN transfers : u # t => transfers'[u] = transfers[u]
      /\ transfers'[t] = TransferWith(transfers[t], st)
  BY DEF TransferRowsOk, IsList
<1>2. ASSUME NEW s, ~OfSample(t, s)
      PROVE  SameTransfers(s)
  <2>1. t \notin Active(s) /\ t \notin Active(s)'
    BY <1>1, <1>2 DEF OfSample, Active, ActiveTransfers, TransferWith
  <2>2. \A u : u # t => (u \in Active(s)' <=> u \in Active(s))
    BY <1>1 DEF Active, ActiveTransfers
  <2>3. \A u : u \in Active(s)' <=> u \in Active(s)
    BY <2>1, <2>2
  <2>4. Active(s)' = Active(s)
    <3>1. PICK A, B : A = Active(s)' /\ B = Active(s)
      OBVIOUS
    <3>2. \A u : u \in A <=> u \in B
      BY <2>3, <3>1
    <3>3. A = B
      BY <3>2
    <3>4. QED
      BY <3>1, <3>3
  <2>5. \A u \in Active(s) : transfers'[u] = transfers[u]
    BY <1>1, <2>1 DEF Active, ActiveTransfers
  <2>6. QED
    BY <2>4, <2>5 DEF SameTransfers
<1>3. QED
  BY <1>1, <1>2

-----------------------------------------------------------------------------
(* Every handler keeps the samples steady.                                 *)

(* What the proofs about handlers start from.                              *)
Pages ==
  /\ RowsInv /\ SampleRowsOk /\ WipRowsOk /\ TransferRowsOk
  /\ \A p \in Sessions : RequestOk(sess[p]) /\ sess[p].by.lab \in Labs \cup {NoLab}
  /\ \A s \in Samples : IsSample(samples[s])
  /\ Fresh /\ AllSteady

(* A sample is received.                                                   *)
LEMMA ReceiveSteady ==
  ASSUME PagesAlone, Pages, NEW p \in Sessions, Receive(p)
  PROVE  \A s \in Samples : Steady(s)'
<1>0. sess[p].op = "receive" /\ AskRight(sess[p])
  BY DEF Receive, Pages, Fresh, Nothing
<1>a. PICK x \in Samples : x = sess[p].s
  BY <1>0 DEF Pages, RequestOk, OfSampleOps
<1>b. PICK lab \in Labs \cup {NoLab} : lab = sess[p].by.lab
  BY DEF Pages
<1>c. PICK place \in Places : place = At(lab, "temp")
  BY PlaceFacts DEF Areas
<1>1. x = sess[p].s /\ lab = sess[p].by.lab /\ place = At(lab, "temp")
  BY <1>a, <1>b, <1>c
<1>2. samples[x].status = "pending_receive" /\ samples[x].at.lab = lab
  BY <1>0, <1>1 DEF PagesAlone, AskRight, SampleAskRight, PageReceives, InLab
<1>3. IncompleteWips(x) = {} /\ \A t \in Active(x) : transfers[t].status = "transferring" /\ transfers[t].to = lab
  <2>1. Steady(x)
    BY DEF Pages, AllSteady
  <2>2. IncompleteWips(x) = {}
    BY <1>2, <2>1 DEF Steady, WipsHere
  <2>3. ASSUME NEW t \in Active(x)
        PROVE  transfers[t].status = "transferring" /\ transfers[t].to = lab
    <3>1. transfers[t].status \in {"pending", "transferring"}
      BY DEF Active, ActiveTransfers
    <3>2. transfers[t].status = "transferring" /\ samples[x].at = At(transfers[t].to, "receive")
      BY <1>2, <2>1, <3>1 DEF Steady, TransfersHere
    <3>3. QED
      BY <1>2, <3>2 DEF At
  <2>4. QED
    BY <2>2, <2>3
<1>4. \A s : SameWips(s)
  <2>1. wips' = LabWipsMoved(wips, x, lab, place)
    BY <1>1 DEF Receive
  <2>2. QED
    BY <2>1, WipsStay DEF Pages
<1>5. /\ DOMAIN transfers' = DOMAIN transfers
      /\ \A t \in DOMAIN transfers :
           IF OfSample(t, x) /\ transfers[t].to = lab /\ transfers[t].status = "transferring"
           THEN transfers'[t] = TransferWith(transfers[t], "received")
           ELSE transfers'[t] = transfers[t]
  <2>1. transfers' = TransfersReceived(x, lab)
    BY <1>1 DEF Receive
  <2>2. ASSUME NEW t \in DOMAIN transfers
        PROVE  [transfers[t] EXCEPT !.status = "received"] = TransferWith(transfers[t], "received")
    BY TransferForms DEF Pages, TransferRowsOk
  <2>3. DOMAIN transfers' = DOMAIN transfers
    BY <2>1 DEF TransfersReceived
  <2>4. \A t \in DOMAIN transfers :
          IF OfSample(t, x) /\ transfers[t].to = lab /\ transfers[t].status = "transferring"
          THEN transfers'[t] = [transfers[t] EXCEPT !.status = "received"]
          ELSE transfers'[t] = transfers[t]
    BY <2>1 DEF TransfersReceived
  <2>5. QED
    BY <2>2, <2>3, <2>4
<1>6. Active(x)' = {}
  <2>1. ASSUME NEW t \in Active(x)'
        PROVE  FALSE
    <3>1. /\ t \in DOMAIN transfers /\ transfers'[t].kind = "sample" /\ transfers'[t].of = x
          /\ transfers'[t].status \in {"pending", "transferring"}
      BY <1>5, <2>1 DEF Active, ActiveTransfers
    <3>2. CASE OfSample(t, x) /\ transfers[t].to = lab /\ transfers[t].status = "transferring"
      BY <1>5, <3>1, <3>2 DEF TransferWith
    <3>3. CASE ~(OfSample(t, x) /\ transfers[t].to = lab /\ transfers[t].status = "transferring")
      <4>1. transfers'[t] = transfers[t]
        BY <1>5, <3>1, <3>3
      <4>2. t \in Active(x)
        BY <3>1, <4>1 DEF Active, ActiveTransfers
      <4>3. OfSample(t, x)
        BY <3>1, <4>1 DEF OfSample
      <4>4. QED
        BY <1>3, <3>3, <4>2, <4>3
    <3>4. QED
      BY <3>2, <3>3
  <2>2. QED
    BY <2>1
<1>7. ASSUME NEW s \in Samples, s # x
      PROVE  SameTransfers(s)
  <2>1. ASSUME NEW t \in DOMAIN transfers
        PROVE  /\ t \in Active(s)' <=> t \in Active(s)
               /\ t \in Active(s) => transfers'[t] = transfers[t]
    <3>1. CASE OfSample(t, x) /\ transfers[t].to = lab /\ transfers[t].status = "transferring"
      BY <1>5, <1>7, <3>1 DEF TransferWith, OfSample, Active, ActiveTransfers
    <3>2. CASE ~(OfSample(t, x) /\ transfers[t].to = lab /\ transfers[t].status = "transferring")
      BY <1>5, <3>2 DEF Active, ActiveTransfers
    <3>3. QED
      BY <3>1, <3>2
  <2>2. PICK A, B : A = Active(s)' /\ B = Active(s)
    OBVIOUS
  <2>3. A \subseteq DOMAIN transfers /\ B \subseteq DOMAIN transfers
    BY <1>5, <2>2 DEF Active, ActiveTransfers
  <2>4. A = B
    BY <2>1, <2>2, <2>3
  <2>5. QED
    BY <2>1, <2>2, <2>3, <2>4 DEF SameTransfers
<1>8. PICK row : row = SampleWith(samples[x], "received", place, "received")
  OBVIOUS
<1>9. samples' = [samples EXCEPT ![x] = row]
  <2>1. Logged(AsReceived(samples[x], place), "received") = row
    BY <1>8, SampleForms DEF Pages, SampleStatuses
  <2>2. QED
    BY <1>1, <2>1 DEF Receive
<1>10. ASSUME samples'[x] = row
       PROVE  Steady(x)'
  <2>1. IncompleteWips(x)' = {}
    BY <1>3, <1>4 DEF SameWips
  <2>2. samples'[x].log = samples'[x].status
    BY <1>8, <1>10 DEF SampleWith
  <2>3. QED
    BY <1>6, <2>1, <2>2 DEF Steady, WipsHere, TransfersHere, HistoryHere
<1>11. QED
  BY <1>4, <1>7, <1>9, <1>10, OneSampleSteady DEF Pages, AllSteady

(* Rows that stay.                                                         *)
LEMMA NothingMoves ==
  ASSUME UNCHANGED <<wips, transfers>>
  PROVE  \A s : SameWips(s) /\ SameTransfers(s)
BY TransfersStay DEF SameWips, IncompleteWips, Mine

(* A sample without open WIPs and transfers.                               *)
LEMMA QuietSteady ==
  ASSUME NEW s, IncompleteWips(s)' = {}, Active(s)' = {}, samples'[s].log = samples'[s].status
  PROVE  Steady(s)'
BY DEF Steady, WipsHere, TransfersHere, HistoryHere

(* Such a sample gets a status, and keeps having none.                     *)
LEMMA QuietStays ==
  ASSUME Pages, NEW x \in Samples, NEW row, samples' = [samples EXCEPT ![x] = row],
         row.log = row.status, IncompleteWips(x) = {}, Active(x) = {},
         \A s : SameWips(s), UNCHANGED transfers
  PROVE  \A s \in Samples : Steady(s)'
<1>1. \A s : SameTransfers(s)
  BY TransfersStay
<1>2. ASSUME samples'[x] = row
      PROVE  Steady(x)'
  <2>1. IncompleteWips(x)' = {}
    BY DEF SameWips
  <2>2. Active(x)' = {}
    BY <1>1 DEF SameTransfers
  <2>3. QED
    BY <1>2, <2>1, <2>2, QuietSteady
<1>3. SampleRowsOk /\ \A s \in Samples : Steady(s)
  BY DEF Pages, AllSteady
<1>4. QED
  BY <1>1, <1>2, <1>3, OneSampleSteady

(* The samples of an order are delivered.                                  *)
LEMMA DeliverSteady ==
  ASSUME Pages, NEW p \in Sessions, Deliver(p)
  PROVE  \A s \in Samples : Steady(s)'
<1>1. /\ UNCHANGED <<wips, transfers>>
      /\ samples' = [s \in Samples |-> IF Present(s) \/ ItemsOf(s) = {} THEN samples[s]
                                       ELSE Delivered(s, sess[p].found)]
  BY DEF Deliver
<1>2. \A s : SameWips(s) /\ SameTransfers(s)
  BY <1>1, NothingMoves
<1>3. ASSUME NEW s \in Samples
      PROVE  Steady(s)'
  <2>1. CASE samples'[s] = samples[s]
    BY <1>2, <2>1, SteadyKept DEF Pages, AllSteady
  <2>2. CASE ~Present(s) /\ ItemsOf(s) # {} /\ samples'[s] = Delivered(s, sess[p].found)
    <3>1. Mine(s) = {} /\ Active(s) = {}
      BY <2>2 DEF Pages, WipRowsOk, TransferRowsOk, Mine, Active, ActiveTransfers
    <3>2. IncompleteWips(s)' = {} /\ Active(s)' = {}
      BY <1>2, <3>1 DEF SameWips, SameTransfers, IncompleteWips
    <3>3. samples'[s].log = samples'[s].status
      BY <2>2, DeliveredFacts
    <3>4. QED
      BY <3>2, <3>3, QuietSteady
  <2>3. QED
    BY <1>1, <2>1, <2>2
<1>4. QED
  BY <1>3

(* A sample is announced for pickup.                                       *)
LEMMA OutboundSteady ==
  ASSUME Pages, NEW p \in Sessions, Outbound(p)
  PROVE  \A s \in Samples : Steady(s)'
<1>0. sess[p].op = "outbound" /\ AskRight(sess[p])
  BY DEF Outbound, Pages, Fresh, Nothing
<1>1. PICK x \in Samples : x = sess[p].s
  BY <1>0 DEF Pages, RequestOk, OfSampleOps
<1>2. PICK lab \in Labs \cup {NoLab} : lab = sess[p].by.lab
  BY DEF Pages
<1>3. PICK place \in Places : place = At(lab, "pickup")
  BY PlaceFacts DEF Areas
<1>4. IncompleteWips(x) = {} /\ Active(x) = {}
  BY <1>0, <1>1 DEF AskRight, SampleAskRight, RouteCompleted, SampleUnderWay, Active
<1>5. \A s : SameWips(s)
  <2>1. wips' = AllWipsMoved(wips, x, place)
    BY <1>1, <1>2, <1>3 DEF Outbound
  <2>2. QED
    BY <2>1, WipsStay DEF Pages
<1>6. PICK row : row = SampleWith(samples[x], "outbound", place, "outbound")
  OBVIOUS
<1>7. samples' = [samples EXCEPT ![x] = row]
  <2>1. Logged(AsOutbound(samples[x], place), "outbound") = row
    BY <1>6, SampleForms DEF Pages, SampleStatuses
  <2>2. QED
    BY <1>1, <1>2, <1>3, <2>1 DEF Outbound
<1>8. row.log = row.status
  BY <1>6 DEF SampleWith
<1>9. QED
  BY <1>4, <1>5, <1>7, <1>8, QuietStays DEF Outbound

(* A sample is picked up.                                                  *)
LEMMA PickupSteady ==
  ASSUME Pages, NEW p \in Sessions, ConfirmPickup(p)
  PROVE  \A s \in Samples : Steady(s)'
<1>0. sess[p].op = "pickup" /\ AskRight(sess[p])
  BY DEF ConfirmPickup, Pages, Fresh, Nothing
<1>1. PICK x \in Samples : x = sess[p].s
  BY <1>0 DEF Pages, RequestOk, OfSampleOps
<1>2. PICK place \in Places : place = At(NoLab, "with_applicant")
  BY PlaceFacts DEF Areas
<1>3. samples[x].status = "outbound" /\ Steady(x)
  BY <1>0, <1>1 DEF AskRight, SampleAskRight, Pages, AllSteady
<1>4. IncompleteWips(x) = {} /\ Active(x) = {}
  BY <1>3 DEF Steady, WipsHere, TransfersHere
<1>5. \A s : SameWips(s)
  <2>1. wips' = AllWipsMoved(wips, x, place)
    BY <1>1, <1>2 DEF ConfirmPickup
  <2>2. QED
    BY <2>1, WipsStay DEF Pages
<1>6. PICK row : row = SampleWith(samples[x], "picked_up", place, "picked_up")
  OBVIOUS
<1>7. samples' = [samples EXCEPT ![x] = row]
  <2>1. Logged(AsPickedUp(samples[x], place), "picked_up") = row
    BY <1>6, SampleForms DEF Pages, SampleStatuses
  <2>2. QED
    BY <1>1, <1>2, <2>1 DEF ConfirmPickup
<1>8. row.log = row.status
  BY <1>6 DEF SampleWith
<1>9. QED
  BY <1>4, <1>5, <1>7, <1>8, QuietStays DEF ConfirmPickup

(* What a page offers to split is for its own laboratory.                  *)
LEMMA FormsHere ==
  ASSUME NEW u, NEW s, IsList(samples[s].route), NEW x \in PageForms(u, s)
  PROVE  x.lab = u.lab
<1> DEFINE route == samples[s].route
           Ranked(j, k) == /\ route[j].group = route[k].group
                           /\ \/ route[j].target < route[k].target
                              \/ route[j].target = route[k].target /\ j <= k
<1>1. PICK k \in DOMAIN route :
        /\ SameExperiment(route[k], x)
        /\ \E f \in DOMAIN route :
             /\ Ranked(f, k)
             /\ \A j \in DOMAIN route : Ranked(f, j) /\ Ranked(j, k) => route[j].lab = u.lab
  BY DEF PageForms
<1>2. k <= k
  BY <1>1 DEF IsList
<1>3. Ranked(k, k)
  BY <1>2
<1> HIDE DEF Ranked
<1>4. route[k].lab = u.lab
  BY <1>1, <1>3
<1>5. QED
  BY <1>1, <1>4 DEF SameExperiment

(* WIPs of a sample are created.                                           *)
LEMMA SplitSteady ==
  ASSUME PagesAlone, Pages, NEW p \in Sessions, Split(p)
  PROVE  \A s \in Samples : Steady(s)'
<1>0. sess[p].op = "split" /\ AskRight(sess[p])
  BY DEF Split, Pages, Fresh, Nothing
<1>1. PICK x \in Samples : x = sess[p].s
  BY <1>0 DEF Pages, RequestOk, OfSampleOps
<1>2. PICK lab \in Labs \cup {NoLab} : lab = sess[p].by.lab
  BY DEF Pages
<1>3. PICK place \in Places : place = At(lab, "temp")
  BY PlaceFacts DEF Areas
<1>4. PICK wanted : wanted = sess[p].wanted
  OBVIOUS
<1>5. /\ wanted \subseteq PageForms(sess[p].by, x) /\ Active(x) = {} /\ samples[x].at.lab = lab
  BY <1>0, <1>1, <1>2, <1>4
     DEF AskRight, SampleAskRight, PagesAlone, PageSplits, InLab, SampleUnderWay, Active
<1>6. \A e \in wanted : e.lab = lab
  <2>1. IsList(samples[x].route)
    BY DEF Pages, IsSample
  <2>2. QED
    BY <1>2, <1>5, <2>1, FormsHere
<1>7. PICK missing : missing = ToCreate(x, wanted) /\ missing \in SUBSET Experiments
  <2>1. wanted \subseteq Experiments
    BY <1>4 DEF Pages, RequestOk, IsRequest
  <2>2. QED
    BY <2>1 DEF ToCreate
<1>8. PICK new : new = SplitRows(x, missing, place) /\ RowsOfSplit(new, x, missing, place)
  BY <1>7, SplitRowsFacts DEF Pages
<1>9. PICK N \in Nat :
        /\ new = [n \in 1..N |-> new[n]]
        /\ \A n \in 1..N : /\ IsWip(new[n]) /\ new[n].sample = x
                            /\ new[n].status = "waiting_schedule" /\ new[n].lab = lab
                            /\ NewRow(new[n])
  <2>1. PICK N \in Nat :
          /\ new = [n \in 1..N |-> new[n]]
          /\ \A n \in 1..N : /\ IsWip(new[n]) /\ new[n].sample = x
                              /\ new[n].status = "waiting_schedule"
                              /\ [lab |-> new[n].lab, exp |-> new[n].exp] \in missing
    BY <1>8 DEF RowsOfSplit
  <2>2. ASSUME NEW n \in 1..N
        PROVE  new[n].lab = lab
    <3>1. PICK e : e = [lab |-> new[n].lab, exp |-> new[n].exp] /\ e \in wanted
      BY <1>7, <2>1 DEF ToCreate
    <3>2. QED
      BY <1>6, <3>1
  <2>3. Present(x)
    BY <1>0, <1>1 DEF Pages, RequestOk, OfSampleOps
  <2>4. \A n \in 1..N : NewRow(new[n])
    BY <1>0, <1>1, <1>4, <1>7, <2>1, <2>3 DEF NewRow, ToCreate
  <2>5. QED
    BY <2>1, <2>2, <2>4
<1>10. Added(new, N)
  <2>1. wips' = wips \o new
    BY <1>1, <1>2, <1>3, <1>4, <1>7, <1>8 DEF Split
  <2>2. QED
    BY <1>9, <2>1, RowsAdded DEF Pages
<1>11. ASSUME NEW s, NEW w \in IncompleteWips(s)', w \notin IncompleteWips(s)
       PROVE  s = x /\ wips'[w].lab = lab /\ wips'[w].status = "waiting_schedule"
  <2>1. w \in DOMAIN wips' /\ wips'[w].sample = s /\ wips'[w].status # "completed"
    BY <1>11 DEF IncompleteWips, Mine
  <2>2. w \notin DOMAIN wips
    BY <1>10, <1>11, <2>1 DEF Added, IncompleteWips, Mine
  <2>3. PICK i \in 1..N : wips'[w] = new[i]
    BY <1>10, <2>1, <2>2 DEF Added
  <2>4. QED
    BY <1>9, <2>1, <2>3
<1>12. ASSUME NEW s, NEW w \in IncompleteWips(s)
       PROVE  wips'[w] = wips[w]
  BY <1>10, <1>12 DEF Added, IncompleteWips, Mine
<1>13. \A s : SameTransfers(s)
  BY TransfersStay DEF Split
<1>14. \A s : s # x => SameWips(s)
  BY <1>11, <1>12 DEF SameWips
<1>15. PICK row : row = SampleWith(samples[x], "split", place, "split")
  OBVIOUS
<1>16. samples' = [samples EXCEPT ![x] = row]
  <2>1. Logged(AsSplit(samples[x], place), "split") = row
    BY <1>15, SampleForms DEF Pages, SampleStatuses
  <2>2. QED
    BY <1>1, <1>2, <1>3, <2>1 DEF Split
<1>17. ASSUME samples'[x] = row
       PROVE  Steady(x)'
  <2>1. /\ samples'[x].status = "split" /\ samples'[x].log = "split"
        /\ samples'[x].at.lab = lab
    BY <1>3, <1>15, <1>17, PlaceFacts DEF SampleWith, Areas
  <2>2. Active(x)' = {}
    BY <1>5, <1>13 DEF SameTransfers
  <2>3. ASSUME NEW w \in IncompleteWips(x)'
        PROVE  wips'[w].lab = lab /\ wips'[w].status # "created"
    <3>1. CASE w \in IncompleteWips(x)
      <4>1. wips[w].lab = lab /\ wips[w].status # "created"
        BY <1>5, <3>1 DEF Pages, AllSteady, Steady, WipsHere
      <4>2. QED
        BY <1>12, <3>1, <4>1
    <3>2. CASE w \notin IncompleteWips(x)
      BY <1>11, <3>2
    <3>3. QED
      BY <3>1, <3>2
  <2>4. QED
    BY <2>1, <2>2, <2>3 DEF Steady, WipsHere, TransfersHere, HistoryHere
<1>18. QED
  BY <1>13, <1>14, <1>16, <1>17, OneSampleSteady DEF Pages, AllSteady

(* One WIP of the list is moved.                                           *)
LEMMA OneWipMoved ==
  ASSUME WipRowsOk, NEW place \in Places, NEW of \in DOMAIN wips,
         wips' = [wips EXCEPT ![of] = Moved(@, place)]
  PROVE  \A s : SameWips(s)
<1>1. DOMAIN wips' = DOMAIN wips /\ wips'[of] = Moved(wips[of], place)
      /\ \A w \in DOMAIN wips : w # of => wips'[w] = wips[w]
  BY DEF WipRowsOk, IsList
<1>2. Moved(wips[of], place) = WipRow(wips[of], wips[of].status, place)
  <2>1. IsWip(wips[of]) /\ wips[of].status \in WipStatuses
    BY DEF WipRowsOk, IsWip
  <2>2. QED
    BY <2>1, WipForms
<1>3. ASSUME NEW w \in DOMAIN wips
      PROVE  /\ wips'[w].sample = wips[w].sample /\ wips'[w].lab = wips[w].lab
             /\ wips'[w].status = wips[w].status
  BY <1>1, <1>2 DEF WipRow
<1>4. QED
  BY <1>1, <1>3 DEF SameWips, IncompleteWips, Mine

(* A laboratory is shown a sample it has when no WIP of it is open.        *)
LEMMA ShownWithoutOpenWips ==
  ASSUME Pages, NEW x \in Samples, NEW u, u.lab # NoLab, InLab(u, samples[x].at), PageShows(u, x)
  PROVE  IncompleteWips(x) = {}
<1>1. ASSUME NEW w \in IncompleteWips(x)
      PROVE  FALSE
  <2>1. wips[w].lab = u.lab
    BY <1>1 DEF InLab, Pages, AllSteady, Steady, WipsHere
  <2>2. w \in Mine(x) /\ wips[w].sample = x /\ wips[w].status # "completed"
    BY <1>1 DEF IncompleteWips, Mine
  <2>3. FlowListed(u, w)
    BY <2>2 DEF FlowListed
  <2>4. w \in CompletedWips(x)
    BY <2>1, <2>2, <2>3 DEF PageShows, FlowWipsOf
  <2>5. QED
    BY <2>2, <2>4 DEF CompletedWips
<1>2. QED
  BY <1>1

(* A transfer is announced.                                                *)
LEMMA AnnounceSteady ==
  ASSUME PagesAlone, Pages, NEW p \in Sessions, CreateTransfer(p)
  PROVE  \A s \in Samples : Steady(s)'
<1>0. sess[p].op = "transfer" /\ AskRight(sess[p])
  BY DEF CreateTransfer, Pages, Fresh, Nothing
<1>1. PICK x \in Samples : x = sess[p].s
  BY <1>0 DEF Pages, RequestOk, OfSampleOps
<1>2. PICK u \in Staff, to \in Labs : u = sess[p].by /\ to = sess[p].to
  BY <1>0 DEF Pages, RequestOk, IsRequest, AskRight, WorkAskRight, PagesAlone
<1>3. u.lab \in Labs /\ u.lab # NoLab /\ u.role # "admin"
  <2>1. u.lab \in Labs
    BY <1>0, <1>2 DEF Pages, RequestOk, IsRequest
  <2>2. QED
    BY <1>2, <2>1, SamplesAssumption DEF PagesAlone, NoLab
<1>4. /\ ~SampleUnderWay(x) /\ InLab(u, samples[x].at) /\ PageShows(u, x)
      /\ sess[p].was = samples[x].status
  BY <1>0, <1>1, <1>2, <1>3 DEF AskRight, WorkAskRight, PagesAlone, PageTransfers
<1>5. samples[x].at.lab = u.lab /\ samples[x].status \notin {"picked_up", "outbound", "pending_receive"}
  BY <1>4 DEF InLab, PageShows
<1>6. IncompleteWips(x) = {}
  BY <1>3, <1>4, ShownWithoutOpenWips
<1>7. Active(x) = {}
  BY <1>4 DEF SampleUnderWay, Active
<1>8. PICK place \in Places : place = WaitingArea(u.lab) /\ place.lab = u.lab
  <2>1. WaitingArea(u.lab) \in Places /\ WaitingArea(u.lab).lab = u.lab
    BY <1>3, PlaceFacts DEF WaitingArea, Areas
  <2>2. QED
    BY <2>1
<1>9. \A s : SameWips(s)
  <2>1. wips' = LabWipsMoved(wips, x, to, place)
    BY <1>1, <1>2, <1>8 DEF CreateTransfer, NextLabWipsMoved
  <2>2. QED
    BY <2>1, WipsStay DEF Pages
<1>10. PICK new : /\ new = NewTransfer("sample", x, u.lab, to)
                  /\ transfers' = Append(transfers, new)
  BY <1>1, <1>2 DEF CreateTransfer
<1>11. /\ new.kind = "sample" /\ new.of = x /\ new.from = u.lab /\ new.status = "pending"
  BY <1>10 DEF NewTransfer
<1>12. PICK n \in Nat : /\ DOMAIN transfers = 1..n /\ DOMAIN transfers' = 1..(n + 1)
                        /\ \A t \in 1..n : transfers'[t] = transfers[t]
                        /\ transfers'[n + 1] = new
  <2>1. PICK n \in Nat : transfers = [i \in 1..n |-> transfers[i]]
    BY DEF Pages, TransferRowsOk, IsList
  <2>2. PICK old, all : old = transfers /\ all = transfers'
    OBVIOUS
  <2>3. /\ all = [i \in 1..(n + 1) |-> all[i]]
        /\ \A i \in 1..n : all[i] = old[i]
        /\ all[n + 1] = new
    <3>1. old = [i \in 1..n |-> old[i]] /\ all = Append(old, new)
      BY <1>10, <2>1, <2>2
    <3>2. QED
      BY <3>1, Appended
  <2>4. DOMAIN all = 1..(n + 1) /\ DOMAIN old = 1..n
    BY <2>1, <2>2, <2>3
  <2>5. QED
    BY <2>2, <2>3, <2>4
<1>13. /\ n + 1 \notin 1..n /\ \A t \in 1..(n + 1) : t # n + 1 => t \in 1..n
       /\ \A t \in 1..n : t \in 1..(n + 1) /\ n + 1 \in 1..(n + 1)
  OBVIOUS
<1>14. ASSUME NEW s, s # x
       PROVE  SameTransfers(s)
  <2>1. PICK A, B : A = Active(s)' /\ B = Active(s)
    OBVIOUS
  <2>2. \A t : t \in A <=> t \in B
    BY <1>11, <1>12, <1>13, <1>14, <2>1 DEF Active, ActiveTransfers
  <2>3. A = B
    BY <2>2
  <2>4. \A t \in Active(s) : transfers'[t] = transfers[t]
    BY <1>12 DEF Active, ActiveTransfers
  <2>5. QED
    BY <2>1, <2>3, <2>4 DEF SameTransfers
<1>15. \A t \in Active(x)' : transfers'[t] = new /\ t = n + 1
  <2>1. ASSUME NEW t \in Active(x)', t # n + 1
        PROVE  FALSE
    <3>1. t \in 1..n /\ transfers'[t] = transfers[t]
      BY <1>12, <1>13, <2>1 DEF Active, ActiveTransfers
    <3>2. t \in Active(x)
      BY <1>12, <2>1, <3>1 DEF Active, ActiveTransfers
    <3>3. QED
      BY <1>7, <3>2
  <2>2. QED
    BY <1>12, <2>1
<1>16. PICK was \in SampleStatuses : was = samples[x].status
  BY DEF Pages, IsSample
<1>17. PICK row : row = SampleWith(samples[x], was, place, was)
  OBVIOUS
<1>18. samples' = [samples EXCEPT ![x] = row]
  <2>1. Logged(Moved(samples[x], place), was) = row
    BY <1>16, <1>17, SampleForms DEF Pages
  <2>2. QED
    BY <1>1, <1>2, <1>4, <1>8, <1>16, <2>1 DEF CreateTransfer
<1>19. ASSUME samples'[x] = row
       PROVE  Steady(x)'
  <2>1. /\ samples'[x].status = was /\ samples'[x].log = was /\ samples'[x].at.lab = u.lab
    BY <1>8, <1>17, <1>19 DEF SampleWith
  <2>2. IncompleteWips(x)' = {}
    BY <1>6, <1>9 DEF SameWips
  <2>3. WipsHere(x)' /\ HistoryHere(x)'
    BY <2>1, <2>2 DEF WipsHere, HistoryHere
  <2>4. TransfersHere(x)'
    BY <1>5, <1>11, <1>15, <1>16, <2>1 DEF TransfersHere
  <2>5. QED
    BY <2>3, <2>4 DEF Steady
<1>20. QED
  BY <1>9, <1>14, <1>18, <1>19, OneSampleSteady DEF Pages, AllSteady

(* A transfer that is sent or cancelled was waiting, and a sample's was    *)
(* the one of its sample.                                                  *)
LEMMA MovedTransfer ==
  ASSUME Pages, NEW p \in Sessions, sess[p].op \in {"send", "cancel"}
  PROVE  /\ sess[p].t \in DOMAIN transfers
         /\ transfers[sess[p].t].kind \in {"sample", "wip"}
         /\ transfers[sess[p].t].from \in Labs /\ transfers[sess[p].t].to \in Labs
         /\ transfers[sess[p].t].kind = "wip" => transfers[sess[p].t].of \in DOMAIN wips
         /\ transfers[sess[p].t].kind = "sample" =>
              /\ transfers[sess[p].t].of \in Samples
              /\ Active(transfers[sess[p].t].of) = {sess[p].t}
              /\ IncompleteWips(transfers[sess[p].t].of) = {}
              /\ samples[transfers[sess[p].t].of].status \notin
                   {"outbound", "picked_up", "pending_receive"}
<1>1. PICK t : t = sess[p].t
  OBVIOUS
<1>2. t \in DOMAIN transfers /\ transfers[t].status = "pending"
  BY <1>1 DEF Pages, Fresh, Nothing, AskRight, WorkAskRight, Movable, RequestOk
<1>3. /\ transfers[t] \in TransferRows
      /\ transfers[t].kind = "sample" => transfers[t].of \in Samples
      /\ transfers[t].kind = "wip" => transfers[t].of \in DOMAIN wips
  BY <1>2 DEF Pages, TransferRowsOk
<1>4. ASSUME transfers[t].kind = "sample"
      PROVE  /\ Active(transfers[t].of) = {t} /\ IncompleteWips(transfers[t].of) = {}
             /\ samples[transfers[t].of].status \notin {"outbound", "picked_up", "pending_receive"}
  <2>1. PICK x \in Samples : x = transfers[t].of
    BY <1>3, <1>4
  <2>2. t \in Active(x)
    BY <1>2, <1>4, <2>1 DEF Active, ActiveTransfers
  <2>3. Steady(x)
    BY DEF Pages, AllSteady
  <2>4. Active(x) = {t} /\ IncompleteWips(x) = {}
    BY <2>2, <2>3 DEF Steady, TransfersHere, WipsHere
  <2>5. samples[x].status \notin {"outbound", "picked_up", "pending_receive"}
    BY <1>2, <2>2, <2>3 DEF Steady, TransfersHere
  <2>6. QED
    BY <2>1, <2>4, <2>5
<1>5. QED
  BY <1>1, <1>2, <1>3, <1>4 DEF TransferRows

(* A transfer is sent.                                                     *)
LEMMA SendSteady ==
  ASSUME Pages, NEW p \in Sessions, SendTransfer(p)
  PROVE  \A s \in Samples : Steady(s)'
<1>0. sess[p].op = "send" /\ TransferRowsOk
  BY DEF SendTransfer, Pages
<1>1. PICK t, of, to : t = sess[p].t /\ of = transfers[t].of /\ to = transfers[t].to
  OBVIOUS
<1>2. /\ t \in DOMAIN transfers /\ to \in Labs /\ transfers[t].kind \in {"sample", "wip"}
      /\ transfers[t].kind = "wip" => of \in DOMAIN wips
      /\ transfers[t].kind = "sample" =>
           of \in Samples /\ Active(of) = {t} /\ IncompleteWips(of) = {}
  BY <1>0, <1>1, MovedTransfer
<1>3. PICK place \in Places : place = ReceiveArea(to)
  BY <1>2, PlaceFacts
<1>4. transfers' = [transfers EXCEPT ![t] = TransferWith(transfers[t], "transferring")]
  <2>1. AsTransferring(transfers[t]) = TransferWith(transfers[t], "transferring")
    BY <1>0, <1>2, TransferForms DEF TransferRowsOk
  <2>2. QED
    BY <1>1, <2>1 DEF SendTransfer
<1>5. /\ DOMAIN transfers' = DOMAIN transfers
      /\ \A u \in DOMAIN transfers : u # t => transfers'[u] = transfers[u]
      /\ transfers'[t] = TransferWith(transfers[t], "transferring")
      /\ \A s : ~OfSample(t, s) => SameTransfers(s)
  BY <1>0, <1>2, <1>4, OneTransferChanged
<1>6. CASE transfers[t].kind = "wip"
  <2>1. samples' = samples /\ wips' = [wips EXCEPT ![of] = Moved(@, place)]
    BY <1>1, <1>3, <1>6 DEF SendTransfer
  <2>2. \A s : SameWips(s)
    BY <1>2, <1>6, <2>1, OneWipMoved DEF Pages
  <2>3. \A s : SameTransfers(s)
    BY <1>5, <1>6 DEF OfSample
  <2>4. QED
    BY <2>1, <2>2, <2>3, SteadyKept DEF Pages, AllSteady
<1>7. CASE transfers[t].kind = "sample"
  <2>1. PICK x \in Samples : x = of
    BY <1>2, <1>7
  <2>2. \A s : SameWips(s)
    <3>1. wips' = LabWipsMoved(wips, x, to, place)
      BY <1>1, <1>3, <1>7, <2>1 DEF SendTransfer, NextLabWipsMoved
    <3>2. QED
      BY <3>1, WipsStay DEF Pages
  <2>3. PICK row : row = SampleWith(samples[x], "pending_receive", place, "pending_receive")
    OBVIOUS
  <2>4. samples' = [samples EXCEPT ![x] = row]
    <3>1. Logged(AsPendingReceive(samples[x], place), "pending_receive") = row
      BY <2>3, SampleForms DEF Pages, SampleStatuses
    <3>2. QED
      BY <1>1, <1>3, <1>7, <2>1, <3>1 DEF SendTransfer
  <2>5. \A s : s # x => SameTransfers(s)
    BY <1>1, <1>5, <2>1 DEF OfSample
  <2>6. \A u \in Active(x)' :
          u = t /\ transfers'[u].status = "transferring" /\ transfers'[u].to = to
    <3>1. ASSUME NEW u \in Active(x)', u # t
          PROVE  FALSE
      <4>1. u \in DOMAIN transfers /\ transfers'[u] = transfers[u]
        BY <1>5, <3>1 DEF Active, ActiveTransfers
      <4>2. u \in Active(x)
        BY <3>1, <4>1 DEF Active, ActiveTransfers
      <4>3. QED
        BY <1>2, <1>7, <2>1, <3>1, <4>2
    <3>2. transfers'[t].status = "transferring" /\ transfers'[t].to = to
      BY <1>1, <1>5 DEF TransferWith
    <3>3. QED
      BY <3>1, <3>2
  <2>7. ASSUME samples'[x] = row
        PROVE  Steady(x)'
    <3>1. /\ samples'[x].status = "pending_receive" /\ samples'[x].log = "pending_receive"
          /\ samples'[x].at = At(to, "receive")
      BY <1>3, <2>3, <2>7 DEF SampleWith, ReceiveArea
    <3>2. IncompleteWips(x)' = {}
      BY <1>2, <1>7, <2>1, <2>2 DEF SameWips
    <3>3. WipsHere(x)' /\ HistoryHere(x)'
      BY <3>1, <3>2 DEF WipsHere, HistoryHere
    <3>4. TransfersHere(x)'
      BY <2>6, <3>1 DEF TransfersHere
    <3>5. QED
      BY <3>3, <3>4 DEF Steady
  <2>8. QED
    BY <2>2, <2>4, <2>5, <2>7, OneSampleSteady DEF Pages, AllSteady
<1>8. QED
  BY <1>2, <1>6, <1>7

(* A transfer is cancelled.                                                *)
LEMMA CancelSteady ==
  ASSUME Pages, NEW p \in Sessions, CancelTransfer(p)
  PROVE  \A s \in Samples : Steady(s)'
<1>0. sess[p].op = "cancel" /\ TransferRowsOk /\ UNCHANGED wips
  BY DEF CancelTransfer, Pages
<1>1. PICK t, of, from : t = sess[p].t /\ of = transfers[t].of /\ from = transfers[t].from
  OBVIOUS
<1>2. /\ t \in DOMAIN transfers /\ from \in Labs /\ transfers[t].kind \in {"sample", "wip"}
      /\ transfers[t].kind = "sample" =>
           of \in Samples /\ Active(of) = {t} /\ IncompleteWips(of) = {}
  BY <1>0, <1>1, MovedTransfer
<1>3. PICK place \in Places : place = WaitingArea(from)
  BY <1>2, PlaceFacts
<1>4. transfers' = [transfers EXCEPT ![t] = TransferWith(transfers[t], "cancelled")]
  <2>1. AsCancelled(transfers[t]) = TransferWith(transfers[t], "cancelled")
    BY <1>0, <1>2, TransferForms DEF TransferRowsOk
  <2>2. QED
    BY <1>1, <2>1 DEF CancelTransfer
<1>5. /\ DOMAIN transfers' = DOMAIN transfers
      /\ \A u \in DOMAIN transfers : u # t => transfers'[u] = transfers[u]
      /\ transfers'[t] = TransferWith(transfers[t], "cancelled")
      /\ \A s : ~OfSample(t, s) => SameTransfers(s)
  BY <1>0, <1>2, <1>4, OneTransferChanged
<1>w. \A s : SameWips(s)
  BY <1>0 DEF SameWips, IncompleteWips, Mine
<1>6. CASE transfers[t].kind = "wip"
  <2>1. samples' = samples
    BY <1>1, <1>6 DEF CancelTransfer
  <2>2. \A s : SameTransfers(s)
    BY <1>5, <1>6 DEF OfSample
  <2>3. QED
    BY <1>w, <2>1, <2>2, SteadyKept DEF Pages, AllSteady
<1>7. CASE transfers[t].kind = "sample"
  <2>1. PICK x \in Samples : x = of
    BY <1>2, <1>7
  <2>2. PICK st \in SampleStatuses : st = samples[x].status
    BY DEF Pages, IsSample
  <2>3. PICK row : row = SampleWith(samples[x], st, place, st)
    OBVIOUS
  <2>4. samples' = [samples EXCEPT ![x] = row]
    <3>1. Logged(Moved(samples[x], place), st) = row
      BY <2>2, <2>3, SampleForms DEF Pages
    <3>2. QED
      BY <1>1, <1>3, <1>7, <2>1, <2>2, <3>1 DEF CancelTransfer
  <2>5. \A s : s # x => SameTransfers(s)
    BY <1>1, <1>5, <2>1 DEF OfSample
  <2>6. Active(x)' = {}
    <3>1. ASSUME NEW u \in Active(x)'
          PROVE  FALSE
      <4>1. u # t
        BY <1>5, <3>1 DEF Active, ActiveTransfers, TransferWith
      <4>2. u \in DOMAIN transfers /\ transfers'[u] = transfers[u]
        BY <1>5, <3>1, <4>1 DEF Active, ActiveTransfers
      <4>3. u \in Active(x)
        BY <3>1, <4>2 DEF Active, ActiveTransfers
      <4>4. QED
        BY <1>2, <1>7, <2>1, <4>1, <4>3
    <3>2. QED
      BY <3>1
  <2>7. ASSUME samples'[x] = row
        PROVE  Steady(x)'
    <3>1. samples'[x].log = samples'[x].status
      BY <2>3, <2>7 DEF SampleWith
    <3>2. IncompleteWips(x)' = {}
      BY <1>2, <1>7, <1>w, <2>1 DEF SameWips
    <3>3. QED
      BY <2>6, <3>1, <3>2, QuietSteady
  <2>8. QED
    BY <1>w, <2>4, <2>5, <2>7, OneSampleSteady DEF Pages, AllSteady
<1>8. QED
  BY <1>2, <1>6, <1>7

(* The run of a WIP ends; the sample is to follow.                         *)
LEMMA RunEndsSteady ==
  ASSUME PagesAlone, Pages, NEW p \in Sessions, NEW w \in DOMAIN wips,
         NEW result \in {"completed", "terminated"}, NEW followup \in {"advance", "withdraw"},
         RunEnds(p, w, result, followup)
  PROVE  AllSteady'
<1>1. PICK s \in Samples : s = wips[w].sample
  BY DEF Pages, WipRowsOk, IsWip
<1>2. /\ wips' = [wips EXCEPT ![w].status = result] /\ UNCHANGED <<samples, transfers>>
      /\ wips[w].status \in {"waiting_schedule", "running"}
  BY DEF RunEnds
<1>3. PICK r : /\ r = [Idle EXCEPT !.op = followup, !.w = w, !.s = s]
               /\ sess' = [sess EXCEPT ![p] = r]
  BY <1>1 DEF RunEnds
<1>4. r.op = followup /\ r.w = w /\ r.s = s
  <2>1. r = Request(followup, Nobody, s, w, 0, NoLab, {}, {}, {}, 0, "absent")
    BY <1>3, RunRequest
  <2>2. QED
    BY <2>1, RequestFields
<1>5. /\ DOMAIN wips' = DOMAIN wips
      /\ \A v \in DOMAIN wips : v # w => wips'[v] = wips[v]
      /\ wips'[w] = WipRow(wips[w], result, wips[w].at)
  <2>1. IsWip(wips[w]) /\ result \in WipStatuses /\ wips[w].at \in Places
    BY DEF Pages, WipRowsOk, IsWip, WipStatuses
  <2>2. [wips[w] EXCEPT !.status = result] = WipRow(wips[w], result, wips[w].at)
    BY <2>1, WipForms
  <2>3. QED
    BY <1>2, <2>2 DEF Pages, WipRowsOk, IsList
<1>6. /\ wips'[w].sample = s /\ wips'[w].lab = wips[w].lab /\ wips'[w].status = result
  BY <1>1, <1>5 DEF WipRow
<1>7. w \in IncompleteWips(s) /\ Steady(s)
  BY <1>1, <1>2 DEF IncompleteWips, Mine, Pages, AllSteady
<1>8. /\ Active(s) = {} /\ wips[w].lab = samples[s].at.lab
      /\ samples[s].status \in {"split", "pending_transfer"}
  BY <1>2, <1>7 DEF Steady, WipsHere
<1>9. \A x : SameTransfers(x)
  BY <1>2, TransfersStay
<1>10. ASSUME NEW x \in Samples, x # s
       PROVE  Steady(x)'
  <2>1. SameWips(x)
    BY <1>1, <1>5, <1>6, <1>10 DEF SameWips, IncompleteWips, Mine
  <2>2. QED
    BY <1>2, <1>9, <2>1, SteadyKept DEF Pages, AllSteady
<1>11. Steady(s)'
  <2>1. ASSUME NEW v \in IncompleteWips(s)'
        PROVE  /\ wips'[v].lab = samples[s].at.lab /\ wips'[v].status # "created"
    <3>1. CASE v = w
      BY <1>6, <1>8, <3>1
    <3>2. CASE v # w
      <4>1. v \in DOMAIN wips /\ wips'[v] = wips[v] /\ v \in IncompleteWips(s)
        BY <1>5, <2>1, <3>2 DEF IncompleteWips, Mine
      <4>2. QED
        BY <1>7, <4>1 DEF Steady, WipsHere
    <3>3. QED
      BY <3>1, <3>2
  <2>2. Active(s)' = {} /\ samples' = samples
    BY <1>2, <1>8, <1>9 DEF SameTransfers
  <2>3. WipsHere(s)' /\ TransfersHere(s)'
    BY <1>8, <2>1, <2>2 DEF WipsHere, TransfersHere
  <2>4. HistoryHere(s)'
    BY <1>7, <2>2 DEF Steady, HistoryHere
  <2>5. QED
    BY <2>3, <2>4 DEF Steady
<1>12. ASSUME NEW q \in Sessions
       PROVE  RunJustEnded(sess[q])'
  <2>1. sess'[q] = r
    BY <1>3 DEF PagesAlone, Alone, Pages, RowsInv, SessOk
  <2>2. Active(s)' = {} /\ samples' = samples
    BY <1>2, <1>8, <1>9 DEF SameTransfers
  <2>3. QED
    BY <1>4, <1>6, <1>8, <2>1, <2>2 DEF RunJustEnded
<1>13. QED
  BY <1>10, <1>11, <1>12 DEF AllSteady

(* The sample follows a completed run.                                     *)
LEMMA AdvanceSteady ==
  ASSUME Pages, NEW p \in Sessions, AdvanceSample(p)
  PROVE  \A s \in Samples : Steady(s)'
<1>0. sess[p].op = "advance" /\ UNCHANGED <<wips, transfers>>
  BY DEF AdvanceSample
<1>1. PICK x \in Samples, w \in DOMAIN wips : x = sess[p].s /\ w = sess[p].w
  BY <1>0 DEF Pages, RequestOk, OfWipOps
<1>2. PICK lab \in Labs \cup {NoLab} : lab = wips[w].lab
  <2>1. [lab |-> wips[w].lab, exp |-> wips[w].exp] \in Experiments
    BY DEF Pages, WipRowsOk, IsWip
  <2>2. QED
    BY <2>1, ExperimentFacts
<1>3. /\ Active(x) = {} /\ samples[x].at.lab = lab
      /\ samples[x].status \in {"split", "pending_transfer"}
  BY <1>0, <1>1, <1>2 DEF Pages, AllSteady, RunJustEnded
<1>4. \A s : SameWips(s) /\ SameTransfers(s)
  BY <1>0, NothingMoves
<1>5. CASE samples' = samples
  BY <1>4, <1>5, SteadyKept DEF Pages, AllSteady
<1>6. CASE samples' # samples
  <2>1. PICK k : samples' = [samples EXCEPT ![x] = AfterCompletion(x, k, lab)]
    BY <1>1, <1>2, <1>6 DEF AdvanceSample
  <2>2. PICK st \in {"split", "pending_transfer"}, log \in SampleStatuses :
          /\ AfterCompletion(x, k, lab) = SampleWith(samples[x], st, At(lab, "temp"), log)
          /\ log = st \/ (log = samples[x].log /\ st = "split")
    <3>1. IsSample(samples[x])
      BY DEF Pages
    <3>2. \E st \in {"split", "pending_transfer"}, log \in SampleStatuses :
            /\ AfterCompletion(x, k, lab) = SampleWith(samples[x], st, At(lab, "temp"), log)
            /\ log = st \/ (log = samples[x].log /\ st = "split" /\ k # Len(samples[x].route))
            /\ st = StatusAfter(samples[x].route, k, lab)
      BY <3>1, AfterCompletionFacts
    <3>3. QED
      BY <3>2
  <2>3. PICK row : row = SampleWith(samples[x], st, At(lab, "temp"), log)
    OBVIOUS
  <2>4. ASSUME samples'[x] = row
        PROVE  Steady(x)'
    <3>1. samples'[x].status = st /\ samples'[x].log = log /\ samples'[x].at.lab = lab
      BY <2>3, <2>4 DEF SampleWith, At
    <3>2. Active(x)' = {} /\ Steady(x)
      BY <1>3, <1>4 DEF SameTransfers, Pages, AllSteady
    <3>3. WipsHere(x)'
      BY <1>3, <1>4, <3>1, <3>2 DEF WipsHere, SameWips, Steady
    <3>4. TransfersHere(x)'
      BY <3>2 DEF TransfersHere
    <3>5. HistoryHere(x)'
      BY <1>3, <2>2, <3>1, <3>2 DEF HistoryHere, Steady
    <3>6. QED
      BY <3>3, <3>4, <3>5 DEF Steady
  <2>5. samples' = [samples EXCEPT ![x] = row]
    BY <2>1, <2>2, <2>3
  <2>6. QED
    BY <1>4, <2>4, <2>5, OneSampleSteady DEF Pages, AllSteady
<1>7. QED
  BY <1>5, <1>6

(* The sample follows an aborted run.                                      *)
LEMMA WithdrawSteady ==
  ASSUME Pages, NEW p \in Sessions, WithdrawSample(p)
  PROVE  \A s \in Samples : Steady(s)'
<1>0. sess[p].op = "withdraw" /\ UNCHANGED <<wips, transfers>>
  BY DEF WithdrawSample
<1>1. PICK x \in Samples : x = sess[p].s
  BY <1>0 DEF Pages, RequestOk, OfWipOps
<1>2. Active(x) = {} /\ Steady(x)
  BY <1>0, <1>1 DEF Pages, AllSteady, RunJustEnded
<1>3. \A s : SameWips(s) /\ SameTransfers(s)
  BY <1>0, NothingMoves
<1>4. CASE samples' = samples
  BY <1>3, <1>4, SteadyKept DEF Pages, AllSteady
<1>5. CASE samples' # samples
  <2>1. /\ \A w \in Mine(x) : wips[w].status = "terminated"
        /\ samples' = [samples EXCEPT ![x] = Logged([@ EXCEPT !.status = "terminated"], "terminated")]
    BY <1>1, <1>5 DEF WithdrawSample
  <2>2. PICK row : row = SampleWith(samples[x], "terminated", samples[x].at, "terminated")
    OBVIOUS
  <2>3. samples' = [samples EXCEPT ![x] = row]
    <3>1. samples[x].at \in Places /\ "terminated" \in SampleStatuses
      BY DEF Pages, IsSample, SampleStatuses
    <3>2. Logged([samples[x] EXCEPT !.status = "terminated"], "terminated") = row
      BY <2>2, <3>1, SampleForms DEF Pages
    <3>3. QED
      BY <2>1, <3>2
  <2>4. ASSUME samples'[x] = row
        PROVE  Steady(x)'
    <3>1. /\ samples'[x].status = "terminated" /\ samples'[x].log = "terminated"
          /\ samples'[x].at = samples[x].at
      BY <2>2, <2>4 DEF SampleWith
    <3>2. Active(x)' = {}
      BY <1>2, <1>3 DEF SameTransfers
    <3>3. ASSUME NEW w \in IncompleteWips(x)'
          PROVE  wips'[w].lab = samples[x].at.lab /\ wips'[w].status = "terminated"
      BY <1>2, <1>3, <2>1, <3>3 DEF SameWips, Steady, WipsHere, IncompleteWips
    <3>4. WipsHere(x)'
      BY <3>1, <3>2, <3>3 DEF WipsHere
    <3>5. TransfersHere(x)' /\ HistoryHere(x)'
      BY <3>1, <3>2 DEF TransfersHere, HistoryHere
    <3>6. QED
      BY <3>4, <3>5 DEF Steady
  <2>5. QED
    BY <1>3, <2>3, <2>4, OneSampleSteady DEF Pages, AllSteady
<1>6. QED
  BY <1>4, <1>5

(* No page asks for these.                                                 *)
LEMMA OnlyPageRequests ==
  ASSUME PagesAlone, Pages, NEW p \in Sessions
  PROVE  sess[p].op \notin {"inbound", "generate", "transfer_wip", "complete_others",
                            "send_to_schedule", "start", "complete", "terminate"}
<1>1. PICK r : r = sess[p] /\ (r.op \in Nothing \/ AskRight(r)) /\ RequestOk(r)
  BY DEF Pages, Fresh
<1>2. r.op \notin {"inbound", "generate", "transfer_wip", "complete_others"}
  BY <1>1 DEF PagesAlone, Nothing, AskRight, SampleAskRight
<1>3. ASSUME r.op \in {"send_to_schedule", "start", "complete", "terminate"}
      PROVE  FALSE
  <2>1. r.s \in Samples /\ r.w \in Mine(r.s)
    BY <1>1, <1>3 DEF RequestOk, OfWipOps, Mine
  <2>2. wips[r.w].status = "created"
    BY <1>1, <1>3 DEF PagesAlone, Nothing, AskRight, WorkAskRight
  <2>3. r.w \in IncompleteWips(r.s)
    BY <2>1, <2>2 DEF IncompleteWips
  <2>4. QED
    BY <2>1, <2>2, <2>3 DEF Pages, AllSteady, Steady, WipsHere
<1>4. QED
  BY <1>1, <1>2, <1>3

(* So none of these handlers runs.                                         *)
LEMMA NotAsked ==
  ASSUME PagesAlone, Pages, NEW p \in Sessions
  PROVE  /\ ~Inbound(p) /\ ~GenerateMissing(p) /\ ~OthersComplete(p) /\ ~CreateWipTransfer(p)
         /\ ~SetWip(p) /\ ~StartWip(p) /\ ~CompleteWip(p)
BY OnlyPageRequests DEF Inbound, GenerateMissing, OthersComplete, CreateWipTransfer, SetWip,
                        StartWip, CompleteWip

(* Every step of the pages keeps the samples steady.                       *)
LEMMA StepSteady ==
  ASSUME PagesAlone, Pages, [Next]_vars
  PROVE  AllSteady'
<1>0. sess = [p \in Sessions |-> sess[p]]
  BY DEF Pages, RowsInv, SessOk
<1>1. ASSUME NEW p \in Sessions, Answer(p), \A s \in Samples : Steady(s)'
      PROVE  AllSteady'
  <2>1. \A q \in Sessions : sess'[q].op = "none"
    BY <1>0, <1>1 DEF PagesAlone, Alone, Answer, Idle
  <2>2. \A q \in Sessions : RunJustEnded(sess[q])'
    BY <2>1 DEF RunJustEnded
  <2>3. QED
    BY <1>1, <2>2 DEF AllSteady
<1>2. ASSUME NEW p \in Sessions, SampleHandler(p)
      PROVE  AllSteady'
  <2>1. Deliver(p) \/ Receive(p) \/ Outbound(p) \/ ConfirmPickup(p) \/ Split(p)
    BY <1>2, NotAsked DEF SampleHandler
  <2>2. \A s \in Samples : Steady(s)'
    BY <2>1, DeliverSteady, ReceiveSteady, OutboundSteady, PickupSteady, SplitSteady
  <2>3. Answer(p)
    BY <2>1 DEF Deliver, Receive, Outbound, ConfirmPickup, Split
  <2>4. QED
    BY <1>1, <2>2, <2>3
<1>3. ASSUME NEW p \in Sessions, WorkHandler(p)
      PROVE  AllSteady'
  <2>1. CASE ConfirmResult(p) \/ TerminateRun(p)
    BY <2>1, RunEndsSteady DEF ConfirmResult, TerminateRun
  <2>2. CASE \/ AdvanceSample(p) \/ WithdrawSample(p) \/ CreateTransfer(p) \/ SendTransfer(p)
             \/ CancelTransfer(p)
    <3>1. \A s \in Samples : Steady(s)'
      BY <2>2, AdvanceSteady, WithdrawSteady, AnnounceSteady, SendSteady, CancelSteady
    <3>2. Answer(p)
      BY <2>2 DEF AdvanceSample, WithdrawSample, CreateTransfer, SendTransfer, CancelTransfer
    <3>3. QED
      BY <1>1, <3>1, <3>2
  <2>3. CASE NextItem(p) \/ LoseFollowUp(p) \/ TransferNoTaken(p)
    <3>1. UNCHANGED <<samples, wips, transfers>> /\ Answer(p)
      BY <2>3 DEF NextItem, LoseFollowUp, TransferNoTaken, rows
    <3>2. \A s \in Samples : Steady(s)'
      BY <3>1, NothingMoves, SteadyKept DEF Pages, AllSteady
    <3>3. QED
      BY <1>1, <3>1, <3>2
  <2>4. QED
    BY <1>3, <2>1, <2>2, <2>3, NotAsked DEF WorkHandler
<1>4. ASSUME NEW p \in Sessions, Asks(p), Still
      PROVE  AllSteady'
  <2>1. PICK r : AskRight(r) /\ sess' = [sess EXCEPT ![p] = r]
    BY <1>4 DEF Asks
  <2>2. \A q \in Sessions : sess'[q] = r
    BY <1>0, <2>1 DEF PagesAlone, Alone
  <2>3. \A q \in Sessions : RunJustEnded(sess[q])'
    BY <2>1, <2>2 DEF RunJustEnded, AskRight, WorkAskRight
  <2>4. \A s \in Samples : Steady(s)'
    BY <1>4, NothingMoves, SteadyKept DEF Still, Pages, AllSteady
  <2>5. QED
    BY <2>3, <2>4 DEF AllSteady
<1>5. CASE UNCHANGED vars
  <2>1. \A s \in Samples : Steady(s)'
    BY <1>5, NothingMoves, SteadyKept DEF vars, Pages, AllSteady
  <2>2. /\ sess' = sess /\ samples' = samples /\ wips' = wips
        /\ \A s : Active(s)' = Active(s)
    BY <1>5 DEF vars, Active, ActiveTransfers
  <2>3. \A q \in Sessions : RunJustEnded(sess[q])'
    BY <2>2 DEF RunJustEnded, Pages, AllSteady
  <2>4. QED
    BY <2>1, <2>3 DEF AllSteady
<1>6. ASSUME NEW p \in Sessions, SampleRequest(p) \/ WorkRequest(p)
      PROVE  Asks(p) /\ Still
  BY <1>6, RequestsChangeNothing, SampleRequestStep, WorkRequestStep DEF Still, Pages
<1>7. QED
  BY <1>2, <1>3, <1>4, <1>5, <1>6 DEF Next, AllPickedUp

(* Where the proofs about handlers start.                                  *)
LEMMA PagesThen ==
  ASSUME RowsInv, Fresh, AllSteady
  PROVE  Pages
<1>1. /\ SampleRowsOk /\ WipRowsOk /\ TransferRowsOk
      /\ \A p \in Sessions : RequestOk(sess[p])
      /\ \A s \in Samples : IsSample(samples[s])
  BY DEF RowsInv, SessOk, SampleRowsOk
<1>2. \A p \in Sessions : sess[p].by.lab \in Labs \cup {NoLab}
  BY <1>1 DEF RequestOk, IsRequest, Users
<1>3. QED
  BY <1>1, <1>2 DEF Pages

(* The samples are always steady.                                          *)
LEMMA SteadyHolds ==
  ASSUME PagesAlone
  PROVE  Spec => []AllSteady
<1>1. ASSUME Init
      PROVE  AllSteady
  <2>1. samples = [s \in Samples |-> NoSample] /\ wips = <<>> /\ transfers = <<>>
        /\ sess = [p \in Sessions |-> Idle]
    BY <1>1 DEF Init
  <2>2. \A s : IncompleteWips(s) = {} /\ Active(s) = {}
    BY <2>1 DEF IncompleteWips, Mine, Active, ActiveTransfers
  <2>3. \A s \in Samples : samples[s].log = samples[s].status
    BY <2>1 DEF NoSample
  <2>4. \A s \in Samples : Steady(s)
    BY <2>2, <2>3 DEF Steady, WipsHere, TransfersHere, HistoryHere
  <2>5. \A p \in Sessions : sess[p].op = "none"
    BY <2>1 DEF Idle
  <2>6. QED
    BY <2>4, <2>5 DEF AllSteady, RunJustEnded
<1>2. ASSUME RowsInv, Fresh, AllSteady, [Next]_vars
      PROVE  AllSteady'
  BY <1>2, PagesThen, StepSteady
<1>3. Alone
  BY DEF PagesAlone
<1>4. Spec => []Fresh
  BY <1>3, FreshHolds
<1>5. QED
  BY <1>1, <1>2, <1>4, RowsHold, PTL DEF Spec

(* With one request of the pages at a time a sample under way is where its *)
(* transfer says and is on its way to one place: it is not announced while *)
(* a WIP of it is open, and nothing is done to it until it is received     *)
(* (transfer_service, sample_service).  The laboratories must not split a  *)
(* sample they have announced, and an administrator must not announce one  *)
(* that is elsewhere: the code allows both.                                *)
THEOREM CustodyKept ==
  ASSUME PagesAlone
  PROVE  Spec => []Custody
<1>1. ASSUME RowsInv, AllSteady
      PROVE  Custody
  <2>1. ASSUME NEW t \in DOMAIN transfers, transfers[t].kind = "sample"
        PROVE  LET row == samples[transfers[t].of]
               IN /\ transfers[t].status = "pending" => row.at.lab = transfers[t].from
                  /\ transfers[t].status = "transferring" =>
                       row.at = At(transfers[t].to, "receive") /\ row.status = "pending_receive"
    <3>1. PICK s \in Samples : s = transfers[t].of
      BY <1>1, <2>1 DEF RowsInv, TransferRowsOk
    <3>2. transfers[t].status \in {"pending", "transferring"} => t \in Active(s)
      BY <2>1, <3>1 DEF Active, ActiveTransfers
    <3>3. QED
      BY <1>1, <3>1, <3>2 DEF AllSteady, Steady, TransfersHere
  <2>2. ASSUME NEW s \in Samples
        PROVE  Cardinality(ActiveTransfers("sample", s)) <= 1
    <3>1. PICK A : A = ActiveTransfers("sample", s)
      OBVIOUS
    <3>2. \A t, u \in A : t = u
      BY <1>1, <3>1 DEF AllSteady, Steady, TransfersHere, Active
    <3>3. CASE A = {}
      <4>1. Cardinality(A) = 0
        BY <3>3, FS_EmptySet
      <4>2. QED
        BY <3>1, <4>1
    <3>4. CASE A # {}
      <4>1. PICK t : A = {t}
        BY <3>2, <3>4
      <4>2. Cardinality(A) = 1
        BY <4>1, FS_Singleton
      <4>3. QED
        BY <3>1, <4>2
    <3>5. QED
      BY <3>3, <3>4
  <2>3. QED
    BY <2>1, <2>2 DEF Custody
<1>2. Spec => []AllSteady
  BY SteadyHolds
<1>3. QED
  BY <1>1, <1>2, RowsHold, PTL

(* With one request of the pages at a time the history of a sample ends    *)
(* with its status, but for the one step that is not recorded: every       *)
(* handler writes both (create_sample_history).                            *)
THEOREM HistoryKept ==
  ASSUME PagesAlone
  PROVE  Spec => []HistoryFollows
<1>1. AllSteady => HistoryFollows
  BY DEF AllSteady, Steady, HistoryHere, HistoryFollows
<1>2. Spec => []AllSteady
  BY SteadyHolds
<1>3. QED
  BY <1>1, <1>2, PTL

-----------------------------------------------------------------------------
(* Where a sample is sent.                                                 *)

(* The items of a dependency group have targets of their own.              *)
TargetsDiffer == \A s \in Samples : TargetsOnce(ItemsOf(s))

(* What is due before item i is done.                                      *)
Ready(s, i) ==
  /\ i \in ItemsOf(s)
  /\ \A j \in ItemsOf(s) : DueBefore(j, i) => ItemDone(j, wips, Mine(s))

(* Answers name items that are ready; a transfer under way leads to one    *)
(* that is ready and open.                                                 *)
AnswersReady ==
  \A l \in Labs \cup {NoLab}, s \in Samples : \A i \in {told[l][s]} \ {0} : Ready(s, i)

LeadsOn(s, t) ==
  \E i \in ItemsOf(s) : /\ Items[i].lab = transfers[t].to /\ Ready(s, i)
                        /\ ~ItemDone(i, wips, Mine(s))

Ahead ==
  /\ claimed \subseteq ItemIds /\ Told(told) /\ AnswersReady
  /\ \A s \in Samples : \A t \in Active(s) : Present(s) /\ LeadsOn(s, t)

(* What is ready stays so: no page takes a completion back.                *)
LEMMA ReadyStays ==
  ASSUME PagesAlone, Pages, WipsChanged, NEW s, NEW i, Ready(s, i)
  PROVE  Ready(s, i)'
<1>1. \A w : ~Reset(w)
  BY OnlyPageRequests DEF Reset
<1>2. WipRowsOk
  BY DEF Pages
<1>3. ASSUME NEW j \in ItemsOf(s), DueBefore(j, i)
      PROVE  ItemDone(j, wips, Mine(s))'
  <2>1. ItemDone(j, wips, Mine(s))
    BY <1>3 DEF Ready
  <2>2. QED
    BY <1>1, <1>2, <2>1, DoneKept
<1>4. QED
  BY <1>3 DEF Ready

(* Nothing is completed for a sample that has no open WIP: a new one is    *)
(* open.                                                                   *)
LEMMA OpenStays ==
  ASSUME WipRowsOk, WipsChanged, NEW s, IncompleteWips(s) = {}, NEW i, ~ItemDone(i, wips, Mine(s))
  PROVE  ~ItemDone(i, wips, Mine(s))'
<1>1. SUFFICES ASSUME NEW w \in Mine(s)', SameExperiment(Items[i], wips'[w]),
                      wips'[w].status = "completed"
               PROVE  FALSE
  BY DEF ItemDone
<1>2. w \in DOMAIN wips' /\ wips'[w].sample = s
  BY <1>1 DEF Mine
<1>3. w \in DOMAIN wips
  BY <1>1, <1>2 DEF WipsChanged, NewRow
<1>4. /\ wips[w].sample = s /\ wips'[w].lab = wips[w].lab /\ wips'[w].exp = wips[w].exp
  BY <1>2, <1>3, WipKept
<1>5. w \in Mine(s) /\ wips[w].status = "completed"
  BY <1>3, <1>4 DEF Mine, IncompleteWips
<1>6. SameExperiment(Items[i], wips[w])
  BY <1>1, <1>4 DEF SameExperiment
<1>7. QED
  BY <1>5, <1>6 DEF ItemDone

(* A sample that is under way has no open WIP.                             *)
LEMMA UnderWayAtRest ==
  ASSUME Pages, NEW s \in Samples, Active(s) # {}
  PROVE  IncompleteWips(s) = {}
BY DEF Pages, AllSteady, Steady, WipsHere

(* A transfer that was under way leads on as it did.                       *)
LEMMA OldTransferLeadsOn ==
  ASSUME PagesAlone, Pages, Ahead, WipsChanged, TransfersChanged, SamplesChanged,
         NEW s \in Samples, NEW t \in Active(s)', t \in DOMAIN transfers
  PROVE  Present(s)' /\ LeadsOn(s, t)'
<1>1. /\ transfers'[t].kind = "sample" /\ transfers'[t].of = s
      /\ transfers'[t].status \in {"pending", "transferring"}
  BY DEF Active, ActiveTransfers
<1>2. TransferKept(t)
  BY DEF TransfersChanged
<1>3. t \in Active(s) /\ transfers'[t].to = transfers[t].to
  <2>1. CASE transfers'[t] = transfers[t]
    BY <1>1, <2>1 DEF Active, ActiveTransfers
  <2>2. ASSUME NEW st, transfers'[t] = TransferWith(transfers[t], st)
        PROVE  /\ transfers'[t].status = st /\ transfers'[t].to = transfers[t].to
               /\ transfers[t].kind = "sample" /\ transfers[t].of = s
    BY <1>1, <2>2 DEF TransferWith
  <2>3. ASSUME NEW p \in Sessions, sess[p].t = t, sess[p].op = "send",
               transfers'[t] = TransferWith(transfers[t], "transferring")
        PROVE  t \in Active(s) /\ transfers'[t].to = transfers[t].to
    <3>1. transfers[t].status = "pending"
      BY <2>3 DEF Pages, Fresh, Nothing, AskRight, WorkAskRight, Movable
    <3>2. QED
      BY <2>2, <2>3, <3>1 DEF Active, ActiveTransfers
  <2>4. QED
    BY <1>1, <1>2, <2>1, <2>2, <2>3 DEF TransferKept
<1>4. PICK i \in ItemsOf(s) : /\ Items[i].lab = transfers[t].to /\ Ready(s, i)
                              /\ ~ItemDone(i, wips, Mine(s))
  BY <1>3 DEF Ahead, LeadsOn
<1>5. IncompleteWips(s) = {}
  BY <1>3, UnderWayAtRest
<1>6. ~ItemDone(i, wips, Mine(s))'
  BY <1>4, <1>5, OpenStays DEF Pages
<1>7. Ready(s, i)'
  BY <1>4, ReadyStays
<1>8. Present(s)'
  <2>1. Present(s) /\ SampleRowsOk
    BY <1>3 DEF Ahead, Pages
  <2>2. QED
    BY <2>1, SampleKept
<1>9. QED
  BY <1>3, <1>4, <1>6, <1>7, <1>8 DEF LeadsOn

(* A transfer that is announced leads where the page was told.             *)
LEMMA NewTransferLeadsOn ==
  ASSUME PagesAlone, Pages, Ahead, WipsChanged, TransfersChanged, SamplesChanged,
         NEW s \in Samples, NEW t \in Active(s)', t \notin DOMAIN transfers
  PROVE  Present(s)' /\ LeadsOn(s, t)'
<1>1. /\ t \in DOMAIN transfers' /\ transfers'[t].kind = "sample" /\ transfers'[t].of = s
  BY DEF Active, ActiveTransfers
<1>2. NewTransferRow(transfers'[t])
  BY <1>1 DEF TransfersChanged
<1>3. PICK p \in Sessions : sess[p].op = "transfer" /\ sess[p].s = s /\ transfers'[t].to = sess[p].to
  BY <1>1, <1>2 DEF NewTransferRow
<1>4. WorkAskRight(sess[p])
  BY <1>3 DEF Pages, Fresh, Nothing, AskRight
<1>5. PICK u \in Staff : u = sess[p].by
  BY <1>3, <1>4 DEF WorkAskRight, PagesAlone
<1>6. InLab(u, samples[s].at) /\ PageTransfers(u, s, sess[p].to)
  BY <1>3, <1>4, <1>5 DEF WorkAskRight, PagesAlone
<1>7. PageShows(u, s)
  BY <1>6 DEF PageTransfers
<1>8. Present(s) /\ u.lab \in Labs /\ u.lab # NoLab
  BY <1>7, PageAsksForPresent DEF Pages
<1>9. PICK i : i = told[u.lab][s]
  OBVIOUS
<1>10. i # 0 /\ sess[p].to = Items[i].lab /\ ~ItemDone(i, wips, Mine(s))
  BY <1>6, <1>9 DEF PageTransfers
<1>11. Ready(s, i)
  BY <1>8, <1>9, <1>10 DEF Ahead, AnswersReady
<1>12. IncompleteWips(s) = {}
  BY <1>6, <1>7, <1>8, ShownWithoutOpenWips
<1>13. ~ItemDone(i, wips, Mine(s))'
  BY <1>10, <1>12, OpenStays DEF Pages
<1>14. Ready(s, i)'
  BY <1>11, ReadyStays
<1>15. Present(s)'
  <2>1. SampleRowsOk
    BY DEF Pages
  <2>2. QED
    BY <1>8, <2>1, SampleKept
<1>16. i \in ItemsOf(s)
  BY <1>11 DEF Ready
<1>17. QED
  BY <1>3, <1>10, <1>13, <1>14, <1>15, <1>16 DEF LeadsOn

(* The next item that dependency/next chooses is ready.                    *)
LEMMA AnswersStayReady ==
  ASSUME PagesAlone, Pages, Ahead, WipsChanged, [Next]_vars
  PROVE  claimed' \subseteq ItemIds /\ Told(told') /\ AnswersReady'
<1>1. ASSUME NEW p \in Sessions, sess[p].op = "next"
      PROVE  sess[p].s \in Samples /\ sess[p].items = NextCandidates(sess[p].s, wips, Mine(sess[p].s))
  BY <1>1 DEF Pages, RequestOk, IsRequest, Fresh, Nothing, AskRight, WorkAskRight
<1>2. \A p \in Sessions : sess[p].op = "next" => sess[p].items \subseteq ItemIds
  BY <1>1, ItemFacts DEF NextCandidates
<1>3. CASE UNCHANGED <<claimed, told>>
  <2>1. ASSUME NEW l \in Labs \cup {NoLab}, NEW s \in Samples, NEW i, i \in {told'[l][s]} \ {0}
        PROVE  Ready(s, i)'
    <3>1. Ready(s, i)
      BY <1>3, <2>1 DEF Ahead, AnswersReady
    <3>2. QED
      BY <3>1, ReadyStays
  <2>2. AnswersReady'
    BY <2>1 DEF AnswersReady
  <2>3. QED
    BY <1>3, <2>2 DEF Ahead
<1>4. ASSUME NEW p \in Sessions, Picks(p)
      PROVE  claimed' \subseteq ItemIds /\ Told(told') /\ AnswersReady'
  <2>1. PICK x \in Samples, l \in Labs \cup {NoLab} : x = sess[p].s /\ l = sess[p].by.lab
    BY <1>1, <1>4 DEF Picks, Pages
  <2>2. PICK i \in NextCandidates(x, wips, Mine(x)) \cup {0} :
          /\ claimed' = IF i = 0 THEN claimed ELSE claimed \cup {i}
          /\ told' = [told EXCEPT ![l][x] = i]
    BY <1>1, <1>4, <2>1 DEF Picks
  <2>3. i # 0 => Ready(x, i)
    BY <2>2, CandidateIsNext DEF Ready
  <2>4. i # 0 => Ready(x, i)' /\ i \in ItemIds
    BY <2>3, ReadyStays, ItemFacts DEF Ready
  <2>5. /\ Told(told') /\ told'[l][x] = i
        /\ \A k \in Labs \cup {NoLab} : k # l => told'[k] = told[k]
        /\ \A s \in Samples : s # x => told'[l][s] = told[l][s]
    <3>1. PICK table, new : table = told /\ new = told'
      OBVIOUS
    <3>2. Told(table) /\ ToldThen(new, table, l, x, i)
      BY <2>2, <3>1 DEF Ahead, ToldThen
    <3>3. /\ Told(new) /\ new[l][x] = i
          /\ \A k \in Labs \cup {NoLab} : k # l => new[k] = table[k]
          /\ \A s \in Samples : s # x => new[l][s] = table[l][s]
      BY <3>2, ToldChanged
    <3>4. QED
      BY <3>1, <3>3
  <2>6. ASSUME NEW k \in Labs \cup {NoLab}, NEW s \in Samples, NEW j, j \in {told'[k][s]} \ {0}
        PROVE  Ready(s, j)'
    <3>1. CASE k = l /\ s = x
      BY <2>4, <2>5, <2>6, <3>1
    <3>2. CASE ~(k = l /\ s = x)
      <4>1. j \in {told[k][s]} \ {0}
        BY <2>5, <2>6, <3>2
      <4>2. Ready(s, j)
        BY <4>1 DEF Ahead, AnswersReady
      <4>3. QED
        BY <4>2, ReadyStays
    <3>3. QED
      BY <3>1, <3>2
  <2>7. claimed' \subseteq ItemIds
    BY <2>2, <2>4 DEF Ahead
  <2>8. QED
    BY <2>5, <2>6, <2>7 DEF AnswersReady
<1>5. UNCHANGED <<claimed, told>> \/ \E p \in Sessions : Picks(p)
  BY <1>2, ClaimStep DEF Pages, Ahead
<1>6. QED
  BY <1>3, <1>4, <1>5

(* With one request of the pages at a time answers and transfers lead on.  *)
LEMMA AheadHolds ==
  ASSUME PagesAlone
  PROVE  Spec => []Ahead
<1>1. ASSUME Init
      PROVE  Ahead
  <2>1. /\ told = [l \in Labs \cup {NoLab} |-> [s \in Samples |-> 0]] /\ claimed = {}
        /\ transfers = <<>>
    BY <1>1 DEF Init
  <2>2. Told(told) /\ AnswersReady
    BY <2>1 DEF Told, AnswersReady
  <2>3. \A s : Active(s) = {}
    BY <2>1 DEF Active, ActiveTransfers
  <2>4. QED
    BY <2>1, <2>2, <2>3 DEF Ahead
<1>2. ASSUME RowsInv, Fresh, AllSteady, Ahead, [Next]_vars
      PROVE  Ahead'
  <2>1. Pages
    BY <1>2, PagesThen
  <2>2. WipsChanged /\ TransfersChanged /\ SamplesChanged
    BY <1>2, StepFacts
  <2>3. claimed' \subseteq ItemIds /\ Told(told') /\ AnswersReady'
    BY <1>2, <2>1, <2>2, AnswersStayReady
  <2>4. ASSUME NEW s \in Samples, NEW t \in Active(s)'
        PROVE  Present(s)' /\ LeadsOn(s, t)'
    BY <1>2, <2>1, <2>2, OldTransferLeadsOn, NewTransferLeadsOn
  <2>5. QED
    BY <2>3, <2>4 DEF Ahead
<1>3. Alone
  BY DEF PagesAlone
<1>4. Spec => []Fresh
  BY <1>3, FreshHolds
<1>5. Spec => []AllSteady
  BY SteadyHolds
<1>6. QED
  BY <1>1, <1>2, <1>4, <1>5, RowsHold, PTL DEF Spec

(* WIPs are numbered from one on.                                          *)
LEMMA MineAreNumbers ==
  ASSUME WipRowsOk, NEW s
  PROVE  Mine(s) \in SUBSET (Nat \ {0})
<1>1. PICK n \in Nat : wips = [w \in 1..n |-> wips[w]]
  BY DEF WipRowsOk, IsList
<1>2. DOMAIN wips = 1..n
  BY <1>1
<1>3. 1..n \subseteq Nat \ {0} /\ Mine(s) \subseteq 1..n
  BY <1>2 DEF Mine
<1>4. QED
  BY <1>3

(* A route that fits names every item once.                                *)
LEMMA RouteOfPresent ==
  ASSUME RoutesFit, ExperimentsDiffer, Written, NEW s \in Samples, Present(s)
  PROVE  Names(samples[s].route, ItemsOf(s)) /\ ItemsOf(s) \in SUBSET ItemIds
<1>1. PICK c : samples[s].route = RouteOf(s, c)
  BY DEF Written
<1>2. Names(RouteOf(s, c), ItemsOf(s)) /\ ItemsOf(s) \in SUBSET ItemIds
  BY ItemFacts, RouteFacts DEF RoutesFit, ExperimentsDiffer
<1>3. QED
  BY <1>1, <1>2

(* A transfer under way leads to an experiment that may be created where   *)
(* it goes: the item that dependency/next chose by targets and machines,   *)
(* the next open one of its group, is the step that the route, grouped,    *)
(* offers next (claim_next_dependency_experiment, transfer_service,        *)
(* workflow_helpers).  It takes one request of the pages at a time, and    *)
(* targets that differ within a group, as the order page numbers them: of  *)
(* two with one target each side would choose in its own way.              *)
THEOREM SentOnwards ==
  ASSUME PagesAlone, RoutesFit, ExperimentsDiffer, TargetsDiffer
  PROVE  Spec => []SentWhereNeeded
<1>1. ASSUME RowsInv, AllSteady, Written, Ahead
      PROVE  SentWhereNeeded
  <2>1. ASSUME NEW t \in DOMAIN transfers, transfers[t].kind = "sample",
               transfers[t].status \in {"pending", "transferring"}
        PROVE  \E k \in CreatableByGroup(samples[transfers[t].of].route, wips, Mine(transfers[t].of)) :
                 GroupedRoute(samples[transfers[t].of].route)[k].lab = transfers[t].to
    <3>1. PICK s \in Samples : s = transfers[t].of
      BY <1>1, <2>1 DEF RowsInv, TransferRowsOk
    <3>2. t \in Active(s)
      BY <2>1, <3>1 DEF Active, ActiveTransfers
    <3>3. PICK i \in ItemsOf(s) : /\ Items[i].lab = transfers[t].to /\ Ready(s, i)
                                  /\ ~ItemDone(i, wips, Mine(s))
      BY <1>1, <3>2 DEF Ahead, LeadsOn
    <3>4. IncompleteWips(s) = {}
      BY <1>1, <3>2 DEF AllSteady, Steady, WipsHere
    <3>5. PICK mine \in SUBSET (Nat \ {0}) : mine = Mine(s)
      BY <1>1, MineAreNumbers DEF RowsInv
    <3>6. \A w \in mine : wips[w].status = "completed"
      BY <3>4, <3>5 DEF IncompleteWips
    <3>7. PICK S \in SUBSET ItemIds : S = ItemsOf(s) /\ OnceEach(S) /\ TargetsOnce(S)
      BY ItemFacts DEF ExperimentsDiffer, TargetsDiffer
    <3>8. PICK route : route = samples[s].route /\ Names(route, S)
      <4>1. Present(s)
        BY <1>1, <3>2 DEF Ahead
      <4>2. QED
        BY <1>1, <3>7, <4>1, RouteOfPresent
    <3>9. i \in S /\ ~ItemDone(i, wips, mine) /\ \A j \in S : DueBefore(j, i) => ItemDone(j, wips, mine)
      BY <3>3, <3>5, <3>7 DEF Ready
    <3>10. \E k \in CreatableByGroup(route, wips, mine) : GroupedRoute(route)[k].lab = Items[i].lab
      BY <3>6, <3>7, <3>8, <3>9, NextIsCreatable
    <3>11. QED
      BY <3>1, <3>3, <3>5, <3>8, <3>10
  <2>2. QED
    BY <2>1 DEF SentWhereNeeded
<1>2. QED
  BY <1>1, RowsHold, SteadyHolds, WrittenHolds, AheadHolds, PTL

-----------------------------------------------------------------------------
(* No sample is left behind: what there is to do for it where it is.       *)

(* Somebody works in every laboratory.                                     *)
Staffed == \A l \in Labs : \E u \in Staff : u.lab = l

(* The items of a sample are written group by group, in order.             *)
WrittenInOrder == \A s \in Samples : Sorted(ItemsOf(s))

(* The groups of a sample end in one laboratory.                           *)
EndsTogether ==
  \A s \in Samples : \A i, j \in ItemsOf(s) :
    Closes(s, i) /\ Closes(s, j) => Items[i].lab = Items[j].lab

(* An item of the laboratory that has the sample is next.                  *)
WorkHere(s) ==
  \E i \in ItemsOf(s) : /\ Items[i].lab = samples[s].at.lab /\ Ready(s, i)
                        /\ ~ItemDone(i, wips, Mine(s))

(* A sample that is neither on its way back nor there is where work on it  *)
(* is next or has begun, is shown there what was done elsewhere, and ends  *)
(* where a group ends.                                                     *)
Tended(s) ==
  samples[s].status \notin {"absent", "outbound", "picked_up"} =>
    /\ samples[s].status \in {"pending_receive", "received", "split", "pending_transfer"}
    /\ samples[s].at.lab \in Labs
    /\ \A w \in Mine(s) : wips[w].lab = samples[s].at.lab \/ SentToLab(s, samples[s].at.lab)
    /\ samples[s].status \in {"pending_receive", "received"} => WorkHere(s)
    /\ samples[s].status \in {"split", "pending_transfer"} =>
         \E w \in Mine(s) : wips[w].lab = samples[s].at.lab
    /\ AllDone(s) => \E e \in ItemsOf(s) : Closes(s, e) /\ Items[e].lab = samples[s].at.lab

(* The route of a sample ends with an item that closes its group.          *)
RouteCloses(s) ==
  Present(s) =>
    \E n \in Nat \ {0} :
      /\ DOMAIN samples[s].route = 1..n /\ Len(samples[s].route) = n
      /\ \E e \in ItemsOf(s) : Closes(s, e) /\ samples[s].route[n] = Step(e)

(* What a step of the pages does to a sample and its place.                *)
Onward(s) ==
  \/ /\ samples'[s].at.lab = samples[s].at.lab
     /\ \/ samples'[s].status = samples[s].status
        \/ samples[s].status = "pending_receive" /\ samples'[s].status = "received"
        \/ /\ samples[s].status \in {"split", "pending_transfer"}
           /\ samples'[s].status \in {"split", "pending_transfer"}
        \/ /\ samples[s].status = "received" /\ samples'[s].status = "split"
           /\ \E w \in Mine(s)' : wips'[w].lab = samples[s].at.lab
  \/ samples'[s].status \in {"outbound", "picked_up"}
  \/ /\ samples'[s].status = "pending_receive"
     /\ \E t \in Active(s) : samples'[s].at.lab = transfers[t].to
  \/ \E p \in Sessions : /\ sess[p].op = "deliver" /\ ~Present(s) /\ ItemsOf(s) # {}
                         /\ samples'[s] = Delivered(s, sess[p].found)

(* One sample changes.                                                     *)
LEMMA OneSampleOnward ==
  ASSUME SampleRowsOk, NEW x \in Samples, NEW row, samples' = [samples EXCEPT ![x] = row],
         samples'[x] = row => Onward(x)
  PROVE  \A s \in Samples : Onward(s)
<1>1. samples'[x] = row /\ \A s \in Samples : s # x => samples'[s] = samples[s]
  BY DEF SampleRowsOk
<1>2. QED
  BY <1>1 DEF Onward

(* A sample is received, announced or picked up.                           *)
LEMMA ReturnedOnward ==
  ASSUME PagesAlone, Pages, NEW p \in Sessions, Receive(p) \/ Outbound(p) \/ ConfirmPickup(p)
  PROVE  \A s \in Samples : Onward(s)
<1>0. sess[p].op \in {"receive", "outbound", "pickup"} /\ AskRight(sess[p])
  BY DEF Receive, Outbound, ConfirmPickup, Pages, Fresh, Nothing
<1>1. PICK x \in Samples, lab \in Labs \cup {NoLab} : x = sess[p].s /\ lab = sess[p].by.lab
  BY <1>0 DEF Pages, RequestOk, OfSampleOps
<1>2. /\ At(lab, "temp") \in Places /\ At(lab, "pickup") \in Places
      /\ At(NoLab, "with_applicant") \in Places /\ At(lab, "temp").lab = lab
  BY PlaceFacts DEF Areas
<1>3. IsSample(samples[x]) /\ SampleRowsOk
  BY DEF Pages
<1>4. CASE Receive(p)
  <2>1. samples[x].status = "pending_receive" /\ samples[x].at.lab = lab
    BY <1>0, <1>1, <1>4
       DEF PagesAlone, AskRight, SampleAskRight, PageReceives, InLab, Receive
  <2>2. PICK row : row = SampleWith(samples[x], "received", At(lab, "temp"), "received")
    OBVIOUS
  <2>3. Logged(AsReceived(samples[x], At(lab, "temp")), "received") = row
    BY <1>2, <1>3, <2>2, SampleForms DEF SampleStatuses
  <2>4. samples' = [samples EXCEPT ![x] = row]
    BY <1>1, <1>4, <2>3 DEF Receive
  <2>5. row.status = "received" /\ row.at.lab = lab
    BY <1>2, <2>2 DEF SampleWith
  <2>6. QED
    BY <1>3, <2>1, <2>4, <2>5, OneSampleOnward DEF Onward
<1>5. CASE Outbound(p)
  <2>1. PICK row : row = SampleWith(samples[x], "outbound", At(lab, "pickup"), "outbound")
    OBVIOUS
  <2>2. Logged(AsOutbound(samples[x], At(lab, "pickup")), "outbound") = row
    BY <1>2, <1>3, <2>1, SampleForms DEF SampleStatuses
  <2>3. samples' = [samples EXCEPT ![x] = row]
    BY <1>1, <1>5, <2>2 DEF Outbound
  <2>4. row.status = "outbound"
    BY <2>1 DEF SampleWith
  <2>5. QED
    BY <1>3, <2>3, <2>4, OneSampleOnward DEF Onward
<1>6. CASE ConfirmPickup(p)
  <2>1. PICK row : row = SampleWith(samples[x], "picked_up", At(NoLab, "with_applicant"), "picked_up")
    OBVIOUS
  <2>2. Logged(AsPickedUp(samples[x], At(NoLab, "with_applicant")), "picked_up") = row
    BY <1>2, <1>3, <2>1, SampleForms DEF SampleStatuses
  <2>3. samples' = [samples EXCEPT ![x] = row]
    BY <1>1, <1>6, <2>2 DEF ConfirmPickup
  <2>4. row.status = "picked_up"
    BY <2>1 DEF SampleWith
  <2>5. QED
    BY <1>3, <2>3, <2>4, OneSampleOnward DEF Onward
<1>7. QED
  BY <1>4, <1>5, <1>6

(* A sample is split: then a WIP of the laboratory is there.               *)
LEMMA SplitOnward ==
  ASSUME PagesAlone, Pages, NEW p \in Sessions, Split(p)
  PROVE  \A s \in Samples : Onward(s)
<1>0. sess[p].op = "split" /\ AskRight(sess[p])
  BY DEF Split, Pages, Fresh, Nothing
<1>1. PICK x \in Samples, lab \in Labs \cup {NoLab} : x = sess[p].s /\ lab = sess[p].by.lab
  BY <1>0 DEF Pages, RequestOk, OfSampleOps
<1>2. PICK place \in Places : place = At(lab, "temp") /\ place.lab = lab
  <2>1. At(lab, "temp") \in Places /\ At(lab, "temp").lab = lab
    BY PlaceFacts DEF Areas
  <2>2. QED
    BY <2>1
<1>3. PICK wanted \in SUBSET Experiments : wanted = sess[p].wanted
  BY DEF Pages, RequestOk, IsRequest
<1>4. /\ wanted \subseteq PageForms(sess[p].by, x) /\ wanted # {} /\ samples[x].at.lab = lab
      /\ samples[x].status \in {"received", "split", "pending_transfer"}
  BY <1>0, <1>1, <1>3 DEF AskRight, SampleAskRight, PagesAlone, PageSplits, InLab
<1>5. \A e \in wanted : e.lab = lab
  <2>1. IsList(samples[x].route)
    BY DEF Pages, IsSample
  <2>2. QED
    BY <1>1, <1>4, <2>1, FormsHere
<1>6. PICK missing \in SUBSET Experiments : missing = ToCreate(x, wanted)
  BY DEF ToCreate
<1>7. PICK new : new = SplitRows(x, missing, place) /\ RowsOfSplit(new, x, missing, place)
  BY SplitRowsFacts DEF Pages
<1>8. PICK N \in Nat :
        /\ new = [n \in 1..N |-> new[n]]
        /\ \A n \in 1..N : NewRow(new[n]) /\ new[n].sample = x
        /\ \A e \in missing : \E n \in 1..N : new[n].lab = e.lab /\ new[n].exp = e.exp
  <2>1. PICK N \in Nat :
          /\ new = [n \in 1..N |-> new[n]]
          /\ \A n \in 1..N : /\ IsWip(new[n]) /\ new[n].sample = x
                              /\ new[n].status = "waiting_schedule"
                              /\ [lab |-> new[n].lab, exp |-> new[n].exp] \in missing
          /\ \A e \in missing : \E n \in 1..N : new[n].lab = e.lab /\ new[n].exp = e.exp
    BY <1>7 DEF RowsOfSplit
  <2>2. \A n \in 1..N : NewRow(new[n])
    BY <1>0, <1>1, <1>3, <1>6, <2>1 DEF NewRow
  <2>3. QED
    BY <2>1, <2>2
<1>9. Added(new, N)
  <2>1. wips' = wips \o new
    BY <1>1, <1>2, <1>3, <1>6, <1>7 DEF Split
  <2>2. QED
    BY <1>8, <2>1, RowsAdded DEF Pages
<1>10. \E w \in Mine(x)' : wips'[w].lab = lab
  <2>1. PICK e \in wanted : e.lab = lab
    BY <1>4, <1>5
  <2>2. CASE ExistingWips(x, e) = {}
    <3>1. PICK n \in 1..N : new[n].lab = lab /\ new[n].sample = x
      BY <1>6, <1>8, <2>1, <2>2 DEF ToCreate
    <3>2. PICK w \in DOMAIN wips' : wips'[w] = new[n]
      BY <1>9 DEF Added
    <3>3. QED
      BY <3>1, <3>2 DEF Mine
  <2>3. CASE ExistingWips(x, e) # {}
    <3>1. PICK w \in DOMAIN wips : wips[w].sample = x /\ wips[w].lab = lab
      BY <2>1, <2>3 DEF ExistingWips, Mine
    <3>2. w \in DOMAIN wips' /\ wips'[w] = wips[w]
      BY <1>9 DEF Added
    <3>3. QED
      BY <3>1, <3>2 DEF Mine
  <2>4. QED
    BY <2>2, <2>3
<1>11. PICK row : row = SampleWith(samples[x], "split", place, "split")
  OBVIOUS
<1>12. samples' = [samples EXCEPT ![x] = row]
  <2>1. Logged(AsSplit(samples[x], place), "split") = row
    BY <1>11, SampleForms DEF Pages, SampleStatuses
  <2>2. QED
    BY <1>1, <1>2, <2>1 DEF Split
<1>13. row.status = "split" /\ row.at.lab = lab
  BY <1>2, <1>11 DEF SampleWith
<1>14. QED
  BY <1>4, <1>10, <1>12, <1>13, OneSampleOnward DEF Onward, Pages

(* The sample follows a completed run.                                     *)
LEMMA AdvanceOnward ==
  ASSUME Pages, NEW p \in Sessions, AdvanceSample(p)
  PROVE  \A s \in Samples : Onward(s)
<1>0. sess[p].op = "advance"
  BY DEF AdvanceSample
<1>1. PICK x \in Samples, w \in DOMAIN wips : x = sess[p].s /\ w = sess[p].w
  BY <1>0 DEF Pages, RequestOk, OfWipOps
<1>2. PICK lab \in Labs \cup {NoLab} : lab = wips[w].lab
  <2>1. [lab |-> wips[w].lab, exp |-> wips[w].exp] \in Experiments
    BY DEF Pages, WipRowsOk, IsWip
  <2>2. QED
    BY <2>1, ExperimentFacts
<1>3. /\ samples[x].at.lab = lab /\ samples[x].status \in {"split", "pending_transfer"}
  BY <1>0, <1>1, <1>2 DEF Pages, AllSteady, RunJustEnded
<1>4. CASE samples' = samples
  BY <1>4 DEF Onward
<1>5. CASE samples' # samples
  <2>1. PICK k : samples' = [samples EXCEPT ![x] = AfterCompletion(x, k, lab)]
    BY <1>1, <1>2, <1>5 DEF AdvanceSample
  <2>2. PICK st \in {"split", "pending_transfer"}, log \in SampleStatuses :
          AfterCompletion(x, k, lab) = SampleWith(samples[x], st, At(lab, "temp"), log)
    <3>1. IsSample(samples[x])
      BY DEF Pages
    <3>2. \E st \in {"split", "pending_transfer"}, log \in SampleStatuses :
            /\ AfterCompletion(x, k, lab) = SampleWith(samples[x], st, At(lab, "temp"), log)
            /\ log = st \/ (log = samples[x].log /\ st = "split" /\ k # Len(samples[x].route))
            /\ st = StatusAfter(samples[x].route, k, lab)
      BY <3>1, AfterCompletionFacts
    <3>3. QED
      BY <3>2
  <2>3. PICK row : row = SampleWith(samples[x], st, At(lab, "temp"), log)
    OBVIOUS
  <2>4. row.status = st /\ row.at.lab = lab
    BY <2>3 DEF SampleWith, At
  <2>5. samples' = [samples EXCEPT ![x] = row]
    BY <2>1, <2>2, <2>3
  <2>6. QED
    BY <1>3, <2>4, <2>5, OneSampleOnward DEF Onward, Pages
<1>6. QED
  BY <1>4, <1>5

(* A transfer is announced.                                                *)
LEMMA AnnounceOnward ==
  ASSUME PagesAlone, Pages, NEW p \in Sessions, CreateTransfer(p)
  PROVE  \A s \in Samples : Onward(s)
<1>0. sess[p].op = "transfer" /\ AskRight(sess[p])
  BY DEF CreateTransfer, Pages, Fresh, Nothing
<1>1. PICK x \in Samples, lab \in Labs : x = sess[p].s /\ lab = sess[p].by.lab
  BY <1>0 DEF Pages, RequestOk, IsRequest, OfSampleOps
<1>2. samples[x].at.lab = lab /\ sess[p].was = samples[x].status
  BY <1>0, <1>1 DEF AskRight, WorkAskRight, PagesAlone, InLab
<1>3. PICK place \in Places : place = WaitingArea(lab) /\ place.lab = lab
  <2>1. WaitingArea(lab) \in Places /\ WaitingArea(lab).lab = lab
    BY <1>1, PlaceFacts DEF WaitingArea, Areas
  <2>2. QED
    BY <2>1
<1>4. PICK was \in SampleStatuses : was = samples[x].status
  BY DEF Pages, IsSample
<1>5. PICK row : row = SampleWith(samples[x], was, place, was)
  OBVIOUS
<1>6. samples' = [samples EXCEPT ![x] = row]
  <2>1. Logged(Moved(samples[x], place), was) = row
    BY <1>4, <1>5, SampleForms DEF Pages
  <2>2. QED
    BY <1>1, <1>2, <1>3, <1>4, <2>1 DEF CreateTransfer
<1>7. row.status = samples[x].status /\ row.at.lab = samples[x].at.lab
  BY <1>2, <1>3, <1>4, <1>5 DEF SampleWith
<1>8. QED
  BY <1>6, <1>7, OneSampleOnward DEF Onward, Pages

(* A transfer is sent or cancelled.                                        *)
LEMMA MoveOnward ==
  ASSUME PagesAlone, Pages, NEW p \in Sessions, SendTransfer(p) \/ CancelTransfer(p)
  PROVE  \A s \in Samples : Onward(s)
<1>0. sess[p].op \in {"send", "cancel"} /\ AskRight(sess[p])
  BY DEF SendTransfer, CancelTransfer, Pages, Fresh, Nothing
<1>1. PICK t, of, from, to : /\ t = sess[p].t /\ of = transfers[t].of
                             /\ from = transfers[t].from /\ to = transfers[t].to
  OBVIOUS
<1>2. /\ from \in Labs /\ to \in Labs
      /\ transfers[t].kind = "sample" => of \in Samples /\ Active(of) = {t}
  BY <1>0, <1>1, MovedTransfer
<1>3. CASE transfers[t].kind # "sample"
  <2>1. samples' = samples
    BY <1>1, <1>3 DEF SendTransfer, CancelTransfer
  <2>2. QED
    BY <2>1 DEF Onward
<1>4. CASE transfers[t].kind = "sample"
  <2>1. PICK x \in Samples : x = of /\ Active(x) = {t}
    BY <1>2, <1>4
  <2>2. PICK st \in SampleStatuses : st = samples[x].status
    BY DEF Pages, IsSample
  <2>3. CASE SendTransfer(p)
    <3>1. PICK place \in Places : place = ReceiveArea(to) /\ place.lab = to
      <4>1. ReceiveArea(to) \in Places /\ ReceiveArea(to).lab = to
        BY <1>2, PlaceFacts DEF ReceiveArea, Areas
      <4>2. QED
        BY <4>1
    <3>2. PICK row : row = SampleWith(samples[x], "pending_receive", place, "pending_receive")
      OBVIOUS
    <3>3. Logged(AsPendingReceive(samples[x], place), "pending_receive") = row
      BY <3>2, SampleForms DEF Pages, SampleStatuses
    <3>4. samples' = [samples EXCEPT ![x] = row]
      BY <1>1, <1>4, <2>1, <2>3, <3>1, <3>3 DEF SendTransfer
    <3>5. row.status = "pending_receive" /\ row.at.lab = transfers[t].to
      BY <1>1, <3>1, <3>2 DEF SampleWith
    <3>6. QED
      BY <2>1, <3>4, <3>5, OneSampleOnward DEF Onward, Pages
  <2>4. CASE CancelTransfer(p)
    <3>1. PICK place \in Places : place = WaitingArea(from) /\ place.lab = from
      <4>1. WaitingArea(from) \in Places /\ WaitingArea(from).lab = from
        BY <1>2, PlaceFacts DEF WaitingArea, Areas
      <4>2. QED
        BY <4>1
    <3>2. PICK row : row = SampleWith(samples[x], st, place, st)
      OBVIOUS
    <3>3. Logged(Moved(samples[x], place), st) = row
      BY <2>2, <3>2, SampleForms DEF Pages
    <3>4. samples' = [samples EXCEPT ![x] = row]
      BY <1>1, <1>4, <2>1, <2>2, <2>4, <3>1, <3>3 DEF CancelTransfer
    <3>5. samples[x].at.lab = from
      <4>1. transfers[t].status = "pending" /\ Steady(x) /\ t \in Active(x)
        BY <1>0, <1>1, <2>1 DEF AskRight, WorkAskRight, Movable, Pages, AllSteady
      <4>2. QED
        BY <1>1, <4>1 DEF Steady, TransfersHere
    <3>6. row.status = samples[x].status /\ row.at.lab = samples[x].at.lab
      BY <2>2, <3>1, <3>2, <3>5 DEF SampleWith
    <3>7. QED
      BY <3>4, <3>6, OneSampleOnward DEF Onward, Pages
  <2>5. QED
    BY <2>3, <2>4
<1>5. QED
  BY <1>3, <1>4

(* What every step of the pages does, when no run is aborted.              *)
LEMMA StepOnward ==
  ASSUME PagesAlone, "terminated" \notin Operations, OpsOk, Pages, [Next]_vars
  PROVE  \A s \in Samples : Onward(s)
<1>1. ASSUME samples' = samples
      PROVE  \A s \in Samples : Onward(s)
  BY <1>1 DEF Onward
<1>2. ASSUME NEW p \in Sessions, SampleHandler(p)
      PROVE  \A s \in Samples : Onward(s)
  <2>1. Deliver(p) \/ Receive(p) \/ Outbound(p) \/ ConfirmPickup(p) \/ Split(p)
    BY <1>2, NotAsked DEF SampleHandler
  <2>2. CASE Deliver(p)
    <3>1. ASSUME NEW s \in Samples
          PROVE  Onward(s)
      <4>1. sess[p].op = "deliver"
        BY <2>2 DEF Deliver
      <4>2. samples'[s] = IF Present(s) \/ ItemsOf(s) = {} THEN samples[s]
                          ELSE Delivered(s, sess[p].found)
        BY <2>2 DEF Deliver
      <4>3. QED
        BY <4>1, <4>2 DEF Onward
    <3>2. QED
      BY <3>1
  <2>3. QED
    BY <2>1, <2>2, ReturnedOnward, SplitOnward
<1>3. ASSUME NEW p \in Sessions, WorkHandler(p)
      PROVE  \A s \in Samples : Onward(s)
  <2>1. CASE \/ ConfirmResult(p) \/ TerminateRun(p) \/ NextItem(p) \/ LoseFollowUp(p)
             \/ TransferNoTaken(p)
    BY <1>1, <2>1 DEF ConfirmResult, TerminateRun, RunEnds, NextItem, LoseFollowUp, TransferNoTaken, rows
  <2>2. ~WithdrawSample(p)
    BY DEF WithdrawSample, OpsOk
  <2>3. CASE AdvanceSample(p) \/ CreateTransfer(p) \/ SendTransfer(p) \/ CancelTransfer(p)
    BY <2>3, AdvanceOnward, AnnounceOnward, MoveOnward
  <2>4. QED
    BY <1>3, <2>1, <2>2, <2>3, NotAsked DEF WorkHandler
<1>4. CASE UNCHANGED vars
  BY <1>1, <1>4 DEF vars
<1>5. ASSUME NEW p \in Sessions, SampleRequest(p) \/ WorkRequest(p)
      PROVE  \A s \in Samples : Onward(s)
  BY <1>1, <1>5, RequestsChangeNothing
<1>6. QED
  BY <1>2, <1>3, <1>4, <1>5 DEF Next, AllPickedUp

(* After item i of a sample comes the one that closes its group.           *)
LEMMA GroupCloses ==
  ASSUME WrittenInOrder, NEW s \in Samples, NEW i \in ItemsOf(s)
  PROVE  \E e \in ItemsOf(s) :
           /\ Closes(s, e) /\ Items[e].group = Items[i].group
           /\ e = i \/ Items[i].target < Items[e].target
<1>1. PICK n \in Nat : ItemIds = 1..n
  BY ItemsAssumption DEF ItemIds
<1>2. PICK S \in SUBSET (1..n) : S = {j \in ItemsOf(s) : Items[j].group = Items[i].group}
  BY <1>1 DEF ItemsOf
<1>3. PICK u, v : u = [j \in 1..n |-> n - j] /\ v = [j \in 1..n |-> 0]
  OBVIOUS
<1>4. \E e \in S : \A j \in S : \/ u[e] < u[j]
                                \/ u[e] = u[j] /\ v[e] < v[j]
                                \/ u[e] = u[j] /\ v[e] = v[j] /\ e <= j
  <2>1. i \in S /\ S \in SUBSET Nat
    BY <1>2
  <2>2. \A j \in S : u[j] \in Nat /\ v[j] \in Nat
    BY <1>2, <1>3
  <2>3. QED
    BY <2>1, <2>2, LeastByThree
<1>5. PICK e \in S : \A j \in S : j <= e
  <2>1. PICK e \in S : \A j \in S : \/ u[e] < u[j]
                                    \/ u[e] = u[j] /\ v[e] < v[j]
                                    \/ u[e] = u[j] /\ v[e] = v[j] /\ e <= j
    BY <1>4
  <2>2. ASSUME NEW j \in S
        PROVE  j <= e
    <3>1. e \in 1..n /\ j \in 1..n
      BY <1>2
    <3>2. u[e] = n - e /\ u[j] = n - j /\ v[e] = 0 /\ v[j] = 0
      BY <1>3, <3>1
    <3>3. n - e < n - j \/ n - e = n - j
      BY <2>1, <2>2, <3>2
    <3>4. QED
      BY <3>1, <3>3
  <2>3. QED
    BY <2>2
<1>6. \A j \in ItemsOf(s) : /\ Items[j].target \in Nat /\ j \in Nat
                            /\ Items[j].group = Items[e].group /\ j # e =>
                                 j < e /\ Items[j].target < Items[e].target
  <2>1. \A j \in ItemsOf(s) : Items[j].target \in Nat /\ j \in Nat
    BY ItemFacts
  <2>2. ASSUME NEW j \in ItemsOf(s), Items[j].group = Items[e].group, j # e
        PROVE  j < e /\ Items[j].target < Items[e].target
    <3>1. j \in S
      BY <1>2, <2>2
    <3>2. j < e
      BY <1>2, <1>5, <2>2, <3>1
    <3>3. QED
      BY <1>2, <2>2, <3>2 DEF WrittenInOrder, Sorted
  <2>3. QED
    BY <2>1, <2>2
<1>7. e \in ItemsOf(s) /\ Items[e].group = Items[i].group
  BY <1>2
<1>8. Closes(s, e)
  <2>1. ASSUME NEW j \in ItemsOf(s), DueBefore(e, j)
        PROVE  FALSE
    <3>1. /\ e \in Nat /\ j \in Nat /\ Items[e].target \in Nat /\ Items[j].target \in Nat
          /\ j # e /\ Items[j].group = Items[e].group =>
               j < e /\ Items[j].target < Items[e].target
      BY <1>6, <1>7
    <3>2. /\ Items[j].group = Items[e].group
          /\ \/ Items[e].target < Items[j].target
             \/ Items[e].target = Items[j].target /\ e < j
      BY <2>1 DEF DueBefore
    <3>3. QED
      BY <3>1, <3>2
  <2>2. QED
    BY <1>7, <2>1 DEF Closes
<1>9. QED
  BY <1>6, <1>7, <1>8

(* A transfer stays that of its sample, to the same laboratory.            *)
LEMMA SentStays ==
  ASSUME TransfersChanged
  PROVE  /\ \A t \in DOMAIN transfers :
              /\ t \in DOMAIN transfers' /\ transfers'[t].kind = transfers[t].kind
              /\ transfers'[t].of = transfers[t].of /\ transfers'[t].to = transfers[t].to
         /\ \A s, lab : SentToLab(s, lab) => SentToLab(s, lab)'
<1>1. ASSUME NEW t \in DOMAIN transfers
      PROVE  /\ t \in DOMAIN transfers' /\ transfers'[t].kind = transfers[t].kind
             /\ transfers'[t].of = transfers[t].of /\ transfers'[t].to = transfers[t].to
  <2>1. t \in DOMAIN transfers' /\ TransferKept(t)
    BY DEF TransfersChanged
  <2>2. transfers'[t] = transfers[t] \/ \E st : transfers'[t] = TransferWith(transfers[t], st)
    BY <2>1 DEF TransferKept
  <2>3. QED
    BY <2>1, <2>2 DEF TransferWith
<1>2. QED
  BY <1>1 DEF SentToLab, OfSample

(* A new WIP is of a sample that is there, of the laboratory that has it.  *)
LEMMA NewWipHere ==
  ASSUME PagesAlone, Pages, WipsChanged, NEW s \in Samples, NEW w \in Mine(s)', w \notin DOMAIN wips
  PROVE  Present(s) /\ wips'[w].lab = samples[s].at.lab /\ wips'[w].status # "completed"
<1>1. w \in DOMAIN wips' /\ wips'[w].sample = s
  BY DEF Mine
<1>2. NewRow(wips'[w])
  BY <1>1 DEF WipsChanged
<1>3. PICK row : row = wips'[w]
  OBVIOUS
<1>4. PICK p \in Sessions :
        /\ row.sample = sess[p].s /\ sess[p].op = "split"
        /\ [lab |-> row.lab, exp |-> row.exp] \in ToCreate(sess[p].s, sess[p].wanted)
  BY <1>2, <1>3, OnlyPageRequests DEF NewRow
<1>5. Present(s) /\ sess[p].s = s
  BY <1>1, <1>3, <1>4 DEF Pages, RequestOk, OfSampleOps
<1>6. PageSplits(sess[p].by, s, sess[p].wanted)
  BY <1>4, <1>5 DEF Pages, Fresh, Nothing, AskRight, SampleAskRight, PagesAlone
<1>7. PICK x \in PageForms(sess[p].by, s) : x.lab = row.lab
  BY <1>4, <1>5, <1>6 DEF PageSplits, ToCreate
<1>8. IsList(samples[s].route)
  BY DEF Pages, IsSample
<1>9. x.lab = sess[p].by.lab
  BY <1>7, <1>8, FormsHere
<1>10. sess[p].by.lab = samples[s].at.lab
  BY <1>6 DEF PageSplits, InLab
<1>11. row.status # "completed"
  BY <1>2, <1>3 DEF NewRow
<1>12. QED
  BY <1>3, <1>5, <1>7, <1>9, <1>10, <1>11

(* The WIPs of a sample stay its own.                                      *)
LEMMA MineStay ==
  ASSUME WipRowsOk, WipsChanged, NEW s, NEW w \in Mine(s)', w \in DOMAIN wips
  PROVE  w \in Mine(s) /\ wips'[w].lab = wips[w].lab /\ wips'[w].exp = wips[w].exp
<1>1. wips'[w].sample = s
  BY DEF Mine
<1>2. QED
  BY <1>1, WipKept DEF Mine

(* What is done by a step had an open WIP in the laboratory that has the   *)
(* sample.                                                                 *)
LEMMA DoneHere ==
  ASSUME PagesAlone, Pages, WipsChanged, NEW s \in Samples, NEW i \in ItemsOf(s),
         ItemDone(i, wips, Mine(s))'
  PROVE  /\ \E w \in Mine(s) : SameExperiment(Items[i], wips[w])
         /\ ~ItemDone(i, wips, Mine(s)) => Items[i].lab = samples[s].at.lab
<1>1. PICK w \in Mine(s)' : SameExperiment(Items[i], wips'[w]) /\ wips'[w].status = "completed"
  BY DEF ItemDone
<1>2. w \in DOMAIN wips
  BY <1>1, NewWipHere
<1>3. w \in Mine(s) /\ wips'[w].lab = wips[w].lab /\ wips'[w].exp = wips[w].exp
  BY <1>1, <1>2, MineStay DEF Pages
<1>4. SameExperiment(Items[i], wips[w])
  BY <1>1, <1>3 DEF SameExperiment
<1>5. ASSUME ~ItemDone(i, wips, Mine(s))
      PROVE  Items[i].lab = samples[s].at.lab
  <2>1. w \in IncompleteWips(s)
    BY <1>3, <1>4, <1>5 DEF ItemDone, IncompleteWips
  <2>2. wips[w].lab = samples[s].at.lab
    BY <2>1 DEF Pages, AllSteady, Steady, WipsHere
  <2>3. QED
    BY <1>4, <2>2 DEF SameExperiment
<1>6. QED
  BY <1>3, <1>4, <1>5

(* Work on a sample that has no open WIP stays next.                       *)
LEMMA WorkStays ==
  ASSUME PagesAlone, Pages, WipsChanged, NEW s \in Samples, IncompleteWips(s) = {},
         NEW i \in ItemsOf(s), Ready(s, i), ~ItemDone(i, wips, Mine(s)),
         samples'[s].at.lab = Items[i].lab
  PROVE  WorkHere(s)' /\ ~AllDone(s)'
<1>1. Ready(s, i)'
  BY ReadyStays
<1>2. ~ItemDone(i, wips, Mine(s))'
  BY OpenStays DEF Pages
<1>3. QED
  BY <1>1, <1>2 DEF WorkHere, AllDone

(* A sample stays tended where it is.                                      *)
LEMMA TendedHere ==
  ASSUME PagesAlone, WrittenInOrder, Pages, InDependencyOrder, WipsChanged, TransfersChanged,
         NEW s \in Samples, Tended(s),
         samples[s].status \in {"pending_receive", "received", "split", "pending_transfer"},
         samples'[s].at.lab = samples[s].at.lab,
         \/ samples'[s].status = samples[s].status
         \/ samples[s].status = "pending_receive" /\ samples'[s].status = "received"
         \/ /\ samples[s].status \in {"split", "pending_transfer"}
            /\ samples'[s].status \in {"split", "pending_transfer"}
         \/ /\ samples[s].status = "received" /\ samples'[s].status = "split"
            /\ \E w \in Mine(s)' : wips'[w].lab = samples[s].at.lab
  PROVE  Tended(s)'
<1>1. /\ samples[s].at.lab \in Labs
      /\ \A w \in Mine(s) : wips[w].lab = samples[s].at.lab \/ SentToLab(s, samples[s].at.lab)
      /\ samples[s].status \in {"pending_receive", "received"} => WorkHere(s)
      /\ samples[s].status \in {"split", "pending_transfer"} =>
           \E w \in Mine(s) : wips[w].lab = samples[s].at.lab
      /\ AllDone(s) => \E e \in ItemsOf(s) : Closes(s, e) /\ Items[e].lab = samples[s].at.lab
  BY DEF Tended
<1>2. PICK lab \in Labs : lab = samples[s].at.lab /\ lab = samples'[s].at.lab
  BY <1>1
<1>3. \A w \in Mine(s)' : wips'[w].lab = lab \/ SentToLab(s, lab)'
  <2>1. ASSUME NEW w \in Mine(s)'
        PROVE  wips'[w].lab = lab \/ SentToLab(s, lab)'
    <3>1. CASE w \in DOMAIN wips
      <4>1. w \in Mine(s) /\ wips'[w].lab = wips[w].lab
        BY <2>1, <3>1, MineStay DEF Pages
      <4>2. SentToLab(s, lab) => SentToLab(s, lab)'
        BY SentStays
      <4>3. QED
        BY <1>1, <1>2, <4>1, <4>2
    <3>2. CASE w \notin DOMAIN wips
      BY <1>2, <2>1, <3>2, NewWipHere
    <3>3. QED
      BY <3>1, <3>2
  <2>2. QED
    BY <2>1
<1>4. ASSUME samples'[s].status \in {"pending_receive", "received"}
      PROVE  WorkHere(s)'
  <2>1. samples[s].status \in {"pending_receive", "received"}
    BY <1>4
  <2>2. IncompleteWips(s) = {}
    BY <2>1 DEF Pages, AllSteady, Steady, WipsHere
  <2>3. PICK i \in ItemsOf(s) : /\ Items[i].lab = samples[s].at.lab /\ Ready(s, i)
                                /\ ~ItemDone(i, wips, Mine(s))
    BY <1>1, <2>1 DEF WorkHere
  <2>4. QED
    BY <1>2, <2>2, <2>3, WorkStays
<1>5. ASSUME samples'[s].status \in {"split", "pending_transfer"}
      PROVE  \E w \in Mine(s)' : wips'[w].lab = lab
  <2>1. CASE samples[s].status \in {"split", "pending_transfer"}
    <3>1. PICK w \in Mine(s) : wips[w].lab = lab
      BY <1>1, <1>2, <2>1
    <3>2. w \in DOMAIN wips /\ wips[w].sample = s
      BY <3>1 DEF Mine
    <3>3. w \in DOMAIN wips' /\ wips'[w].sample = s /\ wips'[w].lab = lab
      BY <3>1, <3>2, WipKept DEF Pages
    <3>4. QED
      BY <3>3 DEF Mine
  <2>2. QED
    BY <1>2, <1>5, <2>1
<1>6. ASSUME AllDone(s)'
      PROVE  \E e \in ItemsOf(s) : Closes(s, e) /\ Items[e].lab = lab
  <2>1. CASE AllDone(s)
    BY <1>1, <1>2, <2>1
  <2>2. CASE ~AllDone(s)
    <3>1. PICK i \in ItemsOf(s) : ~ItemDone(i, wips, Mine(s))
      BY <2>2 DEF AllDone
    <3>2. Items[i].lab = lab
      BY <1>2, <1>6, <3>1, DoneHere DEF AllDone
    <3>3. PICK e \in ItemsOf(s) : /\ Closes(s, e) /\ Items[e].group = Items[i].group
                                  /\ e = i \/ Items[i].target < Items[e].target
      BY GroupCloses
    <3>4. \E w \in Mine(s) : SameExperiment(Items[e], wips[w])
      BY <1>6, DoneHere DEF AllDone
    <3>5. Items[e].lab = lab
      BY <3>1, <3>2, <3>3, <3>4 DEF InDependencyOrder
    <3>6. QED
      BY <3>3, <3>5
  <2>3. QED
    BY <2>1, <2>2
<1>7. samples'[s].status \in {"pending_receive", "received", "split", "pending_transfer"}
  OBVIOUS
<1>8. QED
  BY <1>2, <1>3, <1>4, <1>5, <1>6, <1>7 DEF Tended

(* A sample is tended where it is sent to.                                 *)
LEMMA TendedThere ==
  ASSUME PagesAlone, Pages, Ahead, WipsChanged, TransfersChanged,
         NEW s \in Samples, samples'[s].status = "pending_receive",
         NEW t \in Active(s), samples'[s].at.lab = transfers[t].to
  PROVE  Tended(s)'
<1>1. t \in DOMAIN transfers /\ transfers[t].kind = "sample" /\ transfers[t].of = s
  BY DEF Active, ActiveTransfers
<1>2. PICK lab \in Labs : lab = transfers[t].to
  BY <1>1 DEF Pages, TransferRowsOk, TransferRows
<1>3. PICK i \in ItemsOf(s) : /\ Items[i].lab = lab /\ Ready(s, i)
                              /\ ~ItemDone(i, wips, Mine(s))
  BY <1>2 DEF Ahead, LeadsOn
<1>4. IncompleteWips(s) = {}
  BY UnderWayAtRest
<1>5. WorkHere(s)' /\ ~AllDone(s)'
  BY <1>2, <1>3, <1>4, WorkStays
<1>6. SentToLab(s, lab)'
  <2>1. /\ t \in DOMAIN transfers' /\ transfers'[t].kind = "sample"
        /\ transfers'[t].of = s /\ transfers'[t].to = lab
    BY <1>1, <1>2, SentStays
  <2>2. QED
    BY <2>1 DEF SentToLab, OfSample
<1>7. samples'[s].at.lab = lab
  BY <1>2
<1>8. QED
  BY <1>5, <1>6, <1>7 DEF Tended

(* A sample is delivered where the first item of a group is; its route     *)
(* ends with the last one of a group.                                      *)
LEMMA DeliveredTended ==
  ASSUME PagesAlone, RoutesFit, ExperimentsDiffer, WrittenInOrder, Pages, Ahead, Promised,
         WipsChanged, NEW s \in Samples, NEW p \in Sessions, sess[p].op = "deliver",
         ~Present(s), ItemsOf(s) # {}, samples'[s] = Delivered(s, sess[p].found)
  PROVE  Tended(s)' /\ RouteCloses(s)'
<1>1. PICK found : found = sess[p].found /\ found = claimed
  BY DEF Pages, Fresh, Nothing, AskRight, SampleAskRight
<1>2. told[NoLab][s] # 0
  BY DEF Pages, Fresh, Nothing, AskRight, SampleAskRight, PagesAlone
<1>3. PICK i \in ItemsOf(s) : i = told[NoLab][s] /\ ItemsOf(s) \cap found = {i}
  BY <1>1, <1>2 DEF Promised
<1>4. Ready(s, i)
  BY <1>2, <1>3 DEF Ahead, AnswersReady
<1>5. Mine(s) = {} /\ Mine(s)' = {}
  <2>1. Mine(s) = {}
    BY DEF Pages, WipRowsOk, Mine
  <2>2. ASSUME NEW w \in Mine(s)'
        PROVE  FALSE
    BY <2>1, <2>2, NewWipHere, MineStay DEF Pages
  <2>3. QED
    BY <2>1, <2>2
<1>6. IncompleteWips(s) = {} /\ ~ItemDone(i, wips, Mine(s))
  BY <1>5 DEF IncompleteWips, ItemDone
<1>7. FirstLab(s, found) = Items[i].lab
  <2>1. DeliveryOrder(s, found)[1] = First(ItemsOf(s) \cap found)
        /\ First(ItemsOf(s) \cap found) \in ItemsOf(s) \cap found
    BY <1>3, DeliveryFacts
  <2>2. QED
    BY <1>3, <2>1 DEF FirstLab
<1>8. Items[i].lab \in Labs
  BY <1>3, ItemFacts, SamplesAssumption
<1>9. /\ samples'[s].status = "pending_receive" /\ samples'[s].at.lab = Items[i].lab
      /\ samples'[s].route = RouteOf(s, found)
  <2>1. /\ Delivered(s, found).status = "pending_receive"
        /\ Delivered(s, found).route = RouteOf(s, found)
        /\ Delivered(s, found).at = At(Items[i].lab, "receive")
    BY <1>7, DeliveredFacts
  <2>2. QED
    BY <1>1, <2>1 DEF At
<1>10. WorkHere(s)' /\ ~AllDone(s)'
  BY <1>4, <1>6, <1>9, WorkStays
<1>11. Tended(s)'
  BY <1>5, <1>8, <1>9, <1>10 DEF Tended
<1>12. \A j \in ItemsOf(s) : ~DueBefore(j, i)
  BY <1>4, <1>5 DEF Ready, ItemDone
<1>13. PICK route : route = RouteOf(s, found)
  OBVIOUS
<1>14. \E n \in Nat \ {0} :
         /\ DOMAIN route = 1..n /\ Len(route) = n
         /\ \E e \in ItemsOf(s) : Closes(s, e) /\ route[n] = Step(e)
  BY <1>3, <1>12, <1>13, RouteEnds DEF RoutesFit, ExperimentsDiffer, WrittenInOrder
<1>15. RouteCloses(s)'
  BY <1>9, <1>13, <1>14 DEF RouteCloses
<1>16. QED
  BY <1>11, <1>15

(* So a sample that is tended stays so, and its route as it was written.   *)
LEMMA TendedStep ==
  ASSUME PagesAlone, RoutesFit, ExperimentsDiffer, WrittenInOrder, Pages, Ahead, Promised,
         InDependencyOrder, WipsChanged, TransfersChanged, SamplesChanged,
         NEW s \in Samples, Onward(s), Tended(s), RouteCloses(s)
  PROVE  Tended(s)' /\ RouteCloses(s)'
<1>1. CASE \E p \in Sessions : /\ sess[p].op = "deliver" /\ ~Present(s) /\ ItemsOf(s) # {}
                               /\ samples'[s] = Delivered(s, sess[p].found)
  BY <1>1, DeliveredTended
<1>2. CASE ~\E p \in Sessions : /\ sess[p].op = "deliver" /\ ~Present(s) /\ ItemsOf(s) # {}
                                /\ samples'[s] = Delivered(s, sess[p].found)
  <2>1. Present(s)' => Present(s) /\ samples'[s].route = samples[s].route
    BY <1>2, SampleKept DEF Pages
  <2>2. RouteCloses(s)'
    <3>1. CASE Present(s)'
      <4>1. PICK route : route = samples[s].route /\ route = samples'[s].route
        BY <2>1, <3>1
      <4>2. \E n \in Nat \ {0} :
              /\ DOMAIN route = 1..n /\ Len(route) = n
              /\ \E e \in ItemsOf(s) : Closes(s, e) /\ route[n] = Step(e)
        BY <2>1, <3>1, <4>1 DEF RouteCloses
      <4>3. QED
        BY <4>1, <4>2 DEF RouteCloses
    <3>2. CASE ~Present(s)'
      BY <3>2 DEF RouteCloses
    <3>3. QED
      BY <3>1, <3>2
  <2>3. CASE samples'[s].status \in {"absent", "outbound", "picked_up"}
    BY <2>2, <2>3 DEF Tended
  <2>4. CASE samples'[s].status \notin {"absent", "outbound", "picked_up"}
    <3>1. CASE /\ samples'[s].status = "pending_receive"
               /\ \E t \in Active(s) : samples'[s].at.lab = transfers[t].to
      BY <2>2, <3>1, TendedThere
    <3>2. CASE /\ samples'[s].at.lab = samples[s].at.lab
               /\ \/ samples'[s].status = samples[s].status
                  \/ samples[s].status = "pending_receive" /\ samples'[s].status = "received"
                  \/ /\ samples[s].status \in {"split", "pending_transfer"}
                     /\ samples'[s].status \in {"split", "pending_transfer"}
                  \/ /\ samples[s].status = "received" /\ samples'[s].status = "split"
                     /\ \E w \in Mine(s)' : wips'[w].lab = samples[s].at.lab
      <4>1. samples[s].status \in {"pending_receive", "received", "split", "pending_transfer"}
        BY <2>4, <3>2 DEF Tended
      <4>2. QED
        BY <2>2, <3>2, <4>1, TendedHere
    <3>3. QED
      BY <1>2, <2>4, <3>1, <3>2 DEF Onward
  <2>5. QED
    BY <2>2, <2>3, <2>4
<1>3. QED
  BY <1>1, <1>2

(* With one request of the pages at a time no WIP is reset, so that its    *)
(* dependency order is kept.                                               *)
LEMMA PagesKeepOrder ==
  ASSUME PagesAlone, RoutesFit, ExperimentsDiffer
  PROVE  Spec => []InDependencyOrder
<1>1. ASSUME Init
      PROVE  AllLed
  BY <1>1 DEF Init, AllLed, RequestLed, Idle
<1>2. ASSUME RowsInv, Fresh, AllSteady, Written, AllLed, [Next]_vars
      PROVE  AllLed'
  <2>1. Pages
    BY <1>2, PagesThen
  <2>2. \A w : ~Reset(w)
    BY <2>1, OnlyPageRequests DEF Reset
  <2>3. QED
    BY <1>2, <2>2, LedStep
<1>3. Alone
  BY DEF PagesAlone
<1>4. Spec => []Fresh
  BY <1>3, FreshHolds
<1>5. Spec => []AllSteady
  BY SteadyHolds
<1>6. AllLed => InDependencyOrder
  BY LedInOrder
<1>7. QED
  BY <1>1, <1>2, <1>4, <1>5, <1>6, RowsHold, WrittenHolds, PTL DEF Spec

(* No run is aborted, every sample is tended and every route ends well.    *)
NothingAborted == \A w \in DOMAIN wips : wips[w].status # "terminated"

Attended == NothingAborted /\ \A s \in Samples : Tended(s) /\ RouteCloses(s)

LEMMA AttendedHolds ==
  ASSUME PagesAlone, RoutesFit, ExperimentsDiffer, WrittenInOrder, Room # 0,
         "terminated" \notin Operations
  PROVE  Spec => []Attended
<1>1. ASSUME Init
      PROVE  Attended
  <2>1. samples = [s \in Samples |-> NoSample] /\ wips = <<>>
    BY <1>1 DEF Init
  <2>2. \A s \in Samples : samples[s].status = "absent"
    BY <2>1 DEF NoSample
  <2>3. QED
    BY <2>1, <2>2 DEF Attended, NothingAborted, Tended, RouteCloses, Present
<1>2. ASSUME RowsInv, OpsOk, Fresh, AllSteady, Ahead, Promised, InDependencyOrder, Attended, [Next]_vars
      PROVE  Attended'
  <2>1. Pages
    BY <1>2, PagesThen
  <2>2. WipsChanged /\ TransfersChanged /\ SamplesChanged
    BY <1>2, StepFacts
  <2>3. \A s \in Samples : Onward(s)
    BY <1>2, <2>1, StepOnward
  <2>4. ASSUME NEW s \in Samples
        PROVE  Tended(s)' /\ RouteCloses(s)'
    <3>1. Onward(s) /\ Tended(s) /\ RouteCloses(s)
      BY <1>2, <2>3 DEF Attended
    <3>2. QED
      BY <1>2, <2>1, <2>2, <3>1, TendedStep
  <2>5. ASSUME NEW w \in DOMAIN wips'
        PROVE  wips'[w].status # "terminated"
    <3>1. CASE w \in DOMAIN wips
      <4>1. wips[w].status # "terminated" /\ ~Reset(w)
        BY <1>2, <2>1, <3>1, OnlyPageRequests DEF Attended, NothingAborted, Reset
      <4>2. QED
        BY <2>1, <2>2, <3>1, <4>1, WipKept DEF Pages
    <3>2. CASE w \notin DOMAIN wips
      BY <2>2, <2>5, <3>2 DEF WipsChanged, NewRow
    <3>3. QED
      BY <3>1, <3>2
  <2>6. QED
    BY <2>4, <2>5 DEF Attended, NothingAborted
<1>3. Alone /\ Guided
  BY DEF PagesAlone
<1>4. Spec => []Fresh
  BY <1>3, FreshHolds
<1>5. Spec => []AllSteady
  BY SteadyHolds
<1>6. Spec => []Ahead
  BY AheadHolds
<1>7. Spec => []Promised
  BY <1>3, PromisedHolds
<1>8. Spec => []InDependencyOrder
  BY PagesKeepOrder
<1>9. QED
  BY <1>1, <1>2, <1>4, <1>5, <1>6, <1>7, <1>8, RowsHold, OpsHold, PTL DEF Spec

(* Items written in order have targets of their own.                       *)
LEMMA TargetsInOrder ==
  ASSUME WrittenInOrder
  PROVE  TargetsDiffer
<1>1. ASSUME NEW s \in Samples, NEW i \in ItemsOf(s), NEW j \in ItemsOf(s),
             Items[i].group = Items[j].group, Items[i].target = Items[j].target
      PROVE  i = j
  <2>1. i \in Nat /\ j \in Nat /\ Items[i].target \in Nat /\ Items[j].target \in Nat
    BY <1>1, ItemFacts
  <2>2. /\ i < j => Items[i].target < Items[j].target
        /\ j < i => Items[j].target < Items[i].target
    BY <1>1 DEF WrittenInOrder, Sorted
  <2>3. QED
    BY <1>1, <2>1, <2>2
<1>2. QED
  BY <1>1 DEF TargetsDiffer, TargetsOnce

(* As long as an item is open, dependency/next has one to give.            *)
LEMMA NextExists ==
  ASSUME NEW s, NEW table, NEW mine, NEW i \in ItemsOf(s), ~ItemDone(i, table, mine)
  PROVE  /\ NextCandidates(s, table, mine) # {}
         /\ NextCandidates(s, table, mine) \in SUBSET ItemIds
         /\ \A j \in NextCandidates(s, table, mine) : ~ItemDone(j, table, mine)
<1>1. PICK open \in SUBSET ItemIds : open = {j \in ItemsOf(s) : ~ItemDone(j, table, mine)}
  BY ItemFacts
<1>2. NextCandidates(s, table, mine) =
        {e \in open : \A j \in open : Items[j].group = Items[e].group =>
                        \/ Items[e].target < Items[j].target
                        \/ Items[e].target = Items[j].target /\ e <= j}
  BY <1>1 DEF NextCandidates
<1>3. PICK S \in SUBSET open : S = {j \in open : Items[j].group = Items[i].group}
  OBVIOUS
<1>4. PICK u, v : u = [j \in ItemIds |-> Items[j].target] /\ v = [j \in ItemIds |-> 0]
  OBVIOUS
<1>5. \E e \in S : \A j \in S : \/ u[e] < u[j]
                                \/ u[e] = u[j] /\ v[e] < v[j]
                                \/ u[e] = u[j] /\ v[e] = v[j] /\ e <= j
  <2>1. i \in S
    BY <1>1, <1>3
  <2>2. S \in SUBSET Nat /\ \A j \in S : u[j] \in Nat /\ v[j] \in Nat
    BY <1>4, ItemFacts
  <2>3. QED
    BY <2>1, <2>2, LeastByThree
<1>6. PICK e \in S : \A j \in S : \/ Items[e].target < Items[j].target
                                  \/ Items[e].target = Items[j].target /\ e <= j
  <2>1. \A j \in S : u[j] = Items[j].target /\ v[j] = 0
    BY <1>4
  <2>2. QED
    BY <1>5, <2>1
<1>7. e \in NextCandidates(s, table, mine)
  BY <1>2, <1>3, <1>6
<1>8. QED
  BY <1>1, <1>2, <1>7

(* Of the laboratory that has a sample somebody is shown it.               *)
LEMMA LabStaff ==
  ASSUME Staffed, NEW s \in Samples, Present(s), samples[s].at.lab \in Labs
  PROVE  \E u \in Staff : /\ u.lab = samples[s].at.lab /\ u.lab \in Labs /\ u.lab # NoLab
                          /\ InLab(u, samples[s].at) /\ s \in SamplesOf(u)
<1>1. PICK u \in Staff : u.lab = samples[s].at.lab
  BY DEF Staffed
<1>2. u.lab # NoLab
  BY <1>1, SamplesAssumption DEF NoLab
<1>3. InLab(u, samples[s].at)
  BY <1>1, <1>2 DEF InLab
<1>4. QED
  BY <1>1, <1>2, <1>3 DEF SamplesOf, SampleListed

(* The laboratory that has a sample is shown all WIPs of it: those by that *)
(* list, and by the list of the split page its own and, once it was sent   *)
(* the sample, the others.                                                 *)
LEMMA ShownToLab ==
  ASSUME NEW s \in Samples, NEW u, u.lab # NoLab, InLab(u, samples[s].at)
  PROVE  /\ FlowWipsOf(u, s) = Mine(s)
         /\ (\A w \in Mine(s) : wips[w].lab = samples[s].at.lab \/ SentToLab(s, samples[s].at.lab))
              => WipsOf(u, s) = Mine(s)
<1>1. u.lab = samples[s].at.lab /\ \A w \in Mine(s) : wips[w].sample = s
  BY DEF InLab, Mine
<1>2. FlowWipsOf(u, s) = Mine(s)
  BY <1>1 DEF FlowWipsOf, FlowListed
<1>3. QED
  BY <1>1, <1>2 DEF WipsOf, WipListed

(* The page offers the step of an item that is next in the laboratory.     *)
LEMMA FormOffered ==
  ASSUME NEW s \in Samples, OnceEach(ItemsOf(s)), TargetsOnce(ItemsOf(s)),
         NEW u, WipsOf(u, s) = Mine(s), Names(samples[s].route, ItemsOf(s)),
         IncompleteWips(s) = {}, NEW i \in ItemsOf(s), Items[i].lab = u.lab, Ready(s, i),
         ~ItemDone(i, wips, Mine(s))
  PROVE  [lab |-> Items[i].lab, exp |-> Items[i].exp] \in PageForms(u, s)
<1>1. PICK route : route = samples[s].route
  OBVIOUS
<1>2. PICK M \in Nat :
        /\ route \in [1..M -> {Step(j) : j \in ItemsOf(s)}]
        /\ \A j \in ItemsOf(s) : \E m \in 1..M : route[m] = Step(j)
        /\ \A a, b \in 1..M : route[a] = route[b] => a = b
  BY <1>1 DEF Names
<1>3. PICK k \in 1..M : route[k] = Step(i)
  BY <1>2
<1>4. \A j \in ItemsOf(s) : /\ Step(j).lab = Items[j].lab /\ Step(j).exp = Items[j].exp
                            /\ Step(j).group = Items[j].group /\ Step(j).target = Items[j].target
                            /\ Items[j].target \in Nat
  BY ItemFacts DEF Step
<1>5. \A w \in Mine(s) : wips[w].status = "completed"
  BY DEF IncompleteWips
<1>6. \A n \in 1..M : SeenDone(u, s, n) <=> \E w \in Mine(s) : SameExperiment(route[n], wips[w])
  BY <1>1, <1>5 DEF SeenDone, CompletedWips
<1>7. \A j \in ItemsOf(s), n \in 1..M : route[n] = Step(j) =>
        (SeenDone(u, s, n) <=> ItemDone(j, wips, Mine(s)))
  BY <1>4, <1>5, <1>6 DEF ItemDone, SameExperiment
<1>8. ASSUME NEW n \in 1..M, route[n].group = route[k].group, n # k,
             \/ route[n].target < route[k].target
             \/ route[n].target = route[k].target
      PROVE  SeenDone(u, s, n) /\ route[n].target < route[k].target
  <2>1. PICK j \in ItemsOf(s) : route[n] = Step(j)
    BY <1>2, <1>8
  <2>2. Items[j].group = Items[i].group /\ j # i
    BY <1>2, <1>3, <1>4, <1>8, <2>1
  <2>3. Items[j].target # Items[i].target
    BY <2>2 DEF TargetsOnce
  <2>4. Items[j].target < Items[i].target
    BY <1>3, <1>4, <1>8, <2>1, <2>3
  <2>5. ItemDone(j, wips, Mine(s))
    BY <2>2, <2>4 DEF Ready, DueBefore
  <2>6. QED
    BY <1>3, <1>4, <1>7, <2>1, <2>4, <2>5
<1>9. ~SeenDone(u, s, k)
  BY <1>3, <1>7
<1>10. PICK x : x = [lab |-> Items[i].lab, exp |-> Items[i].exp] /\ x \in Experiments
  BY ItemFacts, ExperimentFacts
<1>11. x.lab = Items[i].lab /\ x.exp = Items[i].exp /\ SameExperiment(route[k], x)
  BY <1>3, <1>4, <1>10 DEF SameExperiment
<1>12. ExistingWips(s, x) = {}
  BY <1>5, <1>11 DEF ExistingWips, ItemDone, SameExperiment
<1>13. route[k].lab = u.lab /\ route[k].target \in Nat
  BY <1>3, <1>4
<1>14. \A n \in 1..M : route[n].target \in Nat
  BY <1>2, <1>4
<1>15. DOMAIN samples[s].route = 1..M /\ k \in Nat
  BY <1>1, <1>2
<1>16. \A n \in 1..M :
         /\ route[n].group = route[k].group /\ n # k
         /\ \/ route[n].target < route[k].target
            \/ route[n].target = route[k].target /\ n <= k
         => SeenDone(u, s, n)
  BY <1>8
<1>17. \A n \in 1..M :
         /\ route[k].group = route[n].group
         /\ \/ route[k].target < route[n].target
            \/ route[k].target = route[n].target /\ k <= n
         /\ route[n].group = route[k].group
         /\ \/ route[n].target < route[k].target
            \/ route[n].target = route[k].target /\ n <= k
         => route[n].lab = u.lab
  <2>1. ASSUME NEW n \in 1..M, n # k, route[n].group = route[k].group,
               route[k].target < route[n].target \/ route[k].target = route[n].target,
               route[n].target < route[k].target \/ route[n].target = route[k].target
        PROVE  FALSE
    <3>1. route[n].target < route[k].target
      BY <1>8, <2>1
    <3>2. QED
      BY <1>13, <1>14, <2>1, <3>1
  <2>2. QED
    BY <1>13, <2>1
<1>18. QED
  <2> DEFINE Ranked(j, l) == /\ route[j].group = route[l].group
                             /\ \/ route[j].target < route[l].target
                                \/ route[j].target = route[l].target /\ j <= l
             Start(l) == /\ ~SeenDone(u, s, l)
                         /\ \A j \in DOMAIN route : Ranked(j, l) /\ j # l => SeenDone(u, s, j)
             InRun(l) == \E f \in DOMAIN route :
                           /\ Start(f) /\ Ranked(f, l)
                           /\ \A j \in DOMAIN route :
                                Ranked(f, j) /\ Ranked(j, l) => route[j].lab = u.lab
  <2>1. PageForms(u, s) =
          {e \in Experiments : /\ ExistingWips(s, e) = {}
                               /\ \E l \in DOMAIN route : InRun(l) /\ SameExperiment(route[l], e)}
    BY <1>1 DEF PageForms
  <2>2. DOMAIN route = 1..M
    BY <1>1, <1>15
  <2>3. Start(k)
    BY <1>9, <1>16, <2>2
  <2>4. Ranked(k, k)
    BY <1>15
  <2>5. \A j \in DOMAIN route : Ranked(k, j) /\ Ranked(j, k) => route[j].lab = u.lab
    BY <1>17, <2>2
  <2> HIDE DEF Ranked, Start
  <2>6. InRun(k)
    BY <1>3, <2>2, <2>3, <2>4, <2>5
  <2> HIDE DEF InRun
  <2>7. QED
    BY <1>10, <1>11, <1>12, <2>1, <2>2, <2>6

(* So it offers to split the sample, and the service accepts.              *)
LEMMA SplitOffered ==
  ASSUME RoutesFit, ExperimentsDiffer, TargetsDiffer, WipRowsOk, Written,
         NEW s \in Samples, Present(s), IncompleteWips(s) = {}, Active(s) = {},
         samples[s].status \in {"received", "split", "pending_transfer"}, WorkHere(s),
         NEW u, InLab(u, samples[s].at), s \in SamplesOf(u), WipsOf(u, s) = Mine(s)
  PROVE  \E x \in Experiments :
           PageSplits(u, s, {x}) /\ CreateInOrder(samples[s].route, wips, Mine(s), {x})
<1>1. PICK i \in ItemsOf(s) : /\ Items[i].lab = samples[s].at.lab /\ Ready(s, i)
                              /\ ~ItemDone(i, wips, Mine(s))
  BY DEF WorkHere
<1>2. PICK S \in SUBSET ItemIds : S = ItemsOf(s) /\ OnceEach(S) /\ TargetsOnce(S)
  BY ItemFacts DEF ExperimentsDiffer, TargetsDiffer
<1>3. PICK route : route = samples[s].route /\ Names(route, S)
  BY <1>2, RouteOfPresent
<1>4. PICK x \in Experiments : x = [lab |-> Items[i].lab, exp |-> Items[i].exp]
  BY <1>1, ItemFacts, ExperimentFacts
<1>5. u.lab = samples[s].at.lab
  BY DEF InLab
<1>6. x \in PageForms(u, s)
  BY <1>1, <1>2, <1>3, <1>4, <1>5, FormOffered
<1>7. PageSplits(u, s, {x})
  BY <1>6 DEF PageSplits, SampleUnderWay, Active
<1>8. PICK mine \in SUBSET (Nat \ {0}) : mine = Mine(s) /\ \A w \in mine : wips[w].status = "completed"
  BY MineAreNumbers DEF IncompleteWips
<1>9. /\ i \in S /\ ~ItemDone(i, wips, mine) /\ x.lab = Items[i].lab /\ x.exp = Items[i].exp
      /\ \A j \in S : DueBefore(j, i) => ItemDone(j, wips, mine)
  BY <1>1, <1>2, <1>4, <1>8 DEF Ready
<1>10. CreateInOrder(route, wips, mine, {x})
  BY <1>2, <1>3, <1>8, <1>9, NextMayBeCreated
<1>11. QED
  BY <1>3, <1>7, <1>8, <1>10

(* A sample with completed WIPs in its laboratory, and none that are open, *)
(* is on the transfer page of the laboratory.                              *)
LEMMA ShownThere ==
  ASSUME NEW s \in Samples, NEW u, u.lab # NoLab, InLab(u, samples[s].at), s \in SamplesOf(u),
         samples[s].status \in {"split", "pending_transfer"}, IncompleteWips(s) = {},
         NEW w \in Mine(s), wips[w].lab = samples[s].at.lab
  PROVE  PageShows(u, s)
<1>1. FlowWipsOf(u, s) = Mine(s)
  BY ShownToLab
<1>2. Mine(s) \subseteq CompletedWips(s)
  BY DEF IncompleteWips, CompletedWips
<1>3. w \in {v \in FlowWipsOf(u, s) : wips[v].lab = u.lab}
  BY <1>1 DEF InLab
<1>4. QED
  BY <1>1, <1>2, <1>3 DEF PageShows

(* When all its items are done the page offers to announce the sample for  *)
(* pickup, and the service accepts.                                        *)
LEMMA PickupOffered ==
  ASSUME RoutesFit, Written, EndsTogether, NEW s \in Samples, Present(s), AllDone(s),
         IncompleteWips(s) = {}, RouteCloses(s),
         NEW d \in ItemsOf(s), Closes(s, d), Items[d].lab = samples[s].at.lab,
         NEW u, u.lab # NoLab, InLab(u, samples[s].at), PageShows(u, s)
  PROVE  PageNotifies(u, s) /\ RouteCompleted(s)
<1>1. FlowWipsOf(u, s) = Mine(s)
  BY ShownToLab
<1>2. Mine(s) \subseteq CompletedWips(s)
  BY DEF IncompleteWips, CompletedWips
<1>3. PICK route : route = samples[s].route
  OBVIOUS
<1>4. ASSUME NEW k \in DOMAIN route
      PROVE  \E w \in CompletedWips(s) : SameExperiment(route[k], wips[w])
  <2>1. PICK i \in ItemsOf(s) : route[k] = Step(i)
    BY <1>3, RouteNamesItems
  <2>2. PICK w \in Mine(s) : SameExperiment(Items[i], wips[w]) /\ wips[w].status = "completed"
    BY DEF AllDone, ItemDone
  <2>3. SameExperiment(route[k], wips[w])
    BY <2>1, <2>2 DEF SameExperiment, Step
  <2>4. QED
    BY <2>2, <2>3 DEF CompletedWips
<1>5. RouteCompleted(s)
  BY <1>3, <1>4 DEF RouteCompleted, StepDone
<1>6. Last(route).lab = u.lab
  <2>1. PICK n \in Nat \ {0}, e \in ItemsOf(s) : Len(route) = n /\ Closes(s, e) /\ route[n] = Step(e)
    BY <1>3 DEF RouteCloses
  <2>2. Items[e].lab = Items[d].lab
    BY <2>1 DEF EndsTogether
  <2>3. QED
    BY <2>1, <2>2 DEF Last, Step, InLab
<1>7. \A k \in DOMAIN route : \E w \in FlowWipsOf(u, s) : SameExperiment(route[k], wips[w])
  BY <1>1, <1>4 DEF CompletedWips
<1>8. QED
  BY <1>1, <1>2, <1>3, <1>5, <1>6, <1>7 DEF PageNotifies

(* When nothing is next where the sample is, the page is told to send it   *)
(* elsewhere.                                                              *)
LEMMA TransferOffered ==
  ASSUME Ahead, NEW s \in Samples, ~AllDone(s), ~WorkHere(s), NEW lab \in Labs,
         lab = samples[s].at.lab, NEW d \in Destinations(lab, s)
  PROVE  d # 0 /\ Items[d].lab # lab
<1>1. PICK table, mine : table = wips /\ mine = Mine(s)
  OBVIOUS
<1>2. PICK i \in ItemsOf(s) : ~ItemDone(i, table, mine)
  BY <1>1 DEF AllDone
<1>3. /\ NextCandidates(s, table, mine) # {}
      /\ NextCandidates(s, table, mine) \in SUBSET ItemIds
      /\ \A j \in NextCandidates(s, table, mine) : ~ItemDone(j, table, mine)
  BY <1>2, NextExists
<1>4. Ready(s, d) /\ ~ItemDone(d, wips, Mine(s))
  <2>1. CASE told[lab][s] # 0 /\ ~ItemDone(told[lab][s], wips, Mine(s))
    <3>1. d = told[lab][s]
      BY <2>1 DEF Destinations
    <3>2. QED
      BY <2>1, <3>1 DEF Ahead, AnswersReady
  <2>2. CASE ~(told[lab][s] # 0 /\ ~ItemDone(told[lab][s], wips, Mine(s)))
    <3>1. PICK park \in Parks : d = Chosen(NextCandidates(s, table, mine), claimed, claimed, park)
      BY <1>1, <2>2 DEF Destinations
    <3>2. d \in NextCandidates(s, table, mine)
      BY <1>3, <3>1, ChosenFacts
    <3>3. d \in ItemsOf(s) /\ \A j \in ItemsOf(s) : DueBefore(j, d) => ItemDone(j, table, mine)
      BY <3>2, CandidateIsNext
    <3>4. QED
      BY <1>1, <1>3, <3>2, <3>3 DEF Ready
  <2>3. QED
    BY <2>1, <2>2
<1>5. d \in ItemsOf(s) /\ d # 0
  BY <1>4, ItemFacts DEF Ready
<1>6. Items[d].lab # lab
  BY <1>4, <1>5 DEF WorkHere
<1>7. QED
  BY <1>5, <1>6

(* A sample that is under way can be sent or its transfer be cancelled.    *)
LEMMA MoveOffered ==
  ASSUME Pages, NEW s \in Samples, samples[s].status # "pending_receive",
         NEW t \in Active(s), NEW u, u.lab # NoLab, u.lab = samples[s].at.lab
  PROVE  t \in TransfersOf(u) /\ FromOwnLab(u, transfers[t].from) /\ Movable(t)
<1>1. t \in DOMAIN transfers /\ transfers[t].status \in {"pending", "transferring"}
  BY DEF Active, ActiveTransfers
<1>2. transfers[t].status = "pending" /\ samples[s].at.lab = transfers[t].from
  BY <1>1 DEF Pages, AllSteady, Steady, TransfersHere
<1>3. QED
  BY <1>1, <1>2 DEF TransfersOf, TransferListed, FromOwnLab, Movable

(* So whatever the state of a sample, some page takes it further.          *)
LEMMA AlwaysMoves ==
  ASSUME PagesAlone, Staffed, RoutesFit, ExperimentsDiffer, WrittenInOrder, EndsTogether,
         Pages, Ahead, Written, Attended,
         NEW s \in Samples, Present(s), samples[s].status # "picked_up"
  PROVE  CanMove(s)
<1>1. CASE samples[s].status = "outbound"
  BY <1>1 DEF CanMove
<1>2. CASE samples[s].status # "outbound"
  <2>1. /\ samples[s].status \in {"pending_receive", "received", "split", "pending_transfer"}
        /\ samples[s].at.lab \in Labs
        /\ \A w \in Mine(s) : wips[w].lab = samples[s].at.lab \/ SentToLab(s, samples[s].at.lab)
        /\ samples[s].status \in {"pending_receive", "received"} => WorkHere(s)
        /\ samples[s].status \in {"split", "pending_transfer"} =>
             \E w \in Mine(s) : wips[w].lab = samples[s].at.lab
        /\ AllDone(s) => \E e \in ItemsOf(s) : Closes(s, e) /\ Items[e].lab = samples[s].at.lab
    BY <1>2 DEF Attended, Tended, Present
  <2>2. PICK u \in Staff : /\ u.lab = samples[s].at.lab /\ u.lab \in Labs /\ u.lab # NoLab
                           /\ InLab(u, samples[s].at) /\ s \in SamplesOf(u)
    BY <2>1, LabStaff
  <2>3. WipsOf(u, s) = Mine(s)
    BY <2>1, <2>2, ShownToLab
  <2>4. CASE samples[s].status = "pending_receive"
    <3>1. PageReceives(u, s)
      BY <2>2, <2>4 DEF PageReceives
    <3>2. QED
      BY <3>1 DEF CanMove
  <2>5. CASE samples[s].status # "pending_receive" /\ Active(s) # {}
    <3>1. PICK t \in Active(s) : t \in TransfersOf(u) /\ FromOwnLab(u, transfers[t].from) /\ Movable(t)
      BY <2>2, <2>5, MoveOffered
    <3>2. QED
      BY <3>1 DEF CanMove, Active
  <2>6. CASE samples[s].status # "pending_receive" /\ Active(s) = {} /\ IncompleteWips(s) # {}
    <3>1. PICK w \in IncompleteWips(s) : wips[w].lab = samples[s].at.lab
      BY <2>6 DEF Pages, AllSteady, Steady, WipsHere
    <3>2. wips[w].status # "terminated"
      BY DEF Attended, NothingAborted, IncompleteWips, Mine
    <3>3. OwnWip(u, w)
      BY <2>2, <3>1 DEF OwnWip
    <3>4. QED
      BY <3>2, <3>3 DEF CanMove
  <2>7. CASE samples[s].status # "pending_receive" /\ Active(s) = {} /\ IncompleteWips(s) = {}
    <3>1. ~SampleUnderWay(s)
      BY <2>7 DEF SampleUnderWay, Active
    <3>2. CASE WorkHere(s)
      <4>1. \E x \in Experiments :
              PageSplits(u, s, {x}) /\ CreateInOrder(samples[s].route, wips, Mine(s), {x})
        BY <2>1, <2>2, <2>3, <2>7, <3>2, TargetsInOrder, SplitOffered DEF Pages
      <4>2. QED
        BY <4>1 DEF CanMove
    <3>3. CASE ~WorkHere(s)
      <4>1. samples[s].status \in {"split", "pending_transfer"}
        BY <2>1, <2>7, <3>3
      <4>2. PICK w \in Mine(s) : wips[w].lab = samples[s].at.lab
        BY <2>1, <4>1
      <4>3. PageShows(u, s)
        BY <2>2, <2>7, <4>1, <4>2, ShownThere
      <4>4. CASE AllDone(s)
        <5>1. PICK d \in ItemsOf(s) : Closes(s, d) /\ Items[d].lab = samples[s].at.lab
          BY <2>1, <4>4
        <5>2. PageNotifies(u, s) /\ RouteCompleted(s)
          BY <2>2, <2>7, <4>3, <4>4, <5>1, PickupOffered DEF Attended
        <5>3. QED
          BY <3>1, <5>2 DEF CanMove
      <4>5. CASE ~AllDone(s)
        <5>1. \A d \in Destinations(u.lab, s) : d # 0 /\ Items[d].lab # u.lab
          BY <2>2, <3>3, <4>5, TransferOffered
        <5>2. QED
          BY <3>1, <4>3, <5>1 DEF CanMove
      <4>6. QED
        BY <4>4, <4>5
    <3>4. QED
      BY <3>2, <3>3
  <2>8. QED
    BY <2>4, <2>5, <2>6, <2>7
<1>3. QED
  BY <1>1, <1>2

(* With one request of the pages at a time, and no run aborted, no sample  *)
(* is left behind: some page always offers a step that takes it further    *)
(* and that the services accept, until it is back with its applicant.  It  *)
(* takes all three of the transfer page's answer to where a sample goes    *)
(* (claim_next_dependency_experiment), the split page's forms              *)
(* (makeAutoFormsForSample) and the order check of the service             *)
(* (validate_wip_create_items_in_order) to agree on what is next.          *)
THEOREM NoSampleLeftBehind ==
  ASSUME PagesAlone, Staffed, RoutesFit, ExperimentsDiffer, WrittenInOrder, EndsTogether,
         "terminated" \notin Operations
  PROVE  Spec => []NeverStuck
<1>1. CASE Room = 0
  <2>1. ASSUME Written
        PROVE  NeverStuck
    <3>1. ASSUME NEW s \in Samples, Present(s)
          PROVE  FALSE
      <4>1. ItemsOf(s) # {} /\ Cardinality(ItemsOf(s)) <= 0
        BY <1>1, <2>1, <3>1 DEF Written, RoutesFit
      <4>2. IsFiniteSet(ItemsOf(s)) /\ Cardinality(ItemsOf(s)) \in Nat
        BY ItemFacts
      <4>3. Cardinality(ItemsOf(s)) = 0
        BY <4>1, <4>2
      <4>4. QED
        BY <4>1, <4>2, <4>3, FS_EmptySet
    <3>2. QED
      BY <3>1 DEF NeverStuck
  <2>2. QED
    BY <2>1, WrittenHolds, PTL
<1>2. CASE Room # 0
  <2>1. ASSUME RowsInv, Fresh, AllSteady, Ahead, Written, Attended
        PROVE  NeverStuck
    <3>1. Pages
      BY <2>1, PagesThen
    <3>2. \A s \in Samples : Present(s) /\ samples[s].status # "picked_up" => CanMove(s)
      BY <2>1, <3>1, AlwaysMoves
    <3>3. QED
      BY <3>2 DEF NeverStuck
  <2>2. Alone
    BY DEF PagesAlone
  <2>3. Spec => []Fresh
    BY <2>2, FreshHolds
  <2>4. Spec => []AllSteady
    BY SteadyHolds
  <2>5. Spec => []Ahead
    BY AheadHolds
  <2>6. Spec => []Attended
    BY <1>2, AttendedHolds
  <2>7. QED
    BY <2>1, <2>3, <2>4, <2>5, <2>6, RowsHold, WrittenHolds, PTL
<1>3. QED
  BY <1>1, <1>2

-----------------------------------------------------------------------------
(* Types.                                                                  *)

(* What is cut off a route leaves a step of it: the name is shorter.       *)
LEMMA RouteTyped ==
  ASSUME NEW s, NEW c
  PROVE  ToSet(RouteOf(s, c)) \subseteq Steps
<1>1. PICK r, T : r = RouteOf(s, c) /\ T = {Step(i) : i \in ItemsOf(s)}
  OBVIOUS
<1>2. PICK L \in Nat : /\ r = [l \in 1..L |-> r[l]]
                       /\ \A l \in 1..L : r[l] \in T \cup {[e EXCEPT !.exp = CutExp] : e \in T}
  <2>1. Cut(r, T)
    BY <1>1, RouteFacts
  <2>2. QED
    BY <2>1 DEF Cut
<1>3. ASSUME NEW e \in T
      PROVE  e \in Steps /\ [e EXCEPT !.exp = CutExp] \in Steps
  <2>1. PICK i \in ItemIds : e = Step(i)
    BY <1>1, <1>3, ItemFacts
  <2>2. /\ Items[i].lab \in Labs /\ Items[i].group \in Nat /\ Items[i].target \in Nat
        /\ Items[i].exp \in {CutExp} \cup {Items[j].exp : j \in ItemIds}
    BY <2>1, ItemFacts, SamplesAssumption
  <2>3. e = [lab |-> Items[i].lab, exp |-> Items[i].exp, group |-> Items[i].group,
             target |-> Items[i].target]
    BY <2>1 DEF Step
  <2>4. [e EXCEPT !.exp = CutExp] = [lab |-> Items[i].lab, exp |-> CutExp,
                                     group |-> Items[i].group, target |-> Items[i].target]
    BY <2>3
  <2>5. QED
    BY <2>2, <2>3, <2>4 DEF Steps
<1>4. \A l \in 1..L : r[l] \in Steps
  BY <1>2, <1>3
<1>5. DOMAIN r = 1..L
  BY <1>2
<1>6. QED
  BY <1>1, <1>4, <1>5 DEF ToSet

RoutesTyped == \A s \in Samples : ToSet(samples[s].route) \subseteq Steps

(* A route is written once, when its sample is created.                    *)
LEMMA RoutesHold == Spec => []RoutesTyped
<1>1. ASSUME Init
      PROVE  RoutesTyped
  BY <1>1 DEF Init, RoutesTyped, NoSample, ToSet
<1>2. ASSUME RowsInv, RoutesTyped, [Next]_vars
      PROVE  RoutesTyped'
  <2>1. SampleRowsOk /\ SamplesChanged
    BY <1>2, StepFacts DEF RowsInv
  <2>2. ASSUME NEW s \in Samples
        PROVE  ToSet(samples'[s].route) \subseteq Steps
    <3>1. \/ samples'[s] = samples[s]
          \/ Present(s)
          \/ \E p \in Sessions : ItemsOf(s) # {} /\ samples'[s] = Delivered(s, sess[p].found)
      BY <2>1 DEF SamplesChanged, SampleChanged
    <3>2. CASE samples'[s].route = samples[s].route
      BY <1>2, <3>2 DEF RoutesTyped
    <3>3. CASE \E p \in Sessions : ItemsOf(s) # {} /\ samples'[s] = Delivered(s, sess[p].found)
      <4>1. PICK c : samples'[s].route = RouteOf(s, c)
        BY <3>3, DeliveredFacts
      <4>2. QED
        BY <4>1, RouteTyped
    <3>4. QED
      BY <2>1, <3>1, <3>2, <3>3, SampleKept
  <2>3. QED
    BY <2>2 DEF RoutesTyped
<1>3. QED
  BY <1>1, <1>2, RowsHold, PTL DEF Spec

(* Who asks nothing leaves nothing behind, and who asks for the next item  *)
(* chooses among those of the sample.                                      *)
Waiting ==
  \A p \in Sessions :
    /\ sess[p].op = "none" => sess[p] = Idle
    /\ sess[p].op = "next" => sess[p].items \subseteq ItemsOf(sess[p].s)

(* Requests are read once, and forgotten once they are answered.           *)
LEMMA WaitingHolds == Spec => []Waiting
<1>1. ASSUME Init
      PROVE  Waiting
  BY <1>1 DEF Init, Waiting, Idle
<1>2. ASSUME RowsInv, Waiting, [Next]_vars
      PROVE  Waiting'
  <2>1. ASSUME NEW p \in Sessions, NEW r, sess' = [sess EXCEPT ![p] = r],
               r.op = "none" => r = Idle,
               r.op = "next" => r.items \subseteq ItemsOf(r.s)
        PROVE  Waiting'
    <3>1. \A q \in Sessions : sess'[q] = r \/ sess'[q] = sess[q]
      BY <1>2, <2>1 DEF RowsInv, SessOk
    <3>2. QED
      BY <1>2, <2>1, <3>1 DEF Waiting
  <2>2. ASSUME NEW p \in Sessions, Asks(p)
        PROVE  Waiting'
    <3>1. PICK r : AskRight(r) /\ sess' = [sess EXCEPT ![p] = r]
      BY <2>2 DEF Asks
    <3>2. r.op # "none" /\ (r.op = "next" => r.items = NextCandidates(r.s, wips, Mine(r.s)))
      BY <3>1 DEF AskRight, WorkAskRight
    <3>3. QED
      BY <2>1, <3>1, <3>2 DEF NextCandidates
  <2>3. ASSUME NEW p \in Sessions, Answers(p)
        PROVE  Waiting'
    <3>1. PICK r : r.op \in Nothing /\ (r.op = "none" => r = Idle) /\ sess' = [sess EXCEPT ![p] = r]
      BY <2>3 DEF Answers, Left
    <3>2. QED
      BY <2>1, <3>1 DEF Nothing
  <2>4. CASE UNCHANGED vars
    BY <1>2, <2>4 DEF vars, Waiting
  <2>5. QED
    BY <1>2, <2>2, <2>3, <2>4, StepKinds
<1>3. QED
  BY <1>1, <1>2, RowsHold, PTL DEF Spec

(* Items are claimed, and answered, for the samples they are of.           *)
AnswersOk ==
  /\ claimed \subseteq ItemIds /\ Told(told)
  /\ \A l \in Labs \cup {NoLab}, s \in Samples : told[l][s] \in {0} \cup ItemsOf(s)

(* Items are claimed, and answered, for the samples they are of.           *)
LEMMA AnswersHold == Spec => []AnswersOk
<1>1. ASSUME Init
      PROVE  AnswersOk
  <2>1. told = [l \in Labs \cup {NoLab} |-> [s \in Samples |-> 0]] /\ claimed = {}
    BY <1>1 DEF Init
  <2>2. QED
    BY <2>1 DEF AnswersOk, Told
<1>2. ASSUME RowsInv, Waiting, AnswersOk, [Next]_vars
      PROVE  AnswersOk'
  <2>1. \A p \in Sessions : sess[p].op = "next" => sess[p].items \subseteq ItemIds
    BY <1>2, ItemFacts DEF Waiting
  <2>2. ASSUME NEW p \in Sessions, Picks(p)
        PROVE  AnswersOk'
    <3>1. RequestOk(sess[p]) /\ sess[p].op = "next" /\ sess[p].items \subseteq ItemsOf(sess[p].s)
      BY <1>2, <2>2 DEF RowsInv, SessOk, Picks, Waiting
    <3>2. PICK x \in Samples, u \in Users : u = sess[p].by /\ x = sess[p].s
      BY <3>1 DEF RequestOk, IsRequest
    <3>3. u.lab \in Labs \cup {NoLab}
      BY DEF Users
    <3>4. PICK i \in ItemsOf(x) \cup {0} :
            /\ claimed' = IF i = 0 THEN claimed ELSE claimed \cup {i}
            /\ told' = [told EXCEPT ![u.lab][x] = i]
      BY <2>2, <3>1, <3>2 DEF Picks
    <3>5. PICK table, new, l : table = told /\ new = told' /\ l = u.lab
      OBVIOUS
    <3>6. Told(table) /\ l \in Labs \cup {NoLab} /\ ToldThen(new, table, l, x, i)
      BY <1>2, <3>3, <3>4, <3>5 DEF AnswersOk, ToldThen
    <3>7. /\ Told(new) /\ new[l][x] = i
          /\ \A k \in Labs \cup {NoLab} : k # l => new[k] = table[k]
          /\ \A s \in Samples : s # x => new[l][s] = table[l][s]
      BY <3>6, ToldChanged
    <3>8. claimed' \subseteq ItemIds
      BY <1>2, <3>4, ItemFacts DEF AnswersOk
    <3>9. ASSUME NEW k \in Labs \cup {NoLab}, NEW s \in Samples
          PROVE  new[k][s] \in {0} \cup ItemsOf(s)
      <4>1. table[k][s] \in {0} \cup ItemsOf(s)
        BY <1>2, <3>5 DEF AnswersOk
      <4>2. new[k][s] = table[k][s] \/ (s = x /\ new[k][s] = i)
        BY <3>7
      <4>3. QED
        BY <3>4, <4>1, <4>2
    <3>10. QED
      BY <3>5, <3>7, <3>8, <3>9 DEF AnswersOk
  <2>3. CASE UNCHANGED <<claimed, told>>
    BY <1>2, <2>3 DEF AnswersOk
  <2>4. QED
    BY <1>2, <2>1, <2>2, <2>3, ClaimStep DEF AnswersOk
<1>3. QED
  BY <1>1, <1>2, RowsHold, WaitingHolds, PTL DEF Spec

(* Only WIPs that there are have been completed.                           *)
DoneOk == IsList(done) /\ \A n \in DOMAIN done : done[n] \in DOMAIN wips

(* A WIP is completed last, after those that were completed before.        *)
LEMMA CompletedNowFacts ==
  ASSUME IsList(done), NEW w
  PROVE  /\ IsList(CompletedNow(w))
         /\ \A n \in DOMAIN CompletedNow(w) :
              CompletedNow(w)[n] = w \/ \E m \in DOMAIN done : CompletedNow(w)[n] = done[m]
<1>1. PICK L \in Nat : done = [n \in 1..L |-> done[n]]
  BY DEF IsList
<1>2. PICK F : F = {n \in DOMAIN done : done[n] # w}
  OBVIOUS
<1>3. IsFiniteSet(F) /\ F \in SUBSET Nat /\ F \subseteq DOMAIN done
  <2>1. F \in SUBSET (1..L) /\ L \in Int /\ 1 \in Int
    BY <1>1, <1>2
  <2>2. IsFiniteSet(1..L)
    BY <2>1, FS_Interval
  <2>3. IsFiniteSet(F)
    BY <2>1, <2>2, FS_Subset
  <2>4. QED
    BY <1>2, <2>1, <2>3
<1>4. PICK k : k = Cardinality(F)
  OBVIOUS
<1>5. PICK others : others = Ascending(F)
  OBVIOUS
<1>6. k \in Nat /\ others \in [1..k -> F]
  BY <1>3, <1>4, <1>5, AscendingFacts DEF Lists
<1>7. PICK first : first = [n \in DOMAIN others |-> done[others[n]]]
  OBVIOUS
<1>8. first = [n \in 1..k |-> first[n]] /\ \A n \in 1..k : first[n] = done[others[n]] /\ others[n] \in F
  BY <1>6, <1>7
<1>9. PICK last : last = <<w>>
  OBVIOUS
<1>10. last = [n \in 1..1 |-> last[n]] /\ last[1] = w
  BY <1>9
<1>11. PICK all : all = first \o last
  OBVIOUS
<1>12. CompletedNow(w) = all
  BY <1>2, <1>5, <1>7, <1>9, <1>11 DEF CompletedNow
<1>13. /\ all = [n \in 1..(k + 1) |-> all[n]]
       /\ \A n \in 1..k : all[n] = first[n]
       /\ \A n \in 1..1 : all[k + n] = last[n]
  <2>1. k \in Nat /\ 1 \in Nat
    BY <1>6
  <2>2. /\ first \o last = [n \in 1..(k + 1) |-> (first \o last)[n]]
        /\ \A n \in 1..k : (first \o last)[n] = first[n]
        /\ \A n \in 1..1 : (first \o last)[k + n] = last[n]
    BY <1>8, <1>10, <2>1, Concatenated
  <2>3. QED
    BY <1>11, <2>2
<1>14. ASSUME NEW n \in 1..(k + 1)
       PROVE  all[n] = w \/ \E m \in DOMAIN done : all[n] = done[m]
  <2>1. CASE n \in 1..k
    <3>1. PICK m \in DOMAIN done : m = others[n]
      BY <1>3, <1>8, <2>1
    <3>2. all[n] = first[n] /\ first[n] = done[m]
      BY <1>8, <1>13, <2>1, <3>1
    <3>3. QED
      BY <3>2
  <2>2. CASE n = k + 1
    BY <1>10, <1>13, <2>2
  <2>3. QED
    BY <1>6, <2>1, <2>2
<1>15. k + 1 \in Nat /\ DOMAIN all = 1..(k + 1)
  BY <1>6, <1>13
<1>16. QED
  BY <1>12, <1>13, <1>14, <1>15 DEF IsList

(* The list changes only when a WIP is completed.                          *)
LEMMA DoneStep ==
  ASSUME RowsInv, [Next]_vars
  PROVE  UNCHANGED done \/ \E w \in DOMAIN wips : done' = CompletedNow(w)
<1>1. ASSUME NEW p \in Sessions, CompleteWip(p) \/ OthersComplete(p)
      PROVE  \E w \in DOMAIN wips : done' = CompletedNow(w)
  <2>1. sess[p].op \in OfWipOps /\ done' = CompletedNow(sess[p].w)
    BY <1>1 DEF CompleteWip, OthersComplete, OfWipOps
  <2>2. sess[p].w \in DOMAIN wips
    BY <2>1 DEF RowsInv, SessOk, RequestOk
  <2>3. QED
    BY <2>1, <2>2
<1>2. ASSUME NEW p \in Sessions, ConfirmResult(p)
      PROVE  \E w \in DOMAIN wips : done' = CompletedNow(w)
  BY <1>2 DEF ConfirmResult
<1>3. ASSUME NEW p \in Sessions, SampleHandler(p)
      PROVE  UNCHANGED done
  BY <1>3 DEF SampleHandler, Deliver, Receive, Inbound, Outbound, ConfirmPickup, Split,
              GenerateMissing
<1>4. ASSUME NEW p \in Sessions,
             \/ NextItem(p) \/ SetWip(p) \/ StartWip(p) \/ TerminateRun(p)
             \/ AdvanceSample(p) \/ WithdrawSample(p) \/ LoseFollowUp(p)
      PROVE  UNCHANGED done
  BY <1>4 DEF NextItem, SetWip, StartWip, TerminateRun, AdvanceSample, WithdrawSample,
              LoseFollowUp, rows
<1>5. ASSUME NEW p \in Sessions,
             \/ CreateTransfer(p) \/ CreateWipTransfer(p) \/ TransferNoTaken(p)
             \/ SendTransfer(p) \/ CancelTransfer(p)
      PROVE  UNCHANGED done
  BY <1>5 DEF CreateTransfer, CreateWipTransfer, TransferNoTaken, SendTransfer, CancelTransfer,
              rows
<1>6. QED
  BY <1>1, <1>2, <1>3, <1>4, <1>5, RequestsChangeNothing DEF Next, WorkHandler, AllPickedUp, vars

(* No row of a WIP is deleted.                                             *)
LEMMA DoneHolds == Spec => []DoneOk
<1>1. ASSUME Init
      PROVE  DoneOk
  <2>1. done = << >> /\ 0 \in Nat
    BY <1>1 DEF Init
  <2>2. done = [n \in 1..0 |-> done[n]] /\ DOMAIN done = {}
    BY <2>1
  <2>3. QED
    BY <2>1, <2>2 DEF DoneOk, IsList
<1>2. ASSUME RowsInv, DoneOk, [Next]_vars
      PROVE  DoneOk'
  <2>1. \A w \in DOMAIN wips : w \in DOMAIN wips'
    BY <1>2, StepFacts DEF WipsChanged
  <2>2. CASE UNCHANGED done
    BY <1>2, <2>1, <2>2 DEF DoneOk, IsList
  <2>3. ASSUME NEW w \in DOMAIN wips, done' = CompletedNow(w)
        PROVE  DoneOk'
    <3>1. PICK new : new = done' /\ new = CompletedNow(w)
      BY <2>3
    <3>2. /\ IsList(new)
          /\ \A n \in DOMAIN new : new[n] = w \/ \E m \in DOMAIN done : new[n] = done[m]
      BY <1>2, <3>1, CompletedNowFacts DEF DoneOk
    <3>3. \A n \in DOMAIN new : new[n] \in DOMAIN wips'
      BY <1>2, <2>1, <3>2 DEF DoneOk
    <3>4. IsList(done)'
      BY <3>1, <3>2 DEF IsList
    <3>5. QED
      BY <3>1, <3>3, <3>4 DEF DoneOk
  <2>4. QED
    BY <1>2, <2>2, <2>3, DoneStep
<1>3. QED
  BY <1>1, <1>2, RowsHold, PTL DEF Spec

(* Whoever calls, however many at a time: every row keeps to the values of *)
(* its columns, and every reference to another row finds it.  Samples,     *)
(* WIPs and transfers are written by three services, and the numbers of    *)
(* new WIPs are searched for: there is always one left to find             *)
(* (sample_service, wip_service, transfer_service, wip_repo).              *)
THEOREM SampleTypeCorrect == Spec => []TypeOK
<1>1. ASSUME RowsInv, OpsOk, RoutesTyped, Waiting, AnswersOk, DoneOk
      PROVE  TypeOK
  <2>1. \A s \in Samples : /\ samples[s].status \in SampleStatuses
                           /\ samples[s].at \in Places
                           /\ ToSet(samples[s].route) \subseteq Steps
    BY <1>1 DEF RowsInv, SampleRowsOk, IsSample, RoutesTyped
  <2>2. ASSUME NEW r, IsWip(r)
        PROVE  r \in WipRows
    <3>1. PICK x \in Experiments : x = [lab |-> r.lab, exp |-> r.exp]
      BY <2>2 DEF IsWip
    <3>2. r.lab \in Labs /\ r.exp \in {y.exp : y \in Experiments}
      BY <3>1, ExperimentFacts
    <3>3. QED
      BY <2>2, <3>2 DEF IsWip, WipRows
  <2>3. ToSet(wips) \subseteq WipRows
    BY <1>1, <2>2 DEF RowsInv, WipRowsOk, ToSet
  <2>4. ToSet(transfers) \subseteq TransferRows
    BY <1>1 DEF RowsInv, TransferRowsOk, ToSet
  <2>5. ToSet(done) \subseteq DOMAIN wips
    BY <1>1 DEF DoneOk, ToSet
  <2>6. \A p \in Sessions : sess[p] = Idle \/ sess[p].op \in Operations \cup {"advance", "withdraw"}
    BY <1>1 DEF OpsOk, Waiting, Nothing
  <2>7. claimed \subseteq ItemIds
        /\ \A l \in Labs \cup {NoLab}, s \in Samples : told[l][s] \in {0} \cup ItemsOf(s)
    BY <1>1 DEF AnswersOk
  <2>8. QED
    BY <2>1, <2>3, <2>4, <2>5, <2>6, <2>7 DEF TypeOK
<1>2. QED
  BY <1>1, RowsHold, OpsHold, RoutesHold, WaitingHolds, AnswersHold, DoneHolds, PTL

=============================================================================
