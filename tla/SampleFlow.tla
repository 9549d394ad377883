----------------------------- MODULE SampleFlow ------------------------------
(***************************************************************************)
(* Samples, their WIPs and the transfers between laboratories:             *)
(* sample_service, wip_service, transfer_service and their repositories    *)
(* (backend/app/services, backend/app/repos).                              *)
(*                                                                         *)
(* Every handler reads rows, checks them, and then writes; its statements  *)
(* are one transaction, READ COMMITTED, without row locks.  So each is two *)
(* steps here: Ask... reads and checks, the handler's own action writes to *)
(* the rows as they are by then and commits.  A request waits in `sess` in *)
(* between, with what the handler keeps of its reads.                      *)
(*                                                                         *)
(* Guided says who asks: TRUE for the pages of the web frontend, which     *)
(* offer an operation only when it makes sense to them; FALSE for any      *)
(* caller of the API.                                                      *)
(***************************************************************************)
EXTENDS SampleRoute, TLC

CONSTANTS
  Samples, Labs,
  Staff,         \* users of the laboratories: records of a role and a lab
  Sessions,      \* requests that may be under way at a time
  Parks,         \* the rows of `machines` that dependency/next may find
  WipActions,    \* the actions asked of handle_wip_action
  Operations,    \* the operations asked for
  Guided,        \* TRUE: requests come from the pages
  Patient,       \* TRUE: no lab splits a sample it has announced a transfer of
  MaxTransfers   \* bound: rows of `transfers`

NoLab == 0

ASSUME SamplesAssumption ==
  /\ Samples \subseteq Nat \ {0} /\ Labs \subseteq Nat \ {0}
  /\ \A i \in ItemIds : Items[i].lab \in Labs

(* resolve_current_user: a row of `users` with the name of its laboratory. *)
Users == [role : {"engineer", "supervisor", "admin"}, lab : Labs \cup {NoLab}]

ASSUME StaffAssumption == Staff \subseteq Users

ASSUME OptionsAssumption ==
  /\ Guided \in BOOLEAN /\ Patient \in BOOLEAN
  /\ WipActions \subseteq {"send_to_schedule", "start", "complete", "terminate"}
  /\ MaxTransfers \in Nat
  /\ \A park \in Parks : \A m \in park :
       m.lab \in Labs /\ m.items \subseteq Nat /\ m.load \in Nat

VARIABLES
  samples,    \* rows of `samples`: status, place, route, and the status that
              \* the last row of sample_histories says it came to
  wips,       \* rows of `wips`, in the order of their creation
  transfers,  \* rows of `transfers`
  claimed,    \* order items whose dependency_check is set
  done,       \* WIPs in the order of their last completed_at
  told,       \* told[l][s]: the item lab l's page was given for sample s;
              \* told[NoLab][s]: the one the applicant was given
  sess        \* requests under way

vars == <<samples, wips, transfers, claimed, done, told, sess>>
rows == <<samples, wips, transfers, claimed, done>>

-----------------------------------------------------------------------------
SampleStatuses == {"absent", "pending_receive", "received", "in_storage", "split",
                   "pending_transfer", "outbound", "picked_up", "terminated"}
WipStatuses == {"created", "waiting_schedule", "running", "completed", "terminated"}
TransferStatuses == {"pending", "transferring", "received", "cancelled"}
Areas == {"receive", "temp", "machine", "waiting", "pickup", "with_applicant"}

(* lab_location; get_lab_from_location and the prefix tests read the lab.  *)
At(lab, area) == [lab |-> lab, area |-> area]
Places == [lab : Labs \cup {NoLab}, area : Areas]

Steps == [lab : Labs, exp : {CutExp} \cup {Items[i].exp : i \in ItemIds},
          group : Nat, target : Nat]
Experiments == {[lab |-> Items[i].lab, exp |-> Items[i].exp] : i \in ItemIds}
                 \cup {[lab |-> Items[i].lab, exp |-> CutExp] : i \in {j \in ItemIds : Ragged}}

NoSample == [status |-> "absent", at |-> At(NoLab, "receive"), route |-> <<>>, log |-> "absent"]
Nobody   == [role |-> "admin", lab |-> NoLab]

(* samples.id, a uuid: never a sample's number.                            *)
RowId(s) == -s

(* A request: what is asked, by whom, of what; and what the handler keeps  *)
(* of its reads: items it may choose, items or numbers it found taken, the *)
(* step of the route a WIP stands for, the status it found.                *)
Idle == [op |-> "none", by |-> Nobody, s |-> 0, w |-> 0, t |-> 0, to |-> NoLab,
         wanted |-> {}, items |-> {}, found |-> {}, step |-> 0, was |-> "absent"]

-----------------------------------------------------------------------------
(* Statements of the repositories.                                         *)
Present(s) == samples[s].status # "absent"
Mine(s) == {w \in DOMAIN wips : wips[w].sample = s}
IncompleteWips(s) == {w \in Mine(s) : wips[w].status # "completed"}
CompletedWips(s) == {w \in Mine(s) : wips[w].status = "completed"}
ExistingWips(s, x) == {w \in Mine(s) : wips[w].lab = x.lab /\ wips[w].exp = x.exp}
Numbers(s) == {<<wips[w].lab, wips[w].no>> : w \in Mine(s)}

(* Mutant of ActiveTransfers: one that has arrived counts.                 *)
NotCancelled(kind, id) ==
  {t \in DOMAIN transfers : /\ transfers[t].kind = kind /\ transfers[t].of = id
                            /\ transfers[t].status # "cancelled"}

OfSample(t, s) == transfers[t].kind = "sample" /\ transfers[t].of = s
ActiveTransfers(kind, id) ==
  {t \in DOMAIN transfers : /\ transfers[t].kind = kind /\ transfers[t].of = id
                            /\ transfers[t].status \in {"pending", "transferring"}}
SampleUnderWay(s) == ActiveTransfers("sample", s) # {}

Moved(row, place) == [row EXCEPT !.at = place]
AsReceived(row, place) == [row EXCEPT !.status = "received", !.at = place]
AsInStorage(row) == [row EXCEPT !.status = "in_storage"]
AsOutbound(row, place) == [row EXCEPT !.status = "outbound", !.at = place]
AsPickedUp(row, place) == [row EXCEPT !.status = "picked_up", !.at = place]
AsSplit(row, place) == [row EXCEPT !.status = "split", !.at = place]

(* Mutant of AsPendingReceive: the place is left out of the UPDATE.        *)
PendingReceiveHere(row, place) == [row EXCEPT !.status = "pending_receive"]

AsPendingReceive(row, place) == [row EXCEPT !.status = "pending_receive", !.at = place]
(* create_sample_history, with its to_status.                              *)
Logged(row, status) == [row EXCEPT !.log = status]
WithStatusAt(row, status, place) == [row EXCEPT !.status = status, !.at = place]

(* The WIPs of a lab that are not completed go where its sample goes.      *)
LabWipsMoved(table, s, lab, place) ==
  [w \in DOMAIN table |->
     IF table[w].sample = s /\ table[w].lab = lab /\ table[w].status # "completed"
     THEN Moved(table[w], place) ELSE table[w]]

(* The same for the laboratory a sample is sent to.                        *)
NextLabWipsMoved(s, to, place) == LabWipsMoved(wips, s, to, place)

AllWipsMoved(table, s, place) ==
  [w \in DOMAIN table |-> IF table[w].sample = s THEN Moved(table[w], place) ELSE table[w]]

WipFromSplit(s, x, no, place) ==
  [sample |-> s, lab |-> x.lab, exp |-> x.exp, no |-> no, status |-> "created", at |-> place]

(* update_wip_status.                                                      *)
WipWith(row, status, place) == [row EXCEPT !.status = status, !.at = place]

NewTransfer(kind, id, from, to) ==
  [kind |-> kind, of |-> id, from |-> from, to |-> to, status |-> "pending"]
AsTransferring(row) == [row EXCEPT !.status = "transferring"]
AsCancelled(row) == [row EXCEPT !.status = "cancelled"]

(* completed_at = NOW(): of all WIPs, w is the last one to be completed.   *)
CompletedNow(w) ==
  LET others == Ascending({n \in DOMAIN done : done[n] # w})
  IN [n \in DOMAIN others |-> done[others[n]]] \o <<w>>

(* generate_transfer_no: a row is known by its number.                     *)
NextTransferNo == Len(transfers) + 1

ReceiveArea(lab) == At(lab, "receive")
WaitingArea(lab) == At(lab, "waiting")

(* release_order_item_dependency_check_for_sample: the items that could be *)
(* the last one claimed for the sample in that laboratory.                 *)
Releasable(id, to) == {i \in claimed : Items[i].sample = id /\ Items[i].lab = to}

(* mark_sample_transfer_as_received.                                       *)
TransfersReceived(s, lab) ==
  [t \in DOMAIN transfers |->
     IF OfSample(t, s) /\ transfers[t].to = lab /\ transfers[t].status = "transferring"
     THEN [transfers[t] EXCEPT !.status = "received"] ELSE transfers[t]]

(* get_latest_completed_wip_for_lab: 0 if there is none.                   *)
LatestCompleted(s, lab) ==
  LET them == SelectSeq(done, LAMBDA w : /\ wips[w].sample = s /\ wips[w].lab = lab
                                         /\ wips[w].status = "completed")
  IN IF them = <<>> THEN 0 ELSE Last(them)

(* generate_unique_wip_no: the first free number from `least` on.          *)
FreeNumber(taken, lab, least) ==
  CHOOSE n \in least..(least + Cardinality(taken)) :
    /\ <<lab, n>> \notin taken
    /\ \A m \in least..(n - 1) : <<lab, m>> \in taken

-----------------------------------------------------------------------------
(* Who may see and do what.                                                *)
InLab(u, place) == u.lab # NoLab /\ place.lab = u.lab

RelatedToLab(s, lab) ==
  \/ \E w \in Mine(s) : wips[w].lab = lab
  \/ \E t \in DOMAIN transfers : OfSample(t, s) /\ lab \in {transfers[t].from, transfers[t].to}

(* build_sample_visibility_filter, with scope = "all" or without.          *)
SampleListed(u, s, all) ==
  Present(s) /\ \/ u.role = "admin"
                \/ InLab(u, samples[s].at)
                \/ /\ u.role = "supervisor" \/ all
                   /\ u.lab # NoLab
                   /\ RelatedToLab(s, u.lab)

(* can_manage_sample.                                                      *)
ManagesSample(u, s) == Present(s) /\ (u.role = "admin" \/ InLab(u, samples[s].at))

SentToLab(s, lab) == \E t \in DOMAIN transfers : OfSample(t, s) /\ transfers[t].to = lab

(* build_wip_visibility_filter and can_view_wip.                           *)
WipListed(u, w) ==
  \/ u.role \in {"admin", "supervisor"}
  \/ u.lab # NoLab /\ (wips[w].lab = u.lab \/ SentToLab(wips[w].sample, u.lab))

(* build_wip_owner_lab_visibility_filter.                                  *)
OwnWip(u, w) == u.role = "admin" \/ (u.lab # NoLab /\ wips[w].lab = u.lab)

(* build_wip_flow_visibility_filter.                                       *)
FlowListed(u, w) ==
  \/ u.role = "admin"
  \/ /\ u.lab # NoLab
     /\ \/ InLab(u, samples[wips[w].sample].at)
        \/ RelatedToLab(wips[w].sample, u.lab)
        \/ \E t \in DOMAIN transfers : /\ transfers[t].kind = "wip" /\ transfers[t].of = w
                                       /\ u.lab \in {transfers[t].from, transfers[t].to}

(* can_manage_wip.                                                         *)
ManagesWip(u, w) == u.role = "admin" \/ (u.lab # NoLab /\ wips[w].lab = u.lab)

(* build_transfer_visibility_filter.                                       *)
TransferListed(u, t) ==
  u.role = "admin" \/ (u.lab # NoLab /\ u.lab \in {transfers[t].from, transfers[t].to})

(* list_samples (without a scope), list_wips and list_transfers.           *)
SamplesOf(u) == {s \in Samples : SampleListed(u, s, FALSE)}
WipsOf(u, s) == {w \in Mine(s) : WipListed(u, w)}
FlowWipsOf(u, s) == {w \in Mine(s) : FlowListed(u, w)}
TransfersOf(u) == {t \in DOMAIN transfers : TransferListed(u, t)}

(* The source laboratory of a transfer, for a user of a laboratory.        *)
FromOwnLab(u, from) == u.role = "admin" \/ u.lab = from

-----------------------------------------------------------------------------
(* What the pages offer.                                                   *)
StepDone(s, k) ==
  \E w \in CompletedWips(s) : SameExperiment(samples[s].route[k], wips[w])

(* The same, as far as a page is shown the sample's WIPs.                  *)
SeenDone(u, s, k) ==
  \E w \in WipsOf(u, s) \cap CompletedWips(s) : SameExperiment(samples[s].route[k], wips[w])

(* makeAutoFormsForSample: in each group the open steps of the lab that    *)
(* holds the first of them, those without a WIP.                           *)
PageForms(u, s) ==
  LET route == samples[s].route
      Ranked(j, k) == /\ route[j].group = route[k].group
                      /\ \/ route[j].target < route[k].target
                         \/ route[j].target = route[k].target /\ j <= k
      Start(k) == /\ ~SeenDone(u, s, k)
                  /\ \A j \in DOMAIN route : Ranked(j, k) /\ j # k => SeenDone(u, s, j)
      InRun(k) == \E f \in DOMAIN route :
                    /\ Start(f) /\ Ranked(f, k)
                    /\ \A j \in DOMAIN route : Ranked(f, j) /\ Ranked(j, k) => route[j].lab = u.lab
  IN {x \in Experiments : /\ ExistingWips(s, x) = {}
                          /\ \E k \in DOMAIN route : InRun(k) /\ SameExperiment(route[k], x)}

PageSplits(u, s, wanted) ==
  /\ s \in SamplesOf(u) /\ InLab(u, samples[s].at)
  /\ samples[s].status \in {"received", "split", "pending_transfer"}
  /\ wanted \subseteq PageForms(u, s)
  /\ Patient => ~SampleUnderWay(s)

PageReceives(u, s) ==
  s \in SamplesOf(u) /\ InLab(u, samples[s].at) /\ samples[s].status = "pending_receive"

(* displayableTransferSamples: the page asks where these go next.          *)
PageShows(u, s) ==
  LET own == {w \in FlowWipsOf(u, s) : wips[w].lab = u.lab}
  IN /\ s \in SamplesOf(u)
     /\ samples[s].status \notin {"picked_up", "outbound", "pending_receive"}
     /\ own # {} /\ own \subseteq CompletedWips(s)

(* returnCandidates: everything is completed, and if the route names the   *)
(* laboratory at all it names it last.                                     *)
PageNotifies(u, s) ==
  LET route == samples[s].route
  IN /\ PageShows(u, s)
     /\ FlowWipsOf(u, s) \subseteq CompletedWips(s)
     /\ \A k \in DOMAIN route : \E w \in FlowWipsOf(u, s) : SameExperiment(route[k], wips[w])
     /\ u.lab \in {route[k].lab : k \in DOMAIN route} => Last(route).lab = u.lab

(* Mutant of PageTransfers: an old answer is not asked for again.          *)
PageTransfersStale(u, s, to) ==
  LET next == told[u.lab][s]
  IN PageShows(u, s) /\ next # 0 /\ to = Items[next].lab /\ to # u.lab /\ ~SampleUnderWay(s)

(* transferCandidates: where the page was told, unless that is here.  An   *)
(* answer that is completed by now is asked for again first.               *)
PageTransfers(u, s, to) ==
  LET next == told[u.lab][s]
  IN /\ PageShows(u, s)
     /\ next # 0 /\ to = Items[next].lab /\ to # u.lab
     /\ ~ItemDone(next, wips, Mine(s))
     /\ ~SampleUnderWay(s)

-----------------------------------------------------------------------------
Ask(p, request) ==
  /\ sess[p] = Idle /\ request.op \in Operations
  /\ sess' = [sess EXCEPT ![p] = request]
  /\ UNCHANGED <<rows, told>>

Answer(p) == sess' = [sess EXCEPT ![p] = Idle]

(* confirm_delivery, after the order is approved.  The order page has      *)
(* asked for the destinations of the samples before it offers this.        *)
AskDelivery(p) ==
  /\ \E s \in Samples : ~Present(s)
  /\ Guided => \A s \in Samples : Present(s) \/ told[NoLab][s] # 0
  /\ Ask(p, [Idle EXCEPT !.op = "deliver", !.found = claimed])

(* Mutant of Delivered: by target only.                                    *)
DeliveredByTarget(s, found) ==
  [status |-> "pending_receive", log |-> "pending_receive",
   at |-> At(FirstLab(s, {}), "receive"), route |-> RouteOf(s, {})]

Delivered(s, found) ==
  [status |-> "pending_receive", log |-> "pending_receive",
   at |-> At(FirstLab(s, found), "receive"), route |-> RouteOf(s, found)]

(* create_samples_for_confirmed_delivery: one row per sample number.       *)
Deliver(p) ==
  /\ sess[p].op = "deliver"
  /\ samples' = [s \in Samples |-> IF Present(s) \/ ItemsOf(s) = {} THEN samples[s]
                                   ELSE Delivered(s, sess[p].found)]
  /\ Answer(p)
  /\ UNCHANGED <<wips, transfers, claimed, done, told>>

(* claim_next_dependency_experiment.  The order page asks once per sample  *)
(* and keeps the answer, the transfer page asks for what it shows.         *)
AskNext(p) ==
  \E u \in Staff \cup {Nobody}, s \in Samples :
    /\ ItemsOf(s) # {}
    /\ Guided => IF u = Nobody THEN told[NoLab][s] = 0 /\ ~Present(s) ELSE PageShows(u, s)
    /\ Ask(p, [Idle EXCEPT !.op = "next", !.by = u, !.s = s, !.found = claimed,
                           !.items = NextCandidates(s, wips, Mine(s))])

NextItem(p) ==
  /\ sess[p].op = "next"
  /\ \E park \in Parks :
       LET i == Chosen(sess[p].items, sess[p].found, claimed, park)
       IN /\ claimed' = IF i = 0 THEN claimed ELSE claimed \cup {i}
          /\ told' = [told EXCEPT ![sess[p].by.lab][sess[p].s] = i]
  /\ Answer(p)
  /\ UNCHANGED <<samples, wips, transfers, done>>

-----------------------------------------------------------------------------
(* handle_sample_action.                                                   *)
AskReceive(p) ==
  \E u \in Staff, s \in Samples :
    /\ ManagesSample(u, s)
    /\ samples[s].status \in {"pending_receive", "transferring"}
    /\ Guided => PageReceives(u, s)
    /\ Ask(p, [Idle EXCEPT !.op = "receive", !.by = u, !.s = s])

Receive(p) ==
  LET s == sess[p].s
      lab == sess[p].by.lab
      place == At(lab, "temp")
  IN /\ sess[p].op = "receive"
     /\ samples' = [samples EXCEPT ![s] = Logged(AsReceived(@, place), "received")]
     /\ wips' = LabWipsMoved(wips, s, lab, place)
     /\ transfers' = TransfersReceived(s, lab)
     /\ Answer(p)
     /\ UNCHANGED <<claimed, done, told>>

(* No page offers it, and nothing but the place is asked of the sample.    *)
AskInbound(p) ==
  \E u \in Staff, s \in Samples :
    /\ ManagesSample(u, s) /\ ~Guided
    /\ Ask(p, [Idle EXCEPT !.op = "inbound", !.by = u, !.s = s])

Inbound(p) ==
  /\ sess[p].op = "inbound"
  /\ samples' = [samples EXCEPT ![sess[p].s] = Logged(AsInStorage(@), "in_storage")]
  /\ Answer(p)
  /\ UNCHANGED <<wips, transfers, claimed, done, told>>

(* Mutant of RouteCompleted: only what has a WIP counts.                   *)
NoneIncomplete(s) == IncompleteWips(s) = {}

RouteCompleted(s) ==
  /\ IncompleteWips(s) = {}
  /\ \A k \in DOMAIN samples[s].route : StepDone(s, k)

AskOutbound(p) ==
  \E u \in Staff, s \in Samples :
    /\ ManagesSample(u, s)
    /\ samples[s].status \in {"split", "pending_transfer"}
    /\ ~SampleUnderWay(s)
    /\ RouteCompleted(s)
    /\ Guided => PageNotifies(u, s)
    /\ Ask(p, [Idle EXCEPT !.op = "outbound", !.by = u, !.s = s])

Outbound(p) ==
  LET s == sess[p].s
      place == At(sess[p].by.lab, "pickup")
  IN /\ sess[p].op = "outbound"
     /\ samples' = [samples EXCEPT ![s] = Logged(AsOutbound(@, place), "outbound")]
     /\ wips' = AllWipsMoved(wips, s, place)
     /\ Answer(p)
     /\ UNCHANGED <<transfers, claimed, done, told>>

(* By the applicant alone.                                                 *)
AskPickup(p) ==
  \E s \in Samples :
    /\ samples[s].status = "outbound"
    /\ Ask(p, [Idle EXCEPT !.op = "pickup", !.s = s])

ConfirmPickup(p) ==
  LET s == sess[p].s
      place == At(NoLab, "with_applicant")
  IN /\ sess[p].op = "pickup"
     /\ samples' = [samples EXCEPT ![s] = Logged(AsPickedUp(@, place), "picked_up")]
     /\ wips' = AllWipsMoved(wips, s, place)
     /\ Answer(p)
     /\ UNCHANGED <<transfers, claimed, done, told>>

(* The order is checked before the first UPDATE takes the sample's row.    *)
AskSplit(p) ==
  \E u \in Staff, s \in Samples, wanted \in (SUBSET Experiments) \ {{}} :
    /\ ManagesSample(u, s)
    /\ Guided => PageSplits(u, s, wanted)
    /\ CreateInOrder(samples[s].route, wips, Mine(s), wanted)
    /\ Ask(p, [Idle EXCEPT !.op = "split", !.by = u, !.s = s, !.wanted = wanted])

(* Mutant of ToCreate: what the check saw is not looked at again.          *)
AllWanted(s, wanted) == wanted

(* What is missing once the row is taken.                                  *)
ToCreate(s, wanted) == {x \in wanted : ExistingWips(s, x) = {}}

ByName(S) == Ordered(S, LAMBDA a, b : a.lab < b.lab \/ (a.lab = b.lab /\ a.exp < b.exp))

(* The n-th number that is free for a WIP of the laboratory.               *)
NthFree(taken, lab, n) ==
  Ascending({m \in 1..(Cardinality(taken) + n) : <<lab, m>> \notin taken})[n]

(* The new rows, numbered per laboratory, each with the next free number.  *)
SplitRows(s, missing, place) ==
  LET xs == ByName(missing)
      Nth(n) == Cardinality({m \in 1..n : xs[m].lab = xs[n].lab})
      no(n) == NthFree(Numbers(s), xs[n].lab, Nth(n))
  IN [n \in DOMAIN xs |->
        WipWith(WipFromSplit(s, xs[n], no(n), place), "waiting_schedule", place)]

Split(p) ==
  LET s == sess[p].s
      place == At(sess[p].by.lab, "temp")
  IN /\ sess[p].op = "split"
     /\ samples' = [samples EXCEPT ![s] = Logged(AsSplit(@, place), "split")]
     /\ wips' = wips \o SplitRows(s, ToCreate(s, sess[p].wanted), place)
     /\ Answer(p)
     /\ UNCHANGED <<transfers, claimed, done, told>>

-----------------------------------------------------------------------------
(* Mutant of AfterCompletion: no history row for a sample that must be     *)
(* sent on.                                                                *)
AfterCompletionUnlogged(s, k, lab) ==
  WithStatusAt(samples[s], StatusAfter(samples[s].route, k, lab), At(lab, "temp"))

(* complete_wip_sample_flow: where the sample of WIP w goes.               *)
AfterCompletion(s, k, lab) ==
  LET row == samples[s]
      status == StatusAfter(row.route, k, lab)
      moved == WithStatusAt(row, status, At(lab, "temp"))
  IN IF status = "pending_transfer" \/ k = Len(row.route) THEN Logged(moved, status) ELSE moved

StepOfWip(w) == StepOf(samples[wips[w].sample].route, wips, Mine(wips[w].sample), w)

(* handle_wip_action.                                                      *)
NewStatus == [send_to_schedule |-> "waiting_schedule", start |-> "running",
              complete |-> "completed", terminate |-> "terminated"]

(* _build_wip_action_update_options: where the WIP is recorded then.       *)
ActionPlace(action, lab, at) ==
  IF action = "start" THEN At(lab, "machine")
  ELSE IF action = "complete" THEN At(lab, "temp") ELSE at

AskWip(p) ==
  \E u \in Staff, w \in DOMAIN wips, action \in WipActions :
    /\ ManagesWip(u, w)
    /\ action = "complete" =>
         CompleteInOrder(samples[wips[w].sample].route, wips, Mine(wips[w].sample), w)
    /\ Guided => OwnWip(u, w) /\ action = "send_to_schedule" /\ wips[w].status = "created"
    /\ Ask(p, [Idle EXCEPT !.op = action, !.by = u, !.w = w, !.s = wips[w].sample,
                           !.step = IF action = "complete" THEN StepOfWip(w) ELSE 0])

(* send_to_schedule, pause, terminate: the status alone.                   *)
SetWip(p) ==
  LET w == sess[p].w
  IN /\ sess[p].op \in {"send_to_schedule", "terminate"}
     /\ wips' = [wips EXCEPT ![w] = WipWith(@, NewStatus[sess[p].op],
                                             ActionPlace(sess[p].op, sess[p].by.lab, @.at))]
     /\ Answer(p)
     /\ UNCHANGED <<samples, transfers, claimed, done, told>>

(* start, resume: the sample and the lab's other WIPs come along.          *)
StartWip(p) ==
  LET w == sess[p].w
      s == sess[p].s
      lab == sess[p].by.lab
      place == ActionPlace("start", lab, wips[w].at)
  IN /\ sess[p].op = "start"
     /\ wips' = LabWipsMoved([wips EXCEPT ![w] = WipWith(@, "running", place)], s, lab, place)
     /\ samples' = [samples EXCEPT ![s] = Moved(@, place)]
     /\ Answer(p)
     /\ UNCHANGED <<transfers, claimed, done, told>>

CompleteWip(p) ==
  LET w == sess[p].w
      s == sess[p].s
      lab == sess[p].by.lab
      place == ActionPlace("complete", lab, wips[w].at)
  IN /\ sess[p].op = "complete"
     /\ wips' = LabWipsMoved([wips EXCEPT ![w] = WipWith(@, "completed", place)], s, lab, place)
     /\ samples' = [samples EXCEPT ![s] = IF lab = NoLab THEN Moved(@, place)
                                           ELSE AfterCompletion(s, sess[p].step, lab)]
     /\ done' = CompletedNow(w)
     /\ Answer(p)
     /\ UNCHANGED <<transfers, claimed, told>>

(* routes/others.py completes any WIP for anybody.                         *)
AskOthersComplete(p) ==
  \E w \in DOMAIN wips :
    /\ ~Guided
    /\ CompleteInOrder(samples[wips[w].sample].route, wips, Mine(wips[w].sample), w)
    /\ Ask(p, [Idle EXCEPT !.op = "complete_others", !.w = w, !.s = wips[w].sample,
                           !.step = StepOfWip(w)])

OthersComplete(p) ==
  LET w == sess[p].w
      s == sess[p].s
      lab == wips[w].lab
  IN /\ sess[p].op = "complete_others"
     /\ wips' = [wips EXCEPT ![w] = WipWith(@, "completed", At(lab, "temp"))]
     /\ samples' = [samples EXCEPT ![s] = AfterCompletion(s, sess[p].step, lab)]
     /\ done' = CompletedNow(w)
     /\ Answer(p)
     /\ UNCHANGED <<transfers, claimed, told>>

-----------------------------------------------------------------------------
(* The experiment run of WIP w ends (module ExperimentRun has its own      *)
(* races): the WIP's new status is committed first, then the sample        *)
(* follows in a transaction of its own, or does not if that fails.         *)
RunEnds(p, w, result, followup) ==
  /\ sess[p] = Idle /\ result \in Operations
  /\ wips[w].status \in {"waiting_schedule", "running"}
  /\ \E u \in Staff : OwnWip(u, w)
  /\ wips' = [wips EXCEPT ![w].status = result]
  /\ sess' = [sess EXCEPT ![p] = [Idle EXCEPT !.op = followup, !.w = w, !.s = wips[w].sample]]
  /\ UNCHANGED <<samples, transfers, claimed, told>>

ConfirmResult(p) ==
  \E w \in DOMAIN wips :
    /\ RunEnds(p, w, "completed", "advance")
    /\ done' = CompletedNow(w)

(* _advance_sample_flow.                                                   *)
AdvanceSample(p) ==
  LET s == sess[p].s
      lab == wips[sess[p].w].lab
      latest == LatestCompleted(s, lab)
  IN /\ sess[p].op = "advance"
     /\ samples' = IF latest = 0 THEN samples
                   ELSE [samples EXCEPT ![s] = AfterCompletion(s, StepOfWip(latest), lab)]
     /\ Answer(p)
     /\ UNCHANGED <<wips, transfers, claimed, done, told>>

TerminateRun(p) ==
  \E w \in DOMAIN wips :
    /\ RunEnds(p, w, "terminated", "withdraw")
    /\ UNCHANGED done

(* _advance_sample_on_termination.                                         *)
WithdrawSample(p) ==
  LET s == sess[p].s
  IN /\ sess[p].op = "withdraw"
     /\ samples' = IF \E w \in Mine(s) : wips[w].status # "terminated" THEN samples
                   ELSE [samples EXCEPT ![s] =
                           Logged([@ EXCEPT !.status = "terminated"], "terminated")]
     /\ Answer(p)
     /\ UNCHANGED <<wips, transfers, claimed, done, told>>

(* Both are best effort.                                                   *)
LoseFollowUp(p) ==
  /\ sess[p].op \in {"advance", "withdraw"}
  /\ Answer(p)
  /\ UNCHANGED <<rows, told>>

-----------------------------------------------------------------------------
(* transfer_service.                                                       *)
AskTransfer(p) ==
  \E u \in Staff, s \in Samples, from \in Labs, to \in Labs :
    /\ Present(s) /\ Len(transfers) < MaxTransfers
    /\ from # to /\ FromOwnLab(u, from)
    /\ u.role # "admin" => InLab(u, samples[s].at)
    /\ ~SampleUnderWay(s)
    /\ Guided => from = u.lab /\ PageTransfers(u, s, to)
    /\ Ask(p, [Idle EXCEPT !.op = "transfer", !.by = [u EXCEPT !.lab = from], !.s = s, !.to = to,
                           !.t = NextTransferNo, !.was = samples[s].status])

CreateTransfer(p) ==
  LET s == sess[p].s
      from == sess[p].by.lab
      to == sess[p].to
      place == WaitingArea(from)
  IN /\ sess[p].op = "transfer"
     /\ Guided => sess[p].t = NextTransferNo   \* no page names a number itself
     /\ transfers' = Append(transfers, NewTransfer("sample", s, from, to))
     /\ samples' = [samples EXCEPT ![s] = Logged(Moved(@, place), sess[p].was)]
     /\ wips' = NextLabWipsMoved(s, to, place)
     /\ Answer(p)
     /\ UNCHANGED <<claimed, done, told>>

(* A WIP can be sent on its own; nothing receives it.                      *)
AskWipTransfer(p) ==
  \E u \in Staff, w \in DOMAIN wips, to \in Labs :
    /\ ~Guided /\ Len(transfers) < MaxTransfers
    /\ u.lab \notin {NoLab, to}
    /\ u.role # "admin" => InLab(u, wips[w].at)
    /\ ActiveTransfers("wip", w) = {}
    /\ Ask(p, [Idle EXCEPT !.op = "transfer_wip", !.by = u, !.w = w, !.to = to,
                           !.t = NextTransferNo])

CreateWipTransfer(p) ==
  LET w == sess[p].w
      from == sess[p].by.lab
  IN /\ sess[p].op = "transfer_wip"
     /\ transfers' = Append(transfers, NewTransfer("wip", w, from, sess[p].to))
     /\ wips' = [wips EXCEPT ![w] = Moved(@, WaitingArea(from))]
     /\ Answer(p)
     /\ UNCHANGED <<samples, claimed, done, told>>

(* transfer_no is unique: if the number was counted before another row was *)
(* inserted the INSERT fails, and the request with it.                     *)
TransferNoTaken(p) ==
  /\ sess[p].op \in {"transfer", "transfer_wip"}
  /\ sess[p].t < NextTransferNo
  /\ Answer(p)
  /\ UNCHANGED <<rows, told>>

(* Mutant of Movable: a transfer that was cancelled.                       *)
NotArrived(t) == transfers[t].status # "received"

Movable(t) == transfers[t].status = "pending"

AskMove(p) ==
  \E u \in Staff, t \in DOMAIN transfers, op \in {"send", "cancel"} :
    /\ FromOwnLab(u, transfers[t].from)
    /\ Movable(t)
    /\ Guided => t \in TransfersOf(u)
    /\ Ask(p, [Idle EXCEPT !.op = op, !.by = u, !.t = t])

SendTransfer(p) ==
  LET t == sess[p].t
      of == transfers[t].of
      place == ReceiveArea(transfers[t].to)
  IN /\ sess[p].op = "send"
     /\ transfers' = [transfers EXCEPT ![t] = AsTransferring(@)]
     /\ IF transfers[t].kind = "sample"
        THEN /\ samples' = [samples EXCEPT ![of] =
                               Logged(AsPendingReceive(@, place), "pending_receive")]
             /\ wips' = NextLabWipsMoved(of, transfers[t].to, place)
        ELSE /\ wips' = [wips EXCEPT ![of] = Moved(@, place)]
             /\ UNCHANGED samples
     /\ Answer(p)
     /\ UNCHANGED <<claimed, done, told>>

(* The claim of the destination is to be released, and stays: it is looked *)
(* for by the sample's id where items have its number.                     *)
CancelTransfer(p) ==
  LET t == sess[p].t
      s == transfers[t].of
      claims == Releasable(RowId(s), transfers[t].to)
  IN /\ sess[p].op = "cancel"
     /\ transfers' = [transfers EXCEPT ![t] = AsCancelled(@)]
     /\ IF transfers[t].kind = "sample"
        THEN /\ samples' = [samples EXCEPT ![s] =
                              Logged(Moved(@, WaitingArea(transfers[t].from)), @.status)]
             /\ claimed' \in IF claims = {} THEN {claimed} ELSE {claimed \ {i} : i \in claims}
        ELSE UNCHANGED <<samples, claimed>>
     /\ Answer(p)
     /\ UNCHANGED <<wips, done, told>>

-----------------------------------------------------------------------------
(* routes/others.py: what is missing of the route, whoever asks.  What     *)
(* exists and which numbers are free is looked up before any row is taken. *)
AskGenerate(p) ==
  \E s \in Samples :
    LET route == samples[s].route
    IN /\ samples[s].status \in {"received", "split", "pending_transfer"} /\ ~Guided
       /\ CreatableByGroup(route, wips, Mine(s)) # {}
       /\ Ask(p, [Idle EXCEPT !.op = "generate", !.s = s, !.found = Numbers(s),
                              !.items = CreatableByGroup(route, wips, Mine(s)),
                              !.wanted = {x \in Experiments : ExistingWips(s, x) = {}}])

(* Each takes the first number from its place on that is free, and that    *)
(* none before it was given.                                               *)
GeneratedNumbers(found, new, places, most) ==
  CHOOSE no \in [DOMAIN new -> 1..most] :
    \A n \in DOMAIN new :
      LET given == {<<new[m].lab, no[m]>> : m \in 1..(n - 1)}
      IN no[n] = FreeNumber(found \cup given, new[n].lab, places[n])

(* An experiment that has a WIP, or has just got one, is passed over.      *)
GeneratedRows(p) ==
  LET whole == GroupedRoute(samples[sess[p].s].route)
      places == Ascending(sess[p].items)
      Named(k) == [lab |-> whole[places[k]].lab, exp |-> whole[places[k]].exp]
      created == Ascending({k \in DOMAIN places : /\ Named(k) \in sess[p].wanted
                                                  /\ \A j \in 1..(k - 1) : Named(j) # Named(k)})
      new == [n \in DOMAIN created |-> Named(created[n])]
      most == Len(places) + Cardinality(sess[p].found) + Len(created)
      no  == GeneratedNumbers(sess[p].found, new, created, most)
  IN [n \in DOMAIN created |-> WipFromSplit(sess[p].s, new[n], no[n], At(new[n].lab, "temp"))]

(* wip_no is unique: an INSERT of a number taken meanwhile fails, and the  *)
(* request with it.                                                        *)
GenerateMissing(p) ==
  LET s == sess[p].s
      new == GeneratedRows(p)
  IN /\ sess[p].op = "generate"
     /\ IF {<<r.lab, r.no>> : r \in ToSet(new)} \cap Numbers(s) = {}
        THEN /\ wips' = wips \o new
             /\ samples' = [samples EXCEPT ![s] = Logged(AsSplit(@, @.at), "split")]
        ELSE UNCHANGED <<wips, samples>>
     /\ Answer(p)
     /\ UNCHANGED <<transfers, claimed, done, told>>

-----------------------------------------------------------------------------
Init ==
  /\ samples = [s \in Samples |-> NoSample]
  /\ wips = <<>> /\ transfers = <<>> /\ done = <<>>
  /\ claimed = {}
  /\ told = [l \in Labs \cup {NoLab} |-> [s \in Samples |-> 0]]
  /\ sess = [p \in Sessions |-> Idle]

SampleRequest(p) ==
  \/ AskDelivery(p) \/ AskReceive(p) \/ AskInbound(p) \/ AskOutbound(p) \/ AskPickup(p)
  \/ AskSplit(p) \/ AskGenerate(p)

WorkRequest(p) ==
  \/ AskNext(p) \/ AskWip(p) \/ AskOthersComplete(p)
  \/ AskTransfer(p) \/ AskWipTransfer(p) \/ AskMove(p)

SampleHandler(p) ==
  \/ Deliver(p) \/ Receive(p) \/ Inbound(p) \/ Outbound(p) \/ ConfirmPickup(p)
  \/ Split(p) \/ GenerateMissing(p)

WorkHandler(p) ==
  \/ NextItem(p) \/ SetWip(p) \/ StartWip(p) \/ CompleteWip(p)
  \/ OthersComplete(p)
  \/ ConfirmResult(p) \/ AdvanceSample(p) \/ TerminateRun(p) \/ WithdrawSample(p)
  \/ LoseFollowUp(p)
  \/ CreateTransfer(p) \/ CreateWipTransfer(p) \/ TransferNoTaken(p)
  \/ SendTransfer(p) \/ CancelTransfer(p)

(* Every sample is back with the applicant: nothing more to ask.           *)
AllPickedUp ==
  /\ \A s \in Samples : samples[s].status = "picked_up"
  /\ UNCHANGED vars

Next ==
  \/ \E p \in Sessions : SampleRequest(p) \/ WorkRequest(p) \/ SampleHandler(p) \/ WorkHandler(p)
  \/ AllPickedUp

Spec == Init /\ [][Next]_vars

-----------------------------------------------------------------------------
(* Types.                                                                  *)
WipRows == [sample : Samples, lab : Labs, exp : {x.exp : x \in Experiments}, no : Nat \ {0},
            status : WipStatuses, at : Places]
TransferRows == [kind : {"sample", "wip"}, of : Nat \ {0}, from : Labs, to : Labs,
                 status : TransferStatuses]

TypeOK ==
  /\ \A s \in Samples : /\ samples[s].status \in SampleStatuses
                        /\ samples[s].at \in Places
                        /\ ToSet(samples[s].route) \subseteq Steps
  /\ ToSet(wips) \subseteq WipRows
  /\ ToSet(transfers) \subseteq TransferRows
  /\ claimed \subseteq ItemIds
  /\ ToSet(done) \subseteq DOMAIN wips
  /\ \A l \in Labs \cup {NoLab}, s \in Samples : told[l][s] \in {0} \cup ItemsOf(s)
  /\ \A p \in Sessions : sess[p] = Idle \/ sess[p].op \in Operations \cup {"advance", "withdraw"}

(* A sample that was announced for pickup, or has been picked up, has a    *)
(* completed WIP for every item of its order: _outbound_sample counts the  *)
(* route and the WIPs, never the items.                                    *)
PickedUpWhenDone ==
  \A s \in Samples : samples[s].status \in {"outbound", "picked_up"} =>
    \A i \in ItemsOf(s) : ItemDone(i, wips, Mine(s))

(* While it is on its way the sample is where its transfer says: with the  *)
(* sender until it is sent, then in the receiver's area, to be received;   *)
(* and it is on its way to one place.  Nothing in the rows ties the two; a *)
(* sample elsewhere could neither be received nor sent again.              *)
Custody ==
  /\ \A t \in DOMAIN transfers : transfers[t].kind = "sample" =>
       LET row == samples[transfers[t].of]
       IN /\ transfers[t].status = "pending" => row.at.lab = transfers[t].from
          /\ transfers[t].status = "transferring" =>
               row.at = At(transfers[t].to, "receive") /\ row.status = "pending_receive"
  /\ \A s \in Samples : Cardinality(ActiveTransfers("sample", s)) <= 1

(* A transfer under way leads where the next work is: an experiment that   *)
(* may be created there, or a WIP that is open.  The destination comes     *)
(* from the order's items and the machines' utilization, what may be       *)
(* created from the sample's route.                                        *)
SentWhereNeeded ==
  \A t \in DOMAIN transfers :
    transfers[t].kind = "sample" /\ transfers[t].status \in {"pending", "transferring"} =>
      LET s == transfers[t].of
          route == samples[s].route
      IN \/ \E w \in IncompleteWips(s) : wips[w].lab = transfers[t].to
         \/ \E k \in CreatableByGroup(route, wips, Mine(s)) :
              GroupedRoute(route)[k].lab = transfers[t].to

(* Where the page would be told to send the sample of a laboratory.        *)
Destinations(lab, s) ==
  IF told[lab][s] # 0 /\ ~ItemDone(told[lab][s], wips, Mine(s)) THEN {told[lab][s]}
  ELSE {Chosen(NextCandidates(s, wips, Mine(s)), claimed, claimed, park) : park \in Parks}

(* Some page offers a step that takes the sample further.                  *)
CanMove(s) ==
  \/ samples[s].status = "outbound"
  \/ \E u \in Staff :
       \/ PageReceives(u, s)
       \/ \E x \in Experiments :
            PageSplits(u, s, {x}) /\ CreateInOrder(samples[s].route, wips, Mine(s), {x})
       \/ \E w \in IncompleteWips(s) : OwnWip(u, w) /\ wips[w].status # "terminated"
       \/ /\ PageShows(u, s) /\ ~SampleUnderWay(s)
          /\ \A i \in Destinations(u.lab, s) : i # 0 /\ Items[i].lab # u.lab
       \/ \E t \in ActiveTransfers("sample", s) :
            t \in TransfersOf(u) /\ FromOwnLab(u, transfers[t].from) /\ Movable(t)
       \/ PageNotifies(u, s) /\ ~SampleUnderWay(s) /\ RouteCompleted(s)

(* As long as a sample is not back with its applicant, some page offers a  *)
(* step that takes it further: the pages, the visibility filters and the   *)
(* guards of the services together leave no sample behind.                 *)
NeverStuck ==
  (\A p \in Sessions : sess[p] = Idle) =>
    \A s \in Samples : Present(s) /\ samples[s].status # "picked_up" => CanMove(s)

(* In a dependency group a laboratory has a WIP only when the items of     *)
(* other laboratories before its own are completed.                        *)
InDependencyOrder ==
  \A s \in Samples : \A i, j \in ItemsOf(s) :
    /\ Items[i].group = Items[j].group /\ Items[i].target < Items[j].target
    /\ Items[i].lab # Items[j].lab
    /\ \E w \in Mine(s) : SameExperiment(Items[j], wips[w])
    => ItemDone(i, wips, Mine(s))

(* The sample starts in the laboratory its applicant was told to deliver   *)
(* it to ("否則畫面顯示送往 B，但這裡會因為原始 order_items 順序又落到 A").   *)
DeliveredWhereTold ==
  \A s \in Samples : Present(s) => samples[s].route[1] = Step(told[NoLab][s])

(* The last row of a sample's history names the status it has.  The one    *)
(* step that is not recorded: a completed WIP that leaves more to do in    *)
(* its laboratory brings a sample from pending_transfer back to split.     *)
HistoryFollows ==
  \A s \in Samples :
    \/ samples[s].log = samples[s].status
    \/ samples[s].log = "pending_transfer" /\ samples[s].status = "split"

(* An experiment of a sample has one WIP, however many requests create it. *)
OneWipPerExperiment ==
  \A v, w \in DOMAIN wips :
    wips[v].sample = wips[w].sample /\ wips[v].lab = wips[w].lab /\ wips[v].exp = wips[w].exp
      => v = w

(* A sample is announced for pickup only when every item of its order has  *)
(* a completed WIP, none is open and no transfer is under way, whatever    *)
(* calls of the API came before (handle_sample_action, outbound).          *)
OutboundJustified ==
  [][\A s \in Samples : samples[s].status # "outbound" /\ samples'[s].status = "outbound" =>
       /\ IncompleteWips(s) = {} /\ ~SampleUnderWay(s)
       /\ \A i \in ItemsOf(s) : ItemDone(i, wips, Mine(s))]_vars

(* A transfer that has ended stays as it ended.                            *)
EndedStays ==
  [][\A t \in DOMAIN transfers : transfers[t].status \in {"received", "cancelled"} =>
       transfers'[t] = transfers[t]]_vars

=============================================================================
