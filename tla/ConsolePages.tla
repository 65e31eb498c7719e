---------------------------- MODULE ConsolePages ----------------------------
(***************************************************************************)
(* The other pages of the web console (workspace-sections.tsx): the        *)
(* validation, simulation and rollback pages, and the lists of             *)
(* publications, decisions, memories and audit records.  Each keeps its    *)
(* own state and loads it with a refresh of its own; they differ in what a *)
(* refresh selects, in what stays live while an answer is awaited, and in  *)
(* where a filter is applied.                                              *)
(*                                                                         *)
(* One page is mounted at a time.  Leaving it discards its state and the   *)
(* answers still under way, so a behaviour is the life of one page.  The   *)
(* documents are those of ConfigWorkspace and stay as they are; the server *)
(* side is kept to what these pages read.                                  *)
(***************************************************************************)
EXTENDS Naturals, Sequences

CONSTANTS
    Pages,             \* the pages a behaviour may open
    Documents,         \* the documents the server lists: kind, family and version
    Faulty,            \* those in which validation finds an error
    StartPublications, \* the publications there are when the page mounts
    StartLog, LogRows, \* decisions, memories or audit records: then, and ever
    Values,            \* what may be typed into each filter
    Samples,           \* the APIs of the sample events
    Role,
    Calls,             \* bound on the handlers under way together
    MaxPublications    \* bound on the publications rollbacks create

VARIABLES
    results,        \* the server's latest validation result of each document
    publications,   \* the server's publications, oldest first
    log,            \* the server's decisions, memories or audit records
    page, filters,
    rows,           \* the records the page lists
    fetched,        \* the documents the page knows: all of them or none yet
    selected,       \* the selected document, 0 for none
    validations, current,        \* the runs fetched, and the one in focus
    event, simulated, runError,  \* the sample event, the last simulation, its failure
    snapshot, gate,              \* the snapshot selected for rollback, the open dialog
    error, loading, running,
    calls           \* what each handler awaits

server == <<results, publications, log>>
list == <<filters, rows>>
focus == <<fetched, selected, validations, current>>
simulation == <<event, simulated, runError>>
rollback == <<snapshot, gate>>
vars == <<server, page, list, focus, simulation, rollback, error, loading, running, calls>>

AllPages == {"validation", "simulation", "publications", "rollback", "decisions", "memories", "audits"}
ListPages == {"publications", "decisions", "memories", "audits"}
Kinds == {"api-ontology", "memory-ontology", "policy-profile"}
Docs == DOMAIN Documents
Global == "global"    \* the family (scope and tenant) of global documents

(* status is the outcome, an action on the audit page; it also stands for  *)
(* the filters that are treated as it is.                                  *)
Fields == {"scope", "tenant", "status"}

ASSUME PagesAssumptions ==
    /\ Pages \subseteq AllPages
    /\ \A d \in Docs : Documents[d].kind \in Kinds
    /\ Faulty \subseteq Docs
    /\ StartLog \subseteq LogRows
    /\ MaxPublications \in Nat
    /\ Calls \subseteq Nat /\ \E c \in Calls : \A b \in Calls : c <= b

ValidationRun == [doc : Docs, status : {"pass", "fail"}, issues : BOOLEAN]
NoRun == [doc |-> 0, status |-> "none", issues |-> FALSE]
NoEvent == [api |-> "", lines |-> FALSE]
NoSimulation == [doc |-> 0, event |-> NoEvent, api |-> "", bundle |-> <<>>]
NoSnapshot == [id |-> 0, scope |-> "", tenant |-> "", status |-> "none", bundle |-> <<>>]

(* A handler: what it saw when it was started, and the answer.             *)
Idle == [job |-> "idle"]
Awaiting(job, seen) == [job |-> job, doc |-> seen, filters |-> filters,
                        event |-> IF job = "simulate" THEN event ELSE NoEvent,
                        reply |-> "none", rows |-> {}, runs |-> <<>>,
                        run |-> NoRun, simulated |-> NoSimulation]
-----------------------------------------------------------------------------
(* What the page computes from what it fetched.                            *)
CanRollback == Role \in {"operator", "admin"}

Newest(docs) == CHOOSE d \in docs : \A e \in docs : Documents[e].version <= Documents[d].version

(* The candidate bundle: the newest of each kind in the family of the      *)
(* selected document, which stands for its own kind itself.                *)
SimulationBundle ==
    LET family == {d \in Docs : Documents[d].family = Documents[selected].family}
        OfKind(k) == {d \in family : Documents[d].kind = k}
    IN  IF ~fetched \/ selected = 0 \/ \E k \in Kinds : OfKind(k) = {} THEN <<>>
        ELSE [k \in Kinds |-> IF k = Documents[selected].kind THEN selected ELSE Newest(OfKind(k))]

CanRunSimulation == selected # 0 /\ SimulationBundle # <<>>

Shown == IF error THEN "error" ELSE IF loading THEN "loading" ELSE "content"
Live(what) == Shown = what /\ ~gate

RunOf(runs, d) == IF d \in DOMAIN runs THEN runs[d] ELSE NoRun

(* Slip: the run in focus is the one that was set last.                    *)
RealignedLast(d, runs, set) == set

(* The effect on [selectedId, validations] has the last word on the run in *)
(* focus, whatever the handler has just set.                               *)
Realigned(d, runs, set) == IF d = 0 THEN set ELSE RunOf(runs, d)

(* The types of the page's state; a simulation is asked for only with a    *)
(* complete family, a rollback only to a snapshot there is.                *)
TypeOK == /\ results \in [Docs -> {"none", "pass", "fail"}]
          /\ Len(publications) <= Len(StartPublications) + MaxPublications
          /\ log \subseteq LogRows
          /\ page \in Pages
          /\ \A f \in Fields : filters[f] \in Values[f]
          /\ fetched \in BOOLEAN /\ selected \in Docs \cup {0}
          /\ \A d \in DOMAIN validations : validations[d] \in ValidationRun /\ validations[d].doc = d
          /\ current \in ValidationRun \cup {NoRun}
          /\ event.api \in Samples /\ event.lines \in BOOLEAN /\ runError \in BOOLEAN
          /\ snapshot.id \in 0..Len(publications)
          /\ gate \in BOOLEAN /\ error \in BOOLEAN /\ loading \in BOOLEAN /\ running \in BOOLEAN
          /\ \A c \in Calls :
               /\ calls[c].job \in {"idle", "load", "validate", "simulate", "rollback"}
               /\ calls[c].job = "simulate" =>
                    \A k \in Kinds : \E d \in Docs : /\ Documents[d].kind = k
                                                    /\ Documents[d].family = Documents[calls[c].doc].family
               /\ calls[c].job = "rollback" => calls[c].doc \in DOMAIN publications
-----------------------------------------------------------------------------
(* The server, as far as these pages see it.                               *)
Serving == {p \in DOMAIN publications : publications[p].family = Global /\ publications[p].active}

(* A document on its own is judged with the active bundle around it.       *)
Judged(d) == {d} \cup {publications[p].bundle[k] : p \in Serving, k \in Kinds \ {Documents[d].kind}}

(* toPublicationSnapshot: a rollback is "rolled-back", active or not.      *)
PublicationStatus(p) == IF publications[p].rollbackOf # 0 THEN "rolled-back"
                        ELSE IF publications[p].active THEN "active"
                        ELSE "archived"

Snapshots == {[id |-> p, scope |-> publications[p].family, tenant |-> publications[p].tenant,
               status |-> PublicationStatus(p), bundle |-> publications[p].bundle]
                 : p \in DOMAIN publications}

(* Which filters each list obeys.  The server drops the tenant of a query  *)
(* for publications, which it knows as tenant_id, and their status.        *)
FilteredByServer == [publications |-> {"scope"}, decisions |-> {"tenant"},
                     memories |-> {"tenant"}, audits |-> Fields]
FilteredByClient == [publications |-> {}, decisions |-> Fields, memories |-> Fields, audits |-> {}]

Obeys(r, fs, fields) == \A f \in fields : fs[f] \in {"", r[f]}

(* The records of a page that pass the server's filters and the client's.  *)
(* Only active memories are ever returned.                                 *)
Listing(fs) ==
    IF page = "rollback" THEN Snapshots
    ELSE IF page \notin ListPages THEN {}
    ELSE {r \in IF page = "publications" THEN Snapshots ELSE log :
            /\ Obeys(r, fs, FilteredByServer[page] \cup FilteredByClient[page])
            /\ page = "memories" => r.status = "active"}

(* groupValidationRuns: the stored issues, by document.                    *)
Runs == [d \in {e \in Docs : results[e] # "none"} |->
           [doc |-> d, status |-> results[d], issues |-> results[d] = "fail"]]

Verdict(docs) == IF docs \cap Faulty # {} THEN "fail" ELSE "pass"
-----------------------------------------------------------------------------
Start(c, call) == /\ calls[c] = Idle /\ \A b \in Calls : b < c => calls[b] # Idle
                  /\ calls' = [calls EXCEPT ![c] = call]

(* Slip: the page goes into loading before it looks at the filters.        *)
RefreshLoadingFirst(c, fs) ==
    /\ loading' = TRUE
    /\ IF page = "memories" /\ fs["tenant"] = ""
       THEN rows' = {} /\ error' = TRUE /\ UNCHANGED calls
       ELSE error' = FALSE /\ Start(c, [Awaiting("load", selected) EXCEPT !.filters = fs]) /\ UNCHANGED rows

(* Slip: the page stays as it is while its refresh is awaited.             *)
RefreshQuietly(c, fs) ==
    IF page = "memories" /\ fs["tenant"] = ""
    THEN rows' = {} /\ error' = TRUE /\ UNCHANGED <<loading, calls>>
    ELSE /\ error' = FALSE
         /\ Start(c, [Awaiting("load", selected) EXCEPT !.filters = fs])
         /\ UNCHANGED <<rows, loading>>

(* refresh, with the filters of this rendering.  The memory page refuses   *)
(* to ask without a tenant or a user (of which the model has the tenant).  *)
Refresh(c, fs) ==
    IF page = "memories" /\ fs["tenant"] = ""
    THEN rows' = {} /\ error' = TRUE /\ UNCHANGED <<loading, calls>>
    ELSE /\ loading' = TRUE /\ error' = FALSE
         /\ Start(c, [Awaiting("load", selected) EXCEPT !.filters = fs])
         /\ UNCHANGED rows

Init == /\ results = [d \in Docs |-> "none"]
        /\ publications = StartPublications
        /\ log = StartLog
        /\ page \in Pages
        /\ filters = [f \in Fields |-> IF page = "memories" /\ f = "tenant" THEN "all" ELSE ""]
        /\ rows = {} /\ fetched = FALSE /\ selected = 0
        /\ validations = <<>> /\ current = NoRun
        /\ event = [api |-> "docs.openDocument", lines |-> TRUE]
        /\ simulated = NoSimulation /\ runError = FALSE
        /\ snapshot = NoSnapshot /\ gate = FALSE
        /\ error = FALSE /\ loading = TRUE /\ running = FALSE
        /\ calls = [c \in Calls |-> IF \A b \in Calls : c <= b THEN Awaiting("load", 0) ELSE Idle]

Retry(c) == /\ Live("error")
            /\ Refresh(c, filters)
            /\ UNCHANGED <<server, page, filters, focus, simulation, rollback, running>>

(* A keystroke in a filter: the effect on [filters] loads anew.            *)
ChangeFilter(c, f, v) == /\ page \in ListPages /\ Live("content") /\ v # filters[f]
                         /\ filters' = [filters EXCEPT ![f] = v]
                         /\ Refresh(c, filters')
                         /\ UNCHANGED <<server, page, focus, simulation, rollback, running>>

SelectDocument(d) ==
    /\ Live("content") /\ fetched /\ d # selected
    /\ \/ page = "validation" /\ d \in Docs
       \/ page \in {"simulation", "publications"} /\ d \in Docs \cup {0}
    /\ selected' = d
    /\ current' = IF page = "validation" THEN Realigned(d, validations, RunOf(validations, d)) ELSE current
    /\ UNCHANGED <<server, page, list, fetched, validations, simulation, rollback, error, loading, running, calls>>

(* The button is in the header: it is there while the page loads, too.     *)
RunValidation(c) == /\ page = "validation" /\ selected # 0 /\ ~running
                    /\ Start(c, Awaiting("validate", selected))
                    /\ running' = TRUE /\ error' = FALSE
                    /\ UNCHANGED <<server, page, list, focus, simulation, rollback, loading>>

(* A sample of the dropdown, whose value holds a backslash and an n where  *)
(* the lines should end; or one typed below it.                            *)
ChooseSample(api, lines) ==
    /\ page = "simulation" /\ Live("content") /\ event # [api |-> api, lines |-> lines]
    /\ event' = [api |-> api, lines |-> lines]
    /\ UNCHANGED <<server, page, list, focus, simulated, runError, rollback, error, loading, running, calls>>

RunSimulation(c) == /\ page = "simulation" /\ CanRunSimulation
                    /\ Start(c, Awaiting("simulate", selected))
                    /\ runError' = FALSE
                    /\ UNCHANGED <<server, page, list, focus, event, simulated, rollback, error, loading, running>>

SelectSnapshot(s) == /\ page = "rollback" /\ Live("content") /\ s # snapshot
                     /\ snapshot' = s
                     /\ UNCHANGED <<server, page, list, focus, simulation, gate, error, loading, running, calls>>

AskRollback == /\ page = "rollback" /\ Live("content") /\ snapshot # NoSnapshot /\ CanRollback
               /\ gate' = TRUE
               /\ UNCHANGED <<server, page, list, focus, simulation, snapshot, error, loading, running, calls>>

CancelRollback == /\ gate /\ gate' = FALSE
                  /\ UNCHANGED <<server, page, list, focus, simulation, snapshot, error, loading, running, calls>>

(* The dialog stays open, and its button live, until the answer.           *)
ConfirmRollback(c) == /\ gate
                      /\ Start(c, Awaiting("rollback", snapshot.id))
                      /\ UNCHANGED <<server, page, list, focus, simulation, rollback, error, loading, running>>
-----------------------------------------------------------------------------
Waiting(c) == calls[c] # Idle /\ calls[c].reply = "none"

ServeLoad(c) ==
    /\ Waiting(c) /\ calls[c].job = "load"
    /\ calls' = [calls EXCEPT ![c].reply = "ok", ![c].runs = Runs, ![c].rows = Listing(calls[c].filters)]
    /\ UNCHANGED server

(* toValidationRun: the status of all that was judged, the issues of this  *)
(* document.                                                               *)
ServeValidate(c) ==
    /\ Waiting(c) /\ calls[c].job = "validate"
    /\ LET d == calls[c].doc
       IN  /\ results' = [e \in Docs |-> IF e \in Judged(d) THEN Verdict({e}) ELSE results[e]]
           /\ calls' = [calls EXCEPT ![c].reply = "ok",
                          ![c].run = [doc |-> d, status |-> Verdict(Judged(d)), issues |-> d \in Faulty]]
    /\ UNCHANGED <<publications, log>>

(* parseSampleEvent reads the API from the first of the lines; a candidate *)
(* is completed from the active bundle, without which there is no answer.  *)
ServeSimulate(c) ==
    /\ Waiting(c) /\ calls[c].job = "simulate" /\ Serving # {}
    /\ LET d == calls[c].doc
           e == calls[c].event
       IN  calls' = [calls EXCEPT ![c].reply = "ok",
             ![c].simulated = [doc |-> d, event |-> e, api |-> IF e.lines THEN e.api ELSE "unknown",
                               bundle |-> [k \in Kinds |-> IF k = Documents[d].kind THEN d
                                             ELSE publications[CHOOSE p \in Serving : TRUE].bundle[k]]]]
    /\ UNCHANGED server

(* rollback_publication: a copy of the target takes the place of the       *)
(* active publication of its scope and tenant.                             *)
ServeRollback(c) ==
    /\ Waiting(c) /\ calls[c].job = "rollback"
    /\ Len(publications) < Len(StartPublications) + MaxPublications
    /\ LET target == publications[calls[c].doc]
       IN  publications' = Append([p \in DOMAIN publications |->
                                     IF publications[p].family = target.family
                                     THEN [publications[p] EXCEPT !.active = FALSE] ELSE publications[p]],
                                  [target EXCEPT !.active = TRUE, !.rollbackOf = calls[c].doc])
    /\ calls' = [calls EXCEPT ![c].reply = "ok"]
    /\ UNCHANGED <<results, log>>

Serve(c) == /\ ServeLoad(c) \/ ServeValidate(c) \/ ServeSimulate(c) \/ ServeRollback(c)
            /\ UNCHANGED <<page, list, focus, simulation, rollback, error, loading, running>>

(* The request is refused or lost, or its answer is.                       *)
Fail(c) == /\ calls[c] # Idle /\ calls[c].reply # "failed"
           /\ calls' = [calls EXCEPT ![c] = [Awaiting(@.job, @.doc) EXCEPT !.filters = calls[c].filters,
                                                  !.event = calls[c].event, !.reply = "failed"]]
           /\ UNCHANGED <<server, page, list, focus, simulation, rollback, error, loading, running>>

(* The system records a decision, a memory or an operator's action.        *)
Elsewhere == /\ page \in {"decisions", "memories", "audits"}
             /\ \E r \in LogRows \ log : log' = log \cup {r}
             /\ UNCHANGED <<results, publications, page, list, focus, simulation, rollback, error, loading,
                            running, calls>>
-----------------------------------------------------------------------------
Answered(c, job) == calls[c].job = job /\ calls[c].reply # "none"
Good(c) == calls[c].reply = "ok"
Ended(c) == calls' = [calls EXCEPT ![c] = Idle]

(* The first document listed is selected if none was when refresh began.   *)
Reselected(c) == IF calls[c].doc = 0 /\ Docs # {} THEN 1 ELSE selected

ReceiveLoad(c) ==
    /\ Answered(c, "load")
    /\ IF Good(c)
       THEN /\ rows' = calls[c].rows
            /\ CASE page = "validation" ->
                      /\ fetched' = TRUE /\ selected' = Reselected(c) /\ validations' = calls[c].runs
                      /\ current' = Realigned(selected', validations', RunOf(validations', calls[c].doc))
                      /\ UNCHANGED snapshot
                 [] page \in {"simulation", "publications"} ->
                      fetched' = TRUE /\ selected' = Reselected(c) /\ UNCHANGED <<validations, current, snapshot>>
                 [] page = "rollback" ->
                      /\ snapshot' = IF snapshot # NoSnapshot \/ rows' = {} THEN snapshot
                                     ELSE CHOOSE s \in rows' : \A t \in rows' : t.id <= s.id
                      /\ UNCHANGED focus
                 [] OTHER -> UNCHANGED <<focus, snapshot>>
            /\ UNCHANGED error
       ELSE error' = TRUE /\ UNCHANGED <<rows, focus, snapshot>>
    /\ loading' = FALSE
    /\ Ended(c)
    /\ UNCHANGED <<server, page, filters, simulation, gate, running>>

ReceiveRun(c) ==
    /\ Answered(c, "validate")
    /\ IF Good(c)
       THEN /\ validations' = [d \in DOMAIN validations \cup {calls[c].doc} |->
                                 IF d = calls[c].doc THEN calls[c].run ELSE validations[d]]
            /\ current' = Realigned(selected, validations', calls[c].run)
            /\ UNCHANGED error
       ELSE error' = TRUE /\ UNCHANGED <<validations, current>>
    /\ running' = FALSE
    /\ Ended(c)
    /\ UNCHANGED <<server, page, list, fetched, selected, simulation, rollback, loading>>

ReceiveSimulation(c) ==
    /\ Answered(c, "simulate")
    /\ simulated' = IF Good(c) THEN calls[c].simulated ELSE NoSimulation
    /\ runError' = (runError \/ ~Good(c))
    /\ Ended(c)
    /\ UNCHANGED <<server, page, list, focus, event, rollback, error, loading, running>>

(* A rollback that was answered closes the dialog and loads the history    *)
(* anew; of one that failed the operator learns nothing.                   *)
ReceiveRollback(c) ==
    /\ Answered(c, "rollback")
    /\ IF Good(c)
       THEN /\ gate' = FALSE /\ loading' = TRUE /\ error' = FALSE
            /\ calls' = [calls EXCEPT ![c] = Awaiting("load", selected)]
       ELSE Ended(c) /\ UNCHANGED <<gate, loading, error>>
    /\ UNCHANGED <<server, page, list, focus, simulation, snapshot, running>>

Next == \/ \E c \in Calls : \/ Retry(c) \/ RunValidation(c) \/ RunSimulation(c) \/ ConfirmRollback(c)
                            \/ \E f \in Fields : \E v \in Values[f] : ChangeFilter(c, f, v)
                            \/ Serve(c) \/ Fail(c)
                            \/ ReceiveLoad(c) \/ ReceiveRun(c) \/ ReceiveSimulation(c) \/ ReceiveRollback(c)
        \/ \E d \in Docs \cup {0} : SelectDocument(d)
        \/ \E api \in Samples, lines \in BOOLEAN : ChooseSample(api, lines)
        \/ \E s \in rows : SelectSnapshot(s)
        \/ AskRollback \/ CancelRollback
        \/ Elsewhere

Spec == Init /\ [][Next]_vars
-----------------------------------------------------------------------------
(* The validation page shows, as the outcome for the selected document,    *)
(* the run it holds for this document, though a run that was started for   *)
(* another document may have been answered last, or a load that began      *)
(* before the selection moved.                                             *)
CurrentFollows == page = "validation" /\ selected # 0 => current = RunOf(validations, selected)

(* Once a list is on screen, it is the answer to the filters on screen: no *)
(* record that they exclude (of those filters that have an effect), and    *)
(* every record they admit that was there from the beginning.  The answer  *)
(* to an earlier keystroke must not arrive last.                           *)
FiltersAnswered ==
    page \in ListPages /\ Shown = "content" =>
      /\ \A r \in rows : Obeys(r, filters, FilteredByServer[page] \cup FilteredByClient[page])
      /\ page # "publications" => StartLog \cap Listing(filters) \subseteq rows

(* A page that says it is loading or running awaits an answer that will    *)
(* end this, whatever fails and however the handlers overlap.              *)
LoadingAwaited == /\ loading => \E c \in Calls : calls[c].job = "load"
                  /\ running => \E c \in Calls : calls[c].job = "validate"
-----------------------------------------------------------------------------
(* What the code does not keep.                                            *)

(* "Publication: ... active snapshot emphasis" (the redesign plan): a      *)
(* publication made by a rollback is never shown as active.                *)
ActiveShownActive == page \in {"publications", "rollback"} /\ Shown = "content" =>
                       \A r \in rows : publications[r.id].active => r.status = "active"

(* The status and the tenant that are chosen filter the publications.      *)
PublicationsFiltered == page = "publications" /\ Shown = "content" =>
                          \A r \in rows : Obeys(r, filters, Fields)

(* "All bundles", once chosen, stays chosen: each refresh selects the      *)
(* first document again.                                                   *)
AllBundlesKept == [][ page = "publications" /\ fetched /\ selected = 0 /\ rows' # rows => selected' = 0 ]_vars

(* A run that reports no issue of its document did not fail: its status is *)
(* that of everything that was judged together.                            *)
RunStatusMatchesIssues == current.status = "fail" => current.issues

(* A run that was shown is not taken back: a list read before the run was  *)
(* stored can arrive after the run.                                        *)
RunNotTakenBack == [][ current # NoRun /\ selected' = selected => current' # NoRun ]_vars

(* The simulation shown is one of the selected document.                   *)
SimulationMatchesSelection == simulated # NoSimulation => simulated.doc = selected

(* The bundle on display as the candidate is the one that is simulated.    *)
CandidateSimulated == simulated # NoSimulation /\ simulated.doc = selected => simulated.bundle = SimulationBundle

(* The sample chosen is the sample simulated.                              *)
SampleSimulated == simulated # NoSimulation => simulated.api = simulated.event.api

(* The details of a snapshot say what its entry in the list says.          *)
DetailMatchesList == \A s \in rows : page = "rollback" /\ s.id = snapshot.id => s.status = snapshot.status

(* One confirmation, one rollback.                                         *)
RolledBackOnce == \A b, c \in Calls : b # c => ~(calls[b].job = "rollback" /\ calls[c].job = "rollback"
                                                 /\ calls[b].doc = calls[c].doc)

(* The memory page can leave its error card: without a tenant every Retry  *)
(* is refused, and the card hides the input.                               *)
MemoryBrowserRecoverable == page = "memories" => filters["tenant"] # ""

(* The page opens on tenant "all" and shows the memories of all tenants.   *)
MemoriesOfAllTenants == page = "memories" /\ filters["tenant"] = "all" /\ Shown = "content" =>
                          {r \in StartLog : r.status = "active" /\ Obeys(r, filters, {"scope", "status"})} \subseteq rows
=============================================================================
