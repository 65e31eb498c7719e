--------------------------- MODULE ConfigWorkspace ---------------------------
(***************************************************************************)
(* The page of the web console on which the documents of one kind are      *)
(* edited and released (ConfigWorkspace in workspace-sections.tsx).  Each  *)
(* press of a button starts a handler that awaits one request after        *)
(* another and then loads everything anew (refresh).  A handler works with *)
(* the state it saw when it was pressed; the page stays live while it      *)
(* waits, except while a refresh has set loading, so that handlers overlap *)
(* with typing, with each other, and with the colleagues whose consoles    *)
(* change the same documents.                                              *)
(*                                                                         *)
(* A document's name and definition are one member of Texts; its scope and *)
(* tenant are its family.  The page's inputs for scope and tenant are left *)
(* out: the server does not look at them when it stores an edit.  The page *)
(* is modelled from the moment it mounts; a change of kind mounts it anew. *)
(***************************************************************************)
EXTENDS Naturals, Sequences

CONSTANTS
    Kind,         \* the kind of document this page edits
    Families,     \* pairs of scope and tenant; the global one is 1
    Texts,
    Invalid,      \* the texts in which validation finds an error
    Role,         \* of the operator
    Handlers,     \* bound on the handlers under way together
    MaxPresses,   \* bound on the operations started, here and by colleagues
    StartDocs     \* the documents there may be when the page mounts

VARIABLES
    server,       \* the documents the server holds, by the order of creation
    allDocs,      \* the documents the page fetched last
    activeId,     \* the selected document, 0 for none
    sourceText,   \* what its inputs and its source editor hold
    gate,         \* the confirmation dialog that is open
    pendingDocumentId,
    error, loading,
    handler,      \* what each handler is doing
    presses       \* how many operations have been started

view == <<allDocs, activeId, sourceText>>
dialog == <<gate, pendingDocumentId>>
work == <<handler, presses>>
vars == <<server, view, dialog, error, loading, work>>

Kinds == {"api-ontology", "memory-ontology", "policy-profile"}
Global == 1
NoText == ""   \* what the source editor holds with nothing selected

ConfigDocument == [kind : Kinds, family : Families, version : Nat \ {0},
                   status : {"draft", "validated", "approved", "published", "archived"},
                   text : Texts]
Docs == Seq(ConfigDocument)

ASSUME WorkspaceAssumptions ==
    /\ Kind \in Kinds
    /\ Global \in Families /\ Families \subseteq Nat
    /\ Invalid \subseteq Texts
    /\ MaxPresses \in Nat
    /\ \E first \in Handlers : \A h \in Handlers : first <= h
    /\ StartDocs \subseteq Docs

NoBundle == [k \in Kinds |-> 0]

Idle == [job |-> "idle"]
(* op is the request the handler awaits and reply its answer; id is the    *)
(* document it works on, bundle the three it saw, text what it saves;      *)
(* prefer is the document its refresh selects, docs what the refresh read; *)
(* wrote is the document in which the server has stored text.              *)
Handler == [job : {"refresh", "save", "validate", "check", "approve", "archive",
                   "publish", "import", "starter"},
            op : {"save", "create", "import", "validate", "approve", "archive", "publish", "list"},
            reply : {"none", "ok", "failed"},
            id : Nat, text : Texts \cup {NoText}, bundle : [Kinds -> Nat],
            prefer : Nat, docs : Docs, wrote : Nat]

(* The workspace is well typed: a deviation here is a selection of nothing *)
(* that was fetched, or a handler that sends a request about nothing.      *)
TypeOK == /\ server \in Docs /\ presses \in 0..MaxPresses
          /\ allDocs \in Docs /\ Len(allDocs) <= Len(server)
          /\ activeId \in Nat
          /\ sourceText \in Texts \cup {NoText}
          /\ gate \in {"none", "publish", "archive", "discard", "reset"}
          /\ pendingDocumentId \in Nat
          /\ error \in BOOLEAN /\ loading \in BOOLEAN
          /\ handler \in [Handlers -> Handler \cup {Idle}]
          /\ \A h \in Handlers :
               /\ handler[h] # Idle /\ handler[h].op \in {"save", "validate", "approve", "archive"}
                    => handler[h].id \in DOMAIN server
               /\ handler[h] # Idle /\ handler[h].op = "publish"
                    => \A k \in Kinds : handler[h].bundle[k] \in DOMAIN server
-----------------------------------------------------------------------------
(* What the page computes from the documents it fetched.                   *)
OfKind(docs) == {d \in DOMAIN docs : docs[d].kind = Kind}

(* The order of toConfigDocuments: by family, newest version first.        *)
Before(docs, d, e) == \/ docs[d].family < docs[e].family
                      \/ /\ docs[d].family = docs[e].family
                         /\ \/ docs[d].version > docs[e].version
                            \/ docs[d].version = docs[e].version /\ d <= e

First(docs) == CHOOSE d \in OfKind(docs) : \A e \in OfKind(docs) : Before(docs, d, e)

Family(docs, kind, family) == {d \in DOMAIN docs : docs[d].kind = kind /\ docs[d].family = family}

(* Slip: the newest of the kind, whatever its family.                      *)
LatestOfKind(docs, kind, family) ==
    CHOOSE d \in DOMAIN docs : /\ docs[d].kind = kind
                              /\ \A e \in DOMAIN docs : docs[e].kind = kind =>
                                    \/ docs[e].version < docs[d].version
                                    \/ docs[e].version = docs[d].version /\ d >= e
Latest(docs, kind, family) == CHOOSE d \in Family(docs, kind, family) :
                                \A e \in Family(docs, kind, family) : Before(docs, d, e)

Active == IF activeId \in OfKind(allDocs) THEN activeId ELSE 0

(* The newest document of each kind in the family of the selected one,     *)
(* archived ones too, if there is one of each kind.                        *)
CurrentBundle ==
    IF Active = 0 \/ \E k \in Kinds : Family(allDocs, k, allDocs[Active].family) = {}
    THEN NoBundle
    ELSE [k \in Kinds |-> Latest(allDocs, k, allDocs[Active].family)]

BundleReadyToPublish ==
    /\ CurrentBundle # NoBundle
    /\ \A k \in Kinds : allDocs[CurrentBundle[k]].status \in {"approved", "published"}

HasUnsavedChanges == Active # 0 /\ sourceText # allDocs[Active].text

CanEdit == Role \in {"editor", "approver", "operator", "admin"}
CanApprove == Role \in {"approver", "admin"}
CanArchive == Role \in {"operator", "admin"}
CanPublish == Role \in {"approver", "admin"}

(* What the page renders below the dialogs.                                *)
Shown == IF error THEN "error"
         ELSE IF loading THEN "loading"
         ELSE IF Active = 0 THEN "empty"
         ELSE "editor"
Live(what) == Shown = what /\ gate = "none"

(* The effect that follows a change of the selection or of the documents.  *)
SourceOf(docs, id) == IF id \in OfKind(docs) THEN docs[id].text ELSE NoText

Select(docs, id) ==
    /\ allDocs' = docs
    /\ activeId' = id
    /\ sourceText' = SourceOf(docs, id)
-----------------------------------------------------------------------------
(* The server, as far as this page sees it: the documents after a request  *)
(* and the one it answers with.                                            *)
Create(docs, family, version, text) ==
    {[docs |-> Append(docs, [kind |-> Kind, family |-> family, version |-> version,
                             status |-> "draft", text |-> text]),
      id |-> Len(docs) + 1]}

NextVersion(docs, kind, family) ==
    IF Family(docs, kind, family) = {} THEN 1
    ELSE docs[Latest(docs, kind, family)].version + 1

(* save_document: a released revision gets a successor, a draft is         *)
(* replaced.  The scope and the tenant of the request are not looked at.   *)
Save(docs, id, text) ==
    IF docs[id].status = "archived" THEN {}
    ELSE IF docs[id].status \in {"approved", "published"}
    THEN {[docs |-> Append(docs, [docs[id] EXCEPT
                                     !.version = NextVersion(docs, docs[id].kind, docs[id].family),
                                     !.status = "draft", !.text = text]),
           id |-> Len(docs) + 1]}
    ELSE {[docs |-> [docs EXCEPT ![id].status = "draft", ![id].text = text], id |-> id]}

WithStatus(docs, ids, status) == [d \in DOMAIN docs |-> IF d \in ids THEN [docs[d] EXCEPT !.status = status]
                                                        ELSE docs[d]]

(* validate_documents: the documents without an error become validated.    *)
Validate(docs, id, bundle) ==
    LET named == IF bundle = NoBundle THEN {id} ELSE {id} \cup {bundle[k] : k \in Kinds \ {Kind}}
        passing == {d \in named : /\ docs[d].status \notin {"published", "archived"}
                                  /\ docs[d].text \notin Invalid}
    IN  {[docs |-> WithStatus(docs, passing, "validated"), id |-> id]}

Approve(docs, id) == IF docs[id].status # "validated" THEN {}
                     ELSE {[docs |-> WithStatus(docs, {id}, "approved"), id |-> id]}

Archive(docs, id) == {[docs |-> WithStatus(docs, {id}, "archived"), id |-> id]}

Publish(docs, bundle) ==
    LET ids == {bundle[k] : k \in Kinds}
    IN  IF \E d \in ids : docs[d].status \notin {"approved", "published"} THEN {}
        ELSE {[docs |-> WithStatus(docs, ids, "published"), id |-> bundle[Kind]]}

Outcomes(op, docs, id, text, bundle) ==
    CASE op = "save" -> Save(docs, id, text)
      [] op = "create" -> Create(docs, Global, 1, text)
      [] op = "import" -> Create(docs, Global, NextVersion(docs, Kind, Global), text)
      [] op = "validate" -> Validate(docs, id, bundle)
      [] op = "approve" -> Approve(docs, id)
      [] op = "archive" -> Archive(docs, id)
      [] op = "publish" -> Publish(docs, bundle)
      [] op = "list" -> {[docs |-> docs, id |-> id]}
-----------------------------------------------------------------------------
(* refresh: everything is loaded anew, and the document id selected.       *)
Refresh(id) == [job |-> "refresh", op |-> "list", reply |-> "none", id |-> 0, text |-> NoText,
                bundle |-> NoBundle, prefer |-> id, docs |-> <<>>, wrote |-> 0]

(* A handler starts with what the page shows at this moment.               *)
Started(job, op, id, text) ==
    [job |-> job, op |-> op, reply |-> "none", id |-> id, text |-> text,
     bundle |-> IF job \in {"validate", "check", "publish"} THEN CurrentBundle ELSE NoBundle,
     prefer |-> IF job \in {"save", "validate", "check", "starter"} THEN 0 ELSE activeId,
     docs |-> <<>>, wrote |-> 0]

Press == presses < MaxPresses /\ presses' = presses + 1

Start(h, job, op, id, text) ==
    /\ handler[h] = Idle /\ \A g \in Handlers : g < h => handler[g] # Idle
    /\ handler' = [handler EXCEPT ![h] = Started(job, op, id, text)]
    /\ Press

Init == /\ server \in StartDocs
        /\ allDocs = <<>> /\ activeId = 0 /\ sourceText = NoText
        /\ gate = "none" /\ pendingDocumentId = 0
        /\ error = FALSE /\ loading = TRUE
        /\ presses = 0
        /\ handler = [h \in Handlers |->
                        IF \A g \in Handlers : h <= g
                        THEN Refresh(0) ELSE Idle]

(* The Retry button of the error card.                                     *)
Retry(h) == /\ Live("error")
            /\ Start(h, "refresh", "list", 0, NoText)
            /\ error' = FALSE /\ loading' = TRUE
            /\ UNCHANGED <<server, view, dialog>>

(* Typing into the source editor, or a structured edit of an API package,  *)
(* which rewrites the source.                                              *)
EditSource(text) == /\ Live("editor") /\ text # sourceText
                    /\ sourceText' = text
                    /\ UNCHANGED <<server, allDocs, activeId, dialog, error, loading, work>>

(* persistDraft refuses what was typed, if it leaves no name or no valid   *)
(* JSON: the error card replaces the workspace.                            *)
RefuseDraft == /\ Live("editor") /\ CanEdit /\ HasUnsavedChanges
               /\ error' = TRUE
               /\ UNCHANGED <<server, view, dialog, loading, work>>

SaveDraft(h) == /\ Live("editor") /\ CanEdit
                /\ Start(h, "save", "save", activeId, sourceText)
                /\ UNCHANGED <<server, view, dialog, error, loading>>

(* Validate saves unsaved changes first.                                   *)
ValidateDraft(h) ==
    /\ Live("editor") /\ CanEdit
    /\ IF HasUnsavedChanges
       THEN Start(h, "validate", "save", activeId, sourceText)
       ELSE Start(h, "check", "validate", activeId, NoText)
    /\ UNCHANGED <<server, view, dialog, error, loading>>

ApproveDocument(h) == /\ Live("editor") /\ CanApprove /\ allDocs[activeId].status = "validated"
                      /\ Start(h, "approve", "approve", activeId, NoText)
                      /\ UNCHANGED <<server, view, dialog, error, loading>>

ImportDocument(h, text) == /\ Live("editor")  /\ CanEdit
                           /\ Start(h, "import", "import", 0, text)
                           /\ UNCHANGED <<server, view, dialog, error, loading>>

CreateStarterDraft(h, text) == /\ Live("empty") /\ CanEdit
                               /\ Start(h, "starter", "create", 0, text)
                               /\ UNCHANGED <<server, view, dialog, error, loading>>

(* Slip: unsaved changes are not asked about.                              *)
SwitchDocumentAtOnce(id) ==
    /\ Shown \in {"editor", "empty"} /\ gate = "none" /\ id \in OfKind(allDocs) /\ id # activeId
    /\ Select(allDocs, id)
    /\ UNCHANGED <<server, dialog, error, loading, work>>

SwitchDocument(id) ==
    /\ Shown \in {"editor", "empty"} /\ gate = "none" /\ id \in OfKind(allDocs) /\ id # activeId
    /\ IF HasUnsavedChanges
       THEN gate' = "discard" /\ pendingDocumentId' = id /\ UNCHANGED view
       ELSE Select(allDocs, id) /\ UNCHANGED dialog
    /\ UNCHANGED <<server, error, loading, work>>

(* The buttons that open the other dialogs.                                *)
AskFirst(what) ==
    /\ Live("editor")
    /\ \/ what = "publish" /\ CanPublish /\ BundleReadyToPublish
       \/ what = "archive" /\ CanArchive
       \/ what = "reset" /\ HasUnsavedChanges
    /\ gate' = what
    /\ UNCHANGED <<server, view, pendingDocumentId, error, loading, work>>

Cancel == /\ gate # "none"
          /\ gate' = "none" /\ pendingDocumentId' = 0
          /\ UNCHANGED <<server, view, error, loading, work>>

ConfirmDiscard == /\ gate = "discard"
                  /\ Select(allDocs, pendingDocumentId)
                  /\ gate' = "none" /\ pendingDocumentId' = 0
                  /\ UNCHANGED <<server, error, loading, work>>

(* The definition is taken from the editor's copy of the document.  What a *)
(* structured edit changed in that copy (PackageEditor), and the name,     *)
(* stay: any text can be the result.                                       *)
ConfirmReset == /\ gate = "reset"
                /\ sourceText' \in IF Active = 0 THEN {sourceText} ELSE Texts
                /\ gate' = "none"
                /\ UNCHANGED <<server, allDocs, activeId, pendingDocumentId, error, loading, work>>

(* These two dialogs stay open until the request is answered.              *)
ConfirmPublish(h) == /\ gate = "publish" /\ CurrentBundle # NoBundle
                     /\ Start(h, "publish", "publish", activeId, NoText)
                     /\ error' = FALSE
                     /\ UNCHANGED <<server, view, dialog, loading>>

ConfirmArchive(h) == /\ gate = "archive" /\ Active # 0
                     /\ Start(h, "archive", "archive", activeId, NoText)
                     /\ error' = FALSE
                     /\ UNCHANGED <<server, view, dialog, loading>>
-----------------------------------------------------------------------------
Waiting(h) == handler[h] # Idle /\ handler[h].reply = "none"

(* The server serves the request that a handler awaits.                    *)
Serve(h) ==
    /\ Waiting(h)
    /\ \E o \in Outcomes(handler[h].op, server, handler[h].id, handler[h].text, handler[h].bundle) :
         /\ server' = o.docs
         /\ handler' = [handler EXCEPT
                          ![h].reply = "ok", ![h].id = o.id,
                          ![h].docs = IF handler[h].op = "list" THEN server ELSE <<>>,
                          ![h].wrote = IF handler[h].op = "save" THEN o.id ELSE @]
    /\ UNCHANGED <<view, dialog, error, loading, presses>>

(* The request is refused or lost, or it is served and its answer lost.    *)
Fail(h) ==
    /\ handler[h] # Idle /\ handler[h].reply # "failed"
    /\ handler' = [handler EXCEPT ![h].reply = "failed", ![h].docs = <<>>]
    /\ UNCHANGED <<server, view, dialog, error, loading, presses>>

(* Another operator saves a document of this kind.                         *)
Colleague(id, text) ==
    /\ Press
    /\ \E o \in Save(server, id, text) : server' = o.docs
    /\ UNCHANGED <<view, dialog, error, loading, handler>>

(* A handler ends with a refresh, a validate that has saved comes back     *)
(* from it to check what it saved.                                         *)
Refreshing(h, id) == [handler EXCEPT ![h] =
                        IF @.job # "validate" THEN Refresh(id)
                        ELSE [@ EXCEPT !.op = "list", !.reply = "none", !.prefer = id, !.text = NoText]]
Ended(h) == [handler EXCEPT ![h] = Idle]

(* Slip: the validation names the document the operator was editing.       *)
CheckingShown(h) == [handler EXCEPT ![h].job = "check", ![h].op = "validate", ![h].reply = "none",
                                    ![h].docs = <<>>, ![h].id = activeId]

Checking(h) == [handler EXCEPT ![h].job = "check", ![h].op = "validate", ![h].reply = "none",
                               ![h].docs = <<>>]

(* A write was answered, or has failed.  Only persistDraft and validate    *)
(* catch a failure; elsewhere nothing tells the operator.                  *)
ReceiveWrite(h) ==
    /\ handler[h] # Idle /\ handler[h].op # "list"
    /\ LET job == handler[h].job
           prefer == IF job \in {"save", "validate", "check", "starter"} THEN handler[h].id
                     ELSE handler[h].prefer
       IN  \/ /\ handler[h].reply = "ok"
              /\ handler' = Refreshing(h, prefer)
              /\ gate' = IF job = gate THEN "none" ELSE gate
              /\ error' = FALSE /\ loading' = TRUE
           \/ /\ handler[h].reply = "failed"
              /\ handler' = Ended(h)
              /\ error' = (error \/ job \in {"save", "validate", "check"})
              /\ UNCHANGED <<gate, loading>>
    /\ UNCHANGED <<server, view, pendingDocumentId, presses>>

(* Slip: only a successful load ends the loading.                          *)
LoadingAfterGood(h) == handler[h].reply = "failed"
LoadingAfter(h) == FALSE

(* The refresh of a handler ends.  A validate that has saved goes on, even *)
(* if its refresh failed.                                                  *)
ReceiveList(h) ==
    /\ handler[h] # Idle /\ handler[h].op = "list" /\ handler[h].reply # "none"
    /\ LET docs == handler[h].docs
       IN  IF handler[h].reply = "ok"
           THEN /\ Select(docs, IF handler[h].prefer \in OfKind(docs) THEN handler[h].prefer
                                ELSE IF OfKind(docs) = {} THEN 0 ELSE First(docs))
                /\ error' = error
           ELSE error' = TRUE /\ UNCHANGED view
    /\ loading' = LoadingAfter(h)
    /\ handler' = IF handler[h].job = "validate" THEN Checking(h) ELSE Ended(h)
    /\ UNCHANGED <<server, dialog, presses>>

Receive(h) == ReceiveWrite(h) \/ ReceiveList(h)

Operate(h) == \/ Retry(h) \/ SaveDraft(h) \/ ValidateDraft(h) \/ ApproveDocument(h)
              \/ ConfirmPublish(h) \/ ConfirmArchive(h)
              \/ \E text \in Texts : ImportDocument(h, text) \/ CreateStarterDraft(h, text)

Next == \/ \E h \in Handlers : Operate(h) \/ Serve(h) \/ Fail(h) \/ Receive(h)
        \/ \E text \in Texts : EditSource(text)
        \/ RefuseDraft
        \/ \E id \in DOMAIN allDocs : SwitchDocument(id)
        \/ \E what \in {"publish", "archive", "reset"} : AskFirst(what)
        \/ Cancel \/ ConfirmDiscard \/ ConfirmReset
        \/ \E id \in OfKind(server), text \in Texts : Colleague(id, text)

Spec == Init /\ [][Next]_vars
-----------------------------------------------------------------------------
(* A bundle that is validated or published consists of three documents of  *)
(* one scope and tenant, one of each kind, though the bundle was taken     *)
(* from the page when the button was pressed and the document of this      *)
(* page's kind may have been created since by the save before it.          *)
RequestsOneFamily ==
    \A h \in Handlers :
      handler[h] # Idle /\ handler[h].op \in {"validate", "publish"} /\ handler[h].bundle # NoBundle =>
        \A k \in Kinds : LET d == IF k = Kind /\ handler[h].op = "validate"
                                  THEN handler[h].id ELSE handler[h].bundle[k]
                         IN  server[d].kind = k /\ server[d].family = server[handler[h].id].family

(* Validate, pressed with unsaved changes, validates the document in which *)
(* the server stored them, a new revision if the shown one was released;   *)
(* also if the refresh in between failed or another handler has moved the  *)
(* selection.                                                              *)
ValidatesTheSaved ==
    \A h \in Handlers :
      handler[h] # Idle /\ handler[h].op = "validate" /\ handler[h].wrote # 0 =>
        handler[h].id = handler[h].wrote

(* With unsaved changes, the page moves to another document only through   *)
(* the dialog that asks about them, or because a refresh was answered.     *)
UnsavedAskedAbout ==
    [][ HasUnsavedChanges /\ activeId' # activeId =>
          \/ gate = "discard"
          \/ \E h \in Handlers : handler[h] # Idle /\ handler[h].op = "list" /\ handler'[h] # handler[h]
      ]_vars

(* While the card that says the documents are loading hides the workspace, *)
(* a refresh is awaited that will take it away: it is never left standing, *)
(* whatever fails and however the refreshes of several handlers overlap.   *)
LoadingAwaited == loading => \E h \in Handlers : handler[h] # Idle /\ handler[h].op = "list"
-----------------------------------------------------------------------------
(* What the code does not keep.                                            *)

(* What was typed is lost only where the operator gives it up.  A refused  *)
(* save shows the error card, which only Retry leaves, and Retry loads     *)
(* anew; what is typed while a save is awaited goes the same way.          *)
RefusalKeepsDraft ==
    [][ HasUnsavedChanges /\ sourceText' # sourceText =>
          ~ \E h \in Handlers : handler[h] # Idle /\ handler[h].op = "list" /\ handler'[h] # handler[h] ]_vars

(* What is published is the document selected, which the dialog names; the *)
(* bundle takes the newest of its family instead.                          *)
PublishesWhatIsShown ==
    \A h \in Handlers : handler[h] # Idle /\ handler[h].op = "publish" => handler[h].id = handler[h].bundle[Kind]

(* With documents to show, the page shows one: the dialog that asks about  *)
(* unsaved changes can lead to a document a refresh has since left out.    *)
EditorShown == OfKind(allDocs) # {} => Active # 0
=============================================================================
