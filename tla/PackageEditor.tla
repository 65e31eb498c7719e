---------------------------- MODULE PackageEditor ----------------------------
(***************************************************************************)
(* The structured editor of an API ontology package in the web console     *)
(* (ApiOntologyPackageEditor in workspace-sections.tsx, with               *)
(* lib/config-editor.ts).  It keeps no package: after the first structured *)
(* edit the source is JSON, and what the editor shows is that source,      *)
(* parsed; every edit copies what is shown, changes the copy and makes it  *)
(* the new source.  The parser drops whatever lacks a mandatory field, so  *)
(* what an edit leaves incomplete is neither shown nor part of the next    *)
(* edit.  Names are given with every keystroke, hence also half typed.     *)
(*                                                                         *)
(* A name is a text and the numbers by which the editor's default names    *)
(* extend it: module_2.entry_1 is "module" with <<2, 1>>.                  *)
(* Of an entry only its id, its module_key and whether its API has a name  *)
(* matter here; its other fields are free.  The module_key an entry states *)
(* need not be that of the module it is in: the parser keeps it, and gives *)
(* the module's to an entry that states none, which is so from the start   *)
(* here.  A package from before modules, a bare list of entries, is left   *)
(* out.                                                                    *)
(***************************************************************************)
EXTENDS Naturals, Sequences

CONSTANTS
    Texts,          \* what names are made of
    Typed,          \* the names an operator types
    StartPackages,  \* packages that are complete, and that are typed by hand
    MaxEdits        \* bound on the edits

VARIABLES
    saved,     \* the package of the document as the server has it
    editor,    \* the package in the editor's copy of the document
    source,    \* the package in the source text
    selected,  \* the selected module, entry and workflow
    edits

editorVars == <<saved, editor, source, selected, edits>>

Name == [text : Texts, numbers : Seq(Nat)]
Plain(text) == [text |-> text, numbers |-> <<>>]
Numbered(name, n) == [name EXCEPT !.numbers = Append(@, n)]
NoName == Plain("")

APIOntologyEntry == [entry_id : Name, module_key : Name, api_named : BOOLEAN]
APIOntologyModule == [module_key : Name, entries : Seq(APIOntologyEntry)]
APIOntologyWorkflowEdge == [from_entry_id : Name, to_entry_id : Name]
APIOntologyIntentRule == [observed_entry_ids : Seq(Name), summarized : BOOLEAN]
APIOntologyWorkflowDefinition ==
    [workflow_key : Name, participant_entry_ids : Seq(Name),
     relationship_edges : Seq(APIOntologyWorkflowEdge), intent_rules : Seq(APIOntologyIntentRule)]
APIOntologyPackage == [modules : Seq(APIOntologyModule), workflows : Seq(APIOntologyWorkflowDefinition)]

ASSUME EditorAssumptions == /\ MaxEdits \in Nat
                            /\ {"", "module", "workflow"} \subseteq Texts
                            /\ NoName \in Typed /\ Typed \subseteq Name
                            /\ StartPackages \subseteq APIOntologyPackage
-----------------------------------------------------------------------------
(* What is left of s when it is filtered down to the places in I.          *)
Kept(s, I) ==
    LET kept[n \in 0..Len(s)] ==
          IF n = 0 THEN <<>>
          ELSE IF n \in I THEN Append(kept[n - 1], s[n]) ELSE kept[n - 1]
    IN  IF DOMAIN s \subseteq I THEN s ELSE kept[Len(s)]

(* parseApiOntologyPackage                                                 *)
ParseApiModule(module) ==
    [module EXCEPT !.entries = Kept(@, {i \in DOMAIN @ : @[i].api_named})]

ParseWorkflowEdge(edge) == edge.from_entry_id # NoName /\ edge.to_entry_id # NoName
ParseIntentRule(rule) == rule.observed_entry_ids # <<>> /\ rule.summarized

ParseWorkflow(workflow) ==
    [workflow EXCEPT !.relationship_edges = Kept(@, {i \in DOMAIN @ : ParseWorkflowEdge(@[i])}),
                     !.intent_rules = Kept(@, {i \in DOMAIN @ : ParseIntentRule(@[i])})]

ParseApiOntologyPackage(package) ==
    LET modules == Kept(package.modules,
                        {i \in DOMAIN package.modules : package.modules[i].module_key # NoName})
        workflows == Kept(package.workflows,
                          {i \in DOMAIN package.workflows : package.workflows[i].workflow_key # NoName})
    IN  [modules |-> [i \in DOMAIN modules |-> ParseApiModule(modules[i])],
         workflows |-> [i \in DOMAIN workflows |-> ParseWorkflow(workflows[i])]]

(* What the editor shows and edits.                                        *)
Draft == ParseApiOntologyPackage(source)

Lowest(S) == CHOOSE i \in S : \A j \in S : i <= j

(* What the selection stands for in a package: the first that has the      *)
(* selected name, or the first of all; 0 if there is none.                 *)
Pick(named, all) == IF named # {} THEN Lowest(named) ELSE IF all # <<>> THEN 1 ELSE 0
ModuleIn(p, sel) == Pick({i \in DOMAIN p.modules : p.modules[i].module_key = sel.module}, p.modules)
EntryIn(p, sel) ==
    IF ModuleIn(p, sel) = 0 THEN 0
    ELSE LET entries == p.modules[ModuleIn(p, sel)].entries
         IN  Pick({i \in DOMAIN entries : entries[i].entry_id = sel.entry}, entries)
WorkflowIn(p, sel) ==
    Pick({i \in DOMAIN p.workflows : p.workflows[i].workflow_key = sel.workflow}, p.workflows)

CurrentModule == ModuleIn(Draft, selected)
CurrentEntry == EntryIn(Draft, selected)
CurrentWorkflow == WorkflowIn(Draft, selected)

FirstEntryOf(p) == IF p.modules # <<>> /\ p.modules[1].entries # <<>>
                   THEN p.modules[1].entries[1].entry_id ELSE NoName

(* Slip: the effect does not look at the entry.                            *)
SettledButEntry(p, sel) ==
    [module |-> IF ModuleIn(p, sel) = 0 THEN NoName ELSE p.modules[ModuleIn(p, sel)].module_key,
     entry |-> sel.entry,
     workflow |-> IF WorkflowIn(p, sel) = 0 THEN NoName ELSE p.workflows[WorkflowIn(p, sel)].workflow_key]

(* The effect that follows every change moves the selection to what is     *)
(* shown.  A module without entries leaves the first entry of all selected.*)
Settled(p, sel) ==
    LET m == ModuleIn(p, sel)
        e == EntryIn(p, sel)
        w == WorkflowIn(p, sel)
    IN  [module |-> IF m = 0 THEN NoName ELSE p.modules[m].module_key,
         entry |-> IF e = 0 THEN FirstEntryOf(p) ELSE p.modules[m].entries[e].entry_id,
         workflow |-> IF w = 0 THEN NoName ELSE p.workflows[w].workflow_key]

Nothing == [module |-> NoName, entry |-> NoName, workflow |-> NoName]

(* Packages stay packages, and the selection one of three names.           *)
EditorTypeOK ==
    /\ saved \in APIOntologyPackage
    /\ editor \in APIOntologyPackage
    /\ source \in APIOntologyPackage
    /\ selected \in [module : Name, entry : Name, workflow : Name]
    /\ edits \in 0..MaxEdits

EditorInit ==
    /\ saved \in StartPackages
    /\ editor = saved /\ source = saved
    /\ selected = Settled(Draft, Nothing)
    /\ edits = 0
-----------------------------------------------------------------------------
(* updatePackage and applyApiPackageDraft: the package becomes the source  *)
(* and the editor's copy; sel is what the edit selects.                    *)
Change == edits < MaxEdits /\ edits' = edits + 1 /\ UNCHANGED saved

UpdatePackage(package, sel) ==
    /\ Change
    /\ source' = package /\ editor' = package
    /\ selected' = Settled(ParseApiOntologyPackage(package), sel)

DefaultApiEntry(key, n) == [entry_id |-> Numbered(key, n), module_key |-> key, api_named |-> FALSE]
DefaultApiModule(n) == LET key == Numbered(Plain("module"), n)
                       IN  [module_key |-> key, entries |-> <<DefaultApiEntry(key, 1)>>]
DefaultWorkflow(n) == [workflow_key |-> Numbered(Plain("workflow"), n),
                       participant_entry_ids |-> IF FirstEntryOf(Draft) = NoName THEN <<>>
                                                 ELSE <<FirstEntryOf(Draft)>>,
                       relationship_edges |-> <<>>, intent_rules |-> <<>>]

Without(ids, gone) == Kept(ids, {i \in DOMAIN ids : ids[i] \notin gone})

(* Slip: only the participants are cleaned.                                *)
RemoveParticipant(workflow, gone) ==
    [workflow EXCEPT !.participant_entry_ids = Without(@, gone)]

EdgesWithout(edges, gone) ==
    Kept(edges, {i \in DOMAIN edges : /\ edges[i].from_entry_id \notin gone
                                      /\ edges[i].to_entry_id \notin gone})
RulesWithout(rules, gone) ==
    LET cut == [i \in DOMAIN rules |-> [rules[i] EXCEPT !.observed_entry_ids = Without(@, gone)]]
    IN  Kept(cut, {i \in DOMAIN cut : cut[i].observed_entry_ids # <<>>})

(* Of several entries at once: no rule is without entries before.          *)
RemoveEntryReferences(workflow, gone) ==
    [workflow EXCEPT !.participant_entry_ids = Without(@, gone),
                     !.relationship_edges = EdgesWithout(@, gone),
                     !.intent_rules = RulesWithout(@, gone)]

Cleaned(workflows, gone) == [i \in DOMAIN workflows |-> RemoveEntryReferences(workflows[i], gone)]

Renamed(id, from, to) == IF id = from THEN to ELSE id
RenamedAll(ids, from, to) == [i \in DOMAIN ids |-> Renamed(ids[i], from, to)]
EdgesRenamed(edges, from, to) ==
    [i \in DOMAIN edges |-> [from_entry_id |-> Renamed(edges[i].from_entry_id, from, to),
                             to_entry_id |-> Renamed(edges[i].to_entry_id, from, to)]]
RulesRenamed(rules, from, to) ==
    [i \in DOMAIN rules |-> [rules[i] EXCEPT !.observed_entry_ids = RenamedAll(@, from, to)]]

(* Slip: only the participants follow.                                     *)
ReplaceParticipant(workflow, from, to) ==
    [workflow EXCEPT !.participant_entry_ids = RenamedAll(@, from, to)]

ReplaceEntryId(workflow, from, to) ==
    [workflow EXCEPT !.participant_entry_ids = RenamedAll(@, from, to),
                     !.relationship_edges = EdgesRenamed(@, from, to),
                     !.intent_rules = RulesRenamed(@, from, to)]
-----------------------------------------------------------------------------
AddModule ==
    LET module == DefaultApiModule(Len(Draft.modules) + 1)
    IN  UpdatePackage([Draft EXCEPT !.modules = Append(@, module)],
                      [selected EXCEPT !.module = module.module_key,
                                       !.entry = module.entries[1].entry_id])

RemoveModule ==
    /\ CurrentModule # 0
    /\ LET modules == Draft.modules
           removed == modules[CurrentModule]
           rest == Kept(modules, {i \in DOMAIN modules : modules[i].module_key # removed.module_key})
           gone == {removed.entries[j].entry_id : j \in DOMAIN removed.entries}
           package == [modules |-> rest, workflows |-> Cleaned(Draft.workflows, gone)]
       IN  UpdatePackage(package, [selected EXCEPT
                                     !.module = IF rest = <<>> THEN NoName ELSE rest[1].module_key,
                                     !.entry = FirstEntryOf(package)])

(* What an edit of the selected module, or of its selected entry, makes of *)
(* the package.                                                            *)
ShownModule == Draft.modules[CurrentModule]
WithModule(module) == [Draft EXCEPT !.modules[CurrentModule] = module]
WithEntries(entries) == WithModule([ShownModule EXCEPT !.entries = entries])

ShownEntry == ShownModule.entries[CurrentEntry]
WithEntry(entry) == WithEntries([ShownModule.entries EXCEPT ![CurrentEntry] = entry])

AddEntry ==
    /\ CurrentModule # 0
    /\ LET entry == DefaultApiEntry(ShownModule.module_key, Len(ShownModule.entries) + 1)
       IN  UpdatePackage(WithEntries(Append(ShownModule.entries, entry)),
                         [selected EXCEPT !.module = ShownModule.module_key,
                                          !.entry = entry.entry_id])

RemoveEntry ==
    /\ CurrentEntry # 0
    /\ LET entries == ShownModule.entries
           id == ShownEntry.entry_id
           left == Kept(entries, {j \in DOMAIN entries : entries[j].entry_id # id})
           package == [WithEntries(left) EXCEPT !.workflows = Cleaned(@, {id})]
           fallback == IF left # <<>> THEN left ELSE package.modules[1].entries
       IN  UpdatePackage(package,
                         [selected EXCEPT
                            !.entry = IF fallback = <<>> THEN NoName ELSE fallback[1].entry_id,
                            !.module = IF fallback = <<>> THEN package.modules[1].module_key
                                       ELSE fallback[1].module_key])

AddWorkflow ==
    LET workflow == DefaultWorkflow(Len(Draft.workflows) + 1)
    IN  UpdatePackage([Draft EXCEPT !.workflows = Append(@, workflow)],
                      [selected EXCEPT !.workflow = workflow.workflow_key])

RemoveWorkflow ==
    /\ CurrentWorkflow # 0
    /\ LET workflows == Draft.workflows
           key == workflows[CurrentWorkflow].workflow_key
           rest == Kept(workflows, {i \in DOMAIN workflows : workflows[i].workflow_key # key})
       IN  UpdatePackage([Draft EXCEPT !.workflows = rest],
                         [selected EXCEPT !.workflow = IF rest = <<>> THEN NoName
                                                       ELSE rest[1].workflow_key])

UpdateModuleKey(key) ==
    /\ CurrentModule # 0
    /\ LET entries == ShownModule.entries
           renamed == [j \in DOMAIN entries |-> [entries[j] EXCEPT !.module_key = key]]
       IN  UpdatePackage(WithModule([module_key |-> key, entries |-> renamed]),
                         [selected EXCEPT !.module = key])

UpdateEntryId(id) ==
    /\ CurrentEntry # 0
    /\ LET from == ShownEntry.entry_id
       IN  UpdatePackage([WithEntry([ShownEntry EXCEPT !.entry_id = id]) EXCEPT
                            !.workflows = [i \in DOMAIN @ |-> ReplaceEntryId(@[i], from, id)]],
                         [selected EXCEPT !.entry = id])

(* The API name is emptied; or any other input of the entry, of the module *)
(* or of the workflow changes.                                             *)
ClearApiName ==
    /\ CurrentEntry # 0
    /\ UpdatePackage(WithEntry([ShownEntry EXCEPT !.api_named = FALSE]), selected)
UpdateOtherField == CurrentModule # 0 /\ UpdatePackage(Draft, selected)

UpdateWorkflow(workflow) ==
    UpdatePackage([Draft EXCEPT !.workflows[CurrentWorkflow] = workflow],
                  [selected EXCEPT !.workflow = workflow.workflow_key])

(* The ids of all entries.                                                 *)
AvailableEntryIds(p) == UNION {{p.modules[i].entries[j].entry_id : j \in DOMAIN p.modules[i].entries} :
                               i \in DOMAIN p.modules}
At(ids, n) == IF n \in DOMAIN ids THEN ids[n] ELSE NoName

(* One element is added to a list, changed or removed.                     *)
Edited(list, fresh, changes) ==
    {Append(list, x) : x \in fresh}
    \cup (UNION {{[list EXCEPT ![i] = x] : x \in changes[i]} : i \in DOMAIN list})
    \cup {Kept(list, DOMAIN list \ {i}) : i \in DOMAIN list}

EditedEdges(edges, ids, ends) ==
    Edited(edges,
           {[from_entry_id |-> At(ids, 1),
             to_entry_id |-> IF At(ids, 2) # NoName THEN At(ids, 2) ELSE At(ids, 1)]},
           [i \in DOMAIN edges |-> {[edges[i] EXCEPT !.from_entry_id = id] : id \in ends}
                                   \cup {[edges[i] EXCEPT !.to_entry_id = id] : id \in ends}])

EditedRules(rules, ids, typed) ==
    Edited(rules,
           {[observed_entry_ids |-> IF ids = <<>> THEN <<>> ELSE <<ids[1]>>, summarized |-> summarized] :
            summarized \in BOOLEAN},
           [i \in DOMAIN rules |-> {[rules[i] EXCEPT !.observed_entry_ids = t] : t \in typed}
                                   \cup {[rules[i] EXCEPT !.summarized = FALSE]}])

(* Participants and the entries of a rule are typed, the ends of an edge   *)
(* are chosen from a list.                                                 *)
EditWorkflow ==
    /\ CurrentWorkflow # 0
    /\ LET workflow == Draft.workflows[CurrentWorkflow]
           ids == workflow.participant_entry_ids
           offered == AvailableEntryIds(Draft)
           typed == {<<>>} \cup {<<id>> : id \in (offered \cup Typed) \ {NoName}}
           edges == EditedEdges(workflow.relationship_edges, ids, offered \cup {NoName})
           rules == EditedRules(workflow.intent_rules, ids, typed)
       IN  \/ \E key \in Typed : UpdateWorkflow([workflow EXCEPT !.workflow_key = key])
           \/ \E t \in typed : UpdateWorkflow([workflow EXCEPT !.participant_entry_ids = t])
           \/ \E list \in edges : UpdateWorkflow([workflow EXCEPT !.relationship_edges = list])
           \/ \E list \in rules : UpdateWorkflow([workflow EXCEPT !.intent_rules = list])

(* The three lists.                                                        *)
SelectModule(i) == LET module == Draft.modules[i]
                   IN  selected' = Settled(Draft, [selected EXCEPT
                                     !.module = module.module_key,
                                     !.entry = IF module.entries = <<>> THEN NoName
                                               ELSE module.entries[1].entry_id])
SelectEntry(j) == selected' = Settled(Draft, [selected EXCEPT
                                !.entry = Draft.modules[CurrentModule].entries[j].entry_id])
SelectWorkflow(i) == selected' = Settled(Draft, [selected EXCEPT
                                   !.workflow = Draft.workflows[i].workflow_key])

SelectAnother ==
    /\ \/ \E i \in DOMAIN Draft.modules : SelectModule(i)
       \/ CurrentModule # 0 /\ \E j \in DOMAIN Draft.modules[CurrentModule].entries : SelectEntry(j)
       \/ \E i \in DOMAIN Draft.workflows : SelectWorkflow(i)
    /\ UNCHANGED <<saved, editor, source, edits>>

(* Around the editor: the source is saved and loaded again, behind a       *)
(* loading card that unmounts the editor, so that its selection starts     *)
(* over; it is typed by hand, or reset, which takes the editor's copy of   *)
(* the document for the saved one.                                         *)
SaveDraft == /\ saved' = source /\ editor' = source
             /\ selected' = Settled(Draft, Nothing)
             /\ UNCHANGED <<source, edits>>

TypeSource(package) == /\ Change
                       /\ source' = package
                       /\ selected' = Settled(ParseApiOntologyPackage(package), selected)
                       /\ UNCHANGED editor

ResetSource == /\ source # saved
               /\ source' = editor
               /\ selected' = Settled(ParseApiOntologyPackage(editor), selected)
               /\ UNCHANGED <<saved, editor, edits>>

(* The edits that say nothing of what a workflow refers to.                *)
EditAround ==
    \/ AddModule \/ RemoveModule \/ AddEntry \/ RemoveEntry
    \/ AddWorkflow \/ RemoveWorkflow
    \/ \E name \in Typed : UpdateModuleKey(name) \/ UpdateEntryId(name)
    \/ ClearApiName \/ UpdateOtherField

EditorNext ==
        \/ EditAround \/ EditWorkflow \/ SelectAnother
        \/ SaveDraft \/ ResetSource
        \/ \E package \in StartPackages : TypeSource(package)

EditorSpec == EditorInit /\ [][EditorNext]_editorVars
-----------------------------------------------------------------------------
References(workflow) ==
    {workflow.participant_entry_ids[i] : i \in DOMAIN workflow.participant_entry_ids}
    \cup (UNION {{e.from_entry_id, e.to_entry_id} :
                 e \in {workflow.relationship_edges[i] : i \in DOMAIN workflow.relationship_edges}})
    \cup (UNION {{r.observed_entry_ids[j] : j \in DOMAIN r.observed_entry_ids} :
                 r \in {workflow.intent_rules[i] : i \in DOMAIN workflow.intent_rules}})

AllReferences(p) == UNION {References(p.workflows[i]) : i \in DOMAIN p.workflows}
Dangling(p) == AllReferences(p) \ AvailableEntryIds(p)

(* The inputs of the editor are those of something that is shown: what is  *)
(* selected is among what the draft contains, or nothing is left to select,*)
(* whatever was removed, renamed, emptied, typed or reset.                 *)
SelectionShown ==
    /\ IF Draft.modules = <<>> THEN selected.module = NoName
       ELSE \E i \in DOMAIN Draft.modules : Draft.modules[i].module_key = selected.module
    /\ selected.entry # NoName => selected.entry \in AvailableEntryIds(Draft)
    /\ IF Draft.workflows = <<>> THEN selected.workflow = NoName
       ELSE \E i \in DOMAIN Draft.workflows : Draft.workflows[i].workflow_key = selected.workflow

(* Removing an entry, or a module with its entries, leaves no workflow     *)
(* that refers to them, neither as a participant nor in an edge or a rule. *)
RemovalCleans ==
    [][ /\ RemoveEntry => ShownEntry.entry_id \notin AllReferences(source')
        /\ RemoveModule => \A j \in DOMAIN ShownModule.entries :
                             ShownModule.entries[j].entry_id \notin AllReferences(source') ]_editorVars

(* No two modules have the same key.                                       *)
KeysDistinct(p) == \A i, k \in DOMAIN p.modules :
                     p.modules[i].module_key = p.modules[k].module_key => i = k

(* No edit of modules or entries, and no new workflow, leaves a workflow   *)
(* with a reference to an entry that is not there, unless it was dangling  *)
(* before: removals and renamings reach every workflow and all three       *)
(* places in it, also across modules and for entries that share an id.     *)
(* Where two modules share a key this is not so (DoublesRemoved).          *)
NothingNewDangles ==
    [][ \/ Dangling(source') \subseteq Dangling(Draft)
        \/ ~EditAround
        \/ ~KeysDistinct(Draft) ]_editorVars
-----------------------------------------------------------------------------
(* What the code does not keep.                                            *)

(* Removing one of two modules that share a key removes both, and leaves   *)
(* no reference to the entries of either.                                  *)
DoublesRemoved == [][RemoveModule => Dangling(source') \subseteq Dangling(Draft)]_editorVars

(* What the parser lets through has its references intact.                 *)
ParsedIntact == [][ClearApiName => Dangling(Draft') \subseteq Dangling(Draft)]_editorVars

(* An entry or a module that is added can be seen and edited.              *)
AddedShown == [][ /\ AddEntry => \E id \in AvailableEntryIds(Draft') : id \notin AvailableEntryIds(Draft)
                  /\ AddModule => Len(Draft'.modules) > Len(Draft.modules) ]_editorVars

(* Emptying a name, on the way to another one, keeps what it names.        *)
EmptyingKeeps == [][ClearApiName => Len(Draft'.modules[CurrentModule].entries) =
                                    Len(Draft.modules[CurrentModule].entries)]_editorVars

(* The editor itself brings in no second module or workflow of one name.   *)
KeysUnique == [][ AddModule =>
                    \A i \in DOMAIN Draft.modules :
                      Draft.modules[i].module_key # source'.modules[Len(source'.modules)].module_key ]_editorVars

(* Renaming an entry takes along only the references to this entry.        *)
RenameKeepsOthers ==
    [][ \A i \in DOMAIN Draft.modules :
          i # CurrentModule /\ (\E name \in Typed : UpdateEntryId(name)) =>
            Dangling(source') \cap AvailableEntryIds(Draft) = {}
            /\ \A j \in DOMAIN Draft.modules[i].entries :
                 Draft.modules[i].entries[j].entry_id \in AllReferences(Draft) =>
                   Draft.modules[i].entries[j].entry_id \in AllReferences(source') ]_editorVars

(* The reset dialog promises the last saved document body.                 *)
ResetRestoresSaved == [][ResetSource => source' = saved]_editorVars
=============================================================================
