---------------------------- MODULE AssetRegister -----------------------------
(***************************************************************************)
(* fms-asset: how assets come, change and go.  POST and the bulk import test    *)
(* the attributes of a row against the tenant's definitions, in the program and  *)
(* only then; PATCH does not.  An import reads the definitions once, inserts      *)
(* row by row in savepoints and commits all that succeeded, or, as a dry run,     *)
(* nothing.  A deletion counts what still needs the asset and marks the row in a  *)
(* later statement, with no lock in between: the foreign keys of children and     *)
(* work orders do not look at deleted_at.                                   *)
(***************************************************************************)
EXTENDS Naturals, Sequences, FiniteSets

CONSTANTS
  AssetIds, NoAsset,
  Categories,      \* codes of fms.asset_categories
  AllCategories,   \* applies_to_type of a definition that is for every category
  Definitions,     \* bound: the definitions that administrators create
  AssetForms,      \* bound: the bodies of POST and the rows of imports
  AssetChanges,    \* bound: the bodies of PATCH
  AssetFiles,      \* bound: the files of imports, sequences of forms
  OpenOrders,      \* work orders
  RegisterTasks,   \* server tasks
  MaxHandled       \* bound: requests and lost connections

ASSUME RegisterAssumption ==
  /\ NoAsset \notin AssetIds /\ AssetIds \cap OpenOrders = {}
  /\ AssetFiles \subseteq Seq(AssetForms)
  /\ MaxHandled \in Nat
  /\ AssetIds \cap {"attributes", "category", "code", "error"} = {}

VARIABLES
  register,    \* register[a]: the committed row of fms.assets
  definition,  \* the active definitions for assets
  placed,      \* placed[o]: the asset of an open work order
  handling,    \* handling[t]: the request a task works on
  late,        \* history: <<x, a>>: x was put under a when a was going or gone
  handled      \* requests and lost connections so far

registerVars == <<register, definition, placed, handling, late, handled>>

NoEntry ==
  [state |-> "none", code |-> "", category |-> "", parent |-> NoAsset, attrs |-> <<>>, known |-> {}]
Resting == [step |-> "idle"]

RegisterTypeOK ==
  /\ DOMAIN register = AssetIds
  /\ \A a \in AssetIds :
       /\ register[a].state \in {"none", "live", "deleted"}
       /\ register[a].parent \in AssetIds \cup {NoAsset}
       /\ register[a].known \subseteq Definitions
  /\ definition \subseteq Definitions
  /\ placed \in [OpenOrders -> AssetIds \cup {NoAsset}]
  /\ DOMAIN handling = RegisterTasks
  /\ \A t \in RegisterTasks :
       handling[t].step \in {"idle", "validate", "insert", "import", "delete"}
  /\ late \subseteq (AssetIds \cup OpenOrders) \X AssetIds
  /\ handled \in 0..MaxHandled

RegisterInit ==
  /\ register = [a \in AssetIds |-> NoEntry]
  /\ definition = {} /\ late = {}
  /\ placed = [o \in OpenOrders |-> NoAsset]
  /\ handling = [t \in RegisterTasks |-> Resting]
  /\ handled = 0

-----------------------------------------------------------------------------
Handle == handled < MaxHandled /\ handled' = handled + 1
Start(t, new) == handling[t] = Resting /\ Handle /\ handling' = [handling EXCEPT ![t] = new]
Go(t, new) == handling' = [handling EXCEPT ![t] = new] /\ UNCHANGED handled

(* A value must be what the definition of its key accepts; some must be there.   *)
(* Whichever category a definition is for, every asset is held against it.      *)
Violates(attrs, d) ==
  IF d.key \in DOMAIN attrs THEN attrs[d.key] \notin d.accepts ELSE d.required
Conforms(attrs, ds) == \A d \in ds : ~Violates(attrs, d)

(* The codes of live rows are unique; of two open transactions that want one,     *)
(* the second waits for the first.                                          *)
LiveAsset(a) == register[a].state = "live"
CodeUsed(a, c) == \E b \in AssetIds \ {a} : LiveAsset(b) /\ register[b].code = c
Importing(t) == IF handling[t].step = "import" THEN handling[t].rows ELSE <<>>
CodeOpen(t, c) == \E u \in RegisterTasks \ {t} : \E a \in DOMAIN Importing(u) : Importing(u)[a].code = c
FreshIds == {a \in AssetIds : register[a] = NoEntry /\ \A t \in RegisterTasks : a \notin DOMAIN Importing(t)}

Entry(form, parent, known) ==
  [state |-> "live", code |-> form.code, category |-> form.category, parent |-> parent,
   attrs |-> form.attrs, known |-> known]

(* History: x comes under a.                                                 *)
Going(a) == \E t \in RegisterTasks : handling[t].step = "delete" /\ handling[t].asset = a
Late(x, a) ==
  IF a # NoAsset /\ (register[a].state = "deleted" \/ Going(a)) THEN {<<x, a>>} ELSE {}
Leaves(x) == {p \in late : p[1] # x}

-----------------------------------------------------------------------------
(* POST /attribute-definitions: one per key and category.                      *)
CreateDefinition(d) ==
  /\ Handle
  /\ \A e \in definition : e.key # d.key \/ e.only # d.only
  /\ definition' = definition \cup {d}
  /\ UNCHANGED <<register, placed, handling, late>>

(* POST /assets                                                             *)
BeginCreate(t, form, parent) ==
  /\ Start(t, [step |-> "validate", form |-> form, parent |-> parent, known |-> definition])
  /\ UNCHANGED <<register, definition, placed, late>>
ValidateCreate(t) ==
  LET h == handling[t] IN
  /\ h.step = "validate"
  /\ Go(t, IF h.form.category \in Categories /\ Conforms(h.form.attrs, definition)
           THEN [h EXCEPT !.step = "insert"] ELSE Resting)
  /\ UNCHANGED <<register, definition, placed, late>>
InsertAsset(t, a) ==
  LET h == handling[t] IN
  /\ h.step = "insert" /\ a \in FreshIds /\ ~CodeOpen(t, h.form.code)
  /\ Go(t, Resting)
  /\ IF CodeUsed(a, h.form.code) \/ (h.parent # NoAsset /\ register[h.parent] = NoEntry)
     THEN UNCHANGED <<register, late>>
     ELSE /\ register' = [register EXCEPT ![a] = Entry(h.form, h.parent, h.known)]
          /\ late' = late \cup Late(a, h.parent)
  /\ UNCHANGED <<definition, placed>>

(* POST /assets:bulk-import                                                  *)
BeginImport(t, file, dry) ==
  /\ Start(t, [step |-> "import", file |-> file, dry |-> dry, known |-> definition,
               rows |-> <<>>, outcome |-> <<>>])
  /\ UNCHANGED <<register, definition, placed, late>>

NextForm(t) == handling[t].file[Len(handling[t].outcome) + 1]
Outcome(t, rows, o) ==
  /\ Go(t, [handling[t] EXCEPT !.rows = rows, !.outcome = Append(@, o)])
  /\ UNCHANGED <<register, definition, placed, late>>

(* Plausible bug: no savepoints, and a refused row takes those before with it.   *)
RefuseAll(t, why) == Outcome(t, <<>>, why)
RefuseRow(t, why) == Outcome(t, handling[t].rows, why)

ImportAsset(t, a) ==
  LET h == handling[t]
      form == NextForm(t)
      new == Entry(form, NoAsset, h.known) IN
  /\ h.step = "import" /\ Len(h.outcome) < Len(h.file)
  /\ CASE ~Conforms(form.attrs, h.known) -> RefuseRow(t, "attributes")
       [] Conforms(form.attrs, h.known) /\ form.category \notin Categories -> RefuseRow(t, "category")
       [] OTHER ->
            /\ a \in FreshIds /\ ~CodeOpen(t, form.code)
            /\ IF CodeUsed(a, form.code) \/ \E b \in DOMAIN h.rows : h.rows[b].code = form.code
               THEN RefuseRow(t, "code")
               ELSE Outcome(t, [b \in DOMAIN h.rows \cup {a} |-> IF b = a THEN new ELSE h.rows[b]], a)
(* Any other error of the database, a deadlock with another import for one.      *)
RowFails(t) ==
  /\ handling[t].step = "import" /\ Len(handling[t].outcome) < Len(handling[t].file)
  /\ RefuseRow(t, "error")
EndAssetImport(t) ==
  LET h == handling[t] IN
  /\ h.step = "import" /\ Len(h.outcome) = Len(h.file)
  /\ Go(t, Resting)
  /\ register' = IF h.dry THEN register
                 ELSE [a \in AssetIds |-> IF a \in DOMAIN h.rows THEN h.rows[a] ELSE register[a]]
  /\ UNCHANGED <<definition, placed, late>>

(* PATCH /assets/{id}: a code that is taken, a category or a parent that is not    *)
(* there refuse it.  The parent may be any row; attributes are not validated.    *)
Changed(a, change, f) == IF f \in DOMAIN change THEN change[f] ELSE register[a][f]
PatchAsset(a, change, parent) ==
  LET new == [register[a] EXCEPT !.code = Changed(a, change, "code"),
                                 !.category = Changed(a, change, "category"),
                                 !.attrs = Changed(a, change, "attrs"),
                                 !.known = IF "attrs" \in DOMAIN change THEN {} ELSE @,
                                 !.parent = IF parent # NoAsset THEN parent ELSE @] IN
  /\ LiveAsset(a) /\ Handle
  /\ new.category \in Categories /\ ~CodeUsed(a, new.code)
  /\ \A t \in RegisterTasks : \A b \in DOMAIN Importing(t) : Importing(t)[b].code # new.code
  /\ parent # NoAsset => register[parent] # NoEntry
  /\ register' = [register EXCEPT ![a] = new]
  /\ late' = IF parent \in {NoAsset, register[a].parent} THEN late ELSE Leaves(a) \cup Late(a, parent)
  /\ UNCHANGED <<definition, placed, handling>>

-----------------------------------------------------------------------------
(* Plausible bug: open work orders do not keep an asset.                        *)
UnneededByChildren(a) == \A b \in AssetIds : LiveAsset(b) => register[b].parent # a

(* DELETE /assets/{id}: children and open orders are counted, then the row is      *)
(* marked.  A row that is its own parent, or in a cycle of them, stays for good.   *)
Unneeded(a) ==
  /\ \A b \in AssetIds : LiveAsset(b) => register[b].parent # a
  /\ \A o \in OpenOrders : placed[o] # a
CountBlockers(t, a) ==
  /\ LiveAsset(a) /\ Unneeded(a)
  /\ Start(t, [step |-> "delete", asset |-> a])
  /\ UNCHANGED <<register, definition, placed, late>>
MarkDeleted(t) ==
  /\ handling[t].step = "delete"
  /\ Go(t, Resting)
  /\ LET a == handling[t].asset IN
     register' = [register EXCEPT ![a].state = IF @ = "live" THEN "deleted" ELSE @]
  /\ UNCHANGED <<definition, placed, late>>

(* Work orders name an asset that has a row, and are closed or cancelled.         *)
PlaceOrder(o, a) ==
  /\ placed[o] = NoAsset /\ register[a] # NoEntry /\ Handle
  /\ placed' = [placed EXCEPT ![o] = a]
  /\ late' = late \cup Late(o, a)
  /\ UNCHANGED <<register, definition, handling>>
CloseOrder(o) ==
  /\ placed[o] # NoAsset /\ Handle
  /\ placed' = [placed EXCEPT ![o] = NoAsset]
  /\ late' = Leaves(o)
  /\ UNCHANGED <<register, definition, handling>>

LoseRequest(t) ==
  /\ handling[t] # Resting /\ Handle
  /\ handling' = [handling EXCEPT ![t] = Resting]
  /\ UNCHANGED <<register, definition, placed, late>>

RegisterNext ==
  \/ \E d \in Definitions : CreateDefinition(d)
  \/ \E t \in RegisterTasks :
       \/ \E form \in AssetForms, parent \in AssetIds \cup {NoAsset} : BeginCreate(t, form, parent)
       \/ \E file \in AssetFiles, dry \in BOOLEAN : BeginImport(t, file, dry)
       \/ \E a \in AssetIds : InsertAsset(t, a) \/ ImportAsset(t, a) \/ CountBlockers(t, a)
       \/ ValidateCreate(t) \/ RowFails(t) \/ EndAssetImport(t) \/ MarkDeleted(t) \/ LoseRequest(t)
  \/ \E a \in AssetIds, change \in AssetChanges, parent \in AssetIds \cup {NoAsset} :
       PatchAsset(a, change, parent)
  \/ \E o \in OpenOrders : CloseOrder(o) \/ \E a \in AssetIds : PlaceOrder(o, a)

RegisterSpec == RegisterInit /\ [][RegisterNext]_registerVars

-----------------------------------------------------------------------------
(* A deleted asset leaves no live child and no open order behind, but for those    *)
(* that came when it was going or gone.                                      *)
NothingStranded ==
  /\ \A a \in AssetIds :
       LiveAsset(a) /\ register[a].parent # NoAsset /\ register[register[a].parent].state = "deleted"
         => <<a, register[a].parent>> \in late
  /\ \A o \in OpenOrders :
       placed[o] # NoAsset /\ register[placed[o]].state = "deleted" => <<o, placed[o]>> \in late

(* Live rows have different codes, and what POST or an import wrote conforms to    *)
(* every definition there was when the request began.                          *)
AssetCodesDiffer ==
  \A a, b \in AssetIds :
    LiveAsset(a) /\ LiveAsset(b) /\ register[a].code = register[b].code => a = b
WrittenConform == \A a \in AssetIds : Conforms(register[a].attrs, register[a].known)

(* What an import reports of its rows so far is what it has inserted, all of it,    *)
(* once, whatever happened to the rows between; and it refuses none for its        *)
(* attributes or its category without cause.                                 *)
ReportIsTrue(h) ==
  /\ \A i \in DOMAIN h.outcome :
       LET form == h.file[i] IN
       CASE h.outcome[i] \in AssetIds ->
              h.outcome[i] \in DOMAIN h.rows /\ h.rows[h.outcome[i]] = Entry(form, NoAsset, h.known)
         [] h.outcome[i] = "attributes" -> ~Conforms(form.attrs, h.known)
         [] h.outcome[i] = "category" -> form.category \notin Categories
         [] OTHER -> TRUE
  /\ \A i, j \in DOMAIN h.outcome : h.outcome[i] = h.outcome[j] /\ h.outcome[i] \in AssetIds => i = j
  /\ \A a \in DOMAIN h.rows : \E i \in DOMAIN h.outcome : h.outcome[i] = a

RegisterIsSound ==
  /\ NothingStranded /\ AssetCodesDiffer /\ WrittenConform
  /\ \A t \in RegisterTasks : handling[t].step = "import" => ReportIsTrue(handling[t])

(* Violated: only assets of its category need what a narrow definition asks for.   *)
NarrowStaysNarrow ==
  [][\A t \in RegisterTasks :
       LET form == handling[t].form IN
       ValidateCreate(t) /\ handling'[t] = Resting /\ form.category \in Categories =>
         \E d \in definition : d.only \in {AllCategories, form.category} /\ Violates(form.attrs, d)
    ]_registerVars

(* Violated: attributes that a PATCH writes conform to the definitions.           *)
PatchesConform ==
  [][\A a \in AssetIds :
       LiveAsset(a) /\ register'[a].attrs # register[a].attrs =>
         Conforms(register'[a].attrs, definition)]_registerVars
=============================================================================
