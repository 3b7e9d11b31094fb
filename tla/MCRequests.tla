------------------------------ MODULE MCRequests ------------------------------
(***************************************************************************)
(* What requests of the API meet and that shares no state: keyset pages,        *)
(* optimistic locking, the calendar of rooms, the settings of a tenant, and the   *)
(* relations of assets, the register they are in and their files.  The initial     *)
(* state chooses one of them; the others rest.                                *)
(***************************************************************************)
EXTENDS KeysetPages, VersionedEdits, RoomCalendar, TenantSettings,
        AssetRelations, AssetRegister, Attachments

VARIABLE part

requestsVars ==
  <<part, pagesVars, editVars, roomVars, settingVars, linkVars, registerVars, fileVars>>

(* Rows that tie in the first column of a key, in all of it, and not at all.    *)
ColumnNames == {c.name : c \in UNION {l.columns : l \in Lists}}
Content(plain, other, maker, order) ==
  [c \in ColumnNames |->
     CASE c = "manufacturer" -> maker
       [] c = "display_order" -> order
       [] c \in {"wo_no", "asset_code"} -> other
       [] OTHER -> plain]
FirstContent == Content(<<1>>, <<2>>, <<1, 1>>, <<-1, 1>>)
ThreeContents ==
  {FirstContent, Content(<<1>>, <<1>>, <<1, 2>>, <<0, 1>>), Content(<<2>>, <<1>>, <<2, 1>>, <<0, 2>>)}
(* A room for two, and one that is combined of it and more.                     *)
Combined == [ab |-> {"a"}, a |-> {}]
Seats == [a |-> 2, ab |-> 1]

(* A tenant's administrator, and the manager of one of two facilities who reads   *)
(* the other as well.                                                        *)
Rights == [admin |-> {"f", "g", TenantWide}, manager |-> {"f"}]
Reach == [admin |-> {"f", "g", TenantWide}, manager |-> {"f", "g"}]
FirstDay == {<<"f", 1>>}
Form(place, key, flag, need) == [place |-> place, key |-> key, flag |-> flag, need |-> need]
PlainForm == Form("g", 1, FALSE, FALSE)
FourForms ==
  {PlainForm, Form("f", 1, TRUE, TRUE), Form(TenantWide, 1, FALSE, TRUE),
   Form("f", AnyKey, FALSE, FALSE)}
EightChanges ==
  {[flag |-> TRUE], [need |-> FALSE], [flag |-> TRUE, need |-> TRUE], [active |-> FALSE],
   [active |-> TRUE], [place |-> "g"], [place |-> TenantWide], [key |-> 1]}

Unlisted == [shown |-> FALSE, content |-> FirstContent]

(* One definition for all assets and one for a category; rows that conform, that    *)
(* lack a value, that have a wrong one, and one of no category.                  *)
Volts == [key |-> "volts", only |-> "all", required |-> TRUE, accepts |-> {110, 220}]
Lamp == [key |-> "lamp", only |-> "projector", required |-> FALSE, accepts |-> {1}]
TwoDefinitions == {Volts, Lamp}
Plain == [code |-> "x", category |-> "ups", attrs |-> [volts |-> 110]]
Bare == [code |-> "y", category |-> "projector", attrs |-> <<>>]
Wrong == [code |-> "y", category |-> "ups", attrs |-> [volts |-> 220, lamp |-> 7]]
Odd == [code |-> "x", category |-> "?", attrs |-> [volts |-> 110]]
FourBodies == {Plain, Bare, Wrong, Odd}
TwoImports == {<<Plain, Odd, Wrong>>, <<Bare, Bare>>}
ThreePatches == {[code |-> "y"], [attrs |-> [volts |-> 5]], <<>>}

-----------------------------------------------------------------------------
(* The callers who have one kind of request, or the others and a PATCH of the rooms. *)
RoomPeople ==
  LET plain == {c \in Callers : Cardinality(Asks[c]) = 1} IN
  IF part # "rooms" THEN WrittenAs({"idle"}) = Callers /\ patched = 0
  ELSE \/ WrittenAs({"idle"}) = plain /\ patched = MaxSettings
       \/ WrittenAs({"idle"}) = Callers \ plain /\ patched = 0

(* Each part at rest is in one of its initial states.                        *)
RequestsInit ==
  /\ part \in {"pages", "edits", "rooms", "settings", "relations", "register", "files"}
  /\ EditsInit /\ (part # "edits" => table = "facilities")
  /\ SettingsInit /\ (part # "settings" => kept = "items" /\ line[1] = FromForm("items", PlainForm))
  /\ PagesInit /\ (part # "pages" => list = AuditList /\ item = [r \in Listed |-> Unlisted])
  /\ RoomInit /\ RoomPeople /\ RelationInit /\ RegisterInit /\ FilesInit

(* All parts but one of the first four, or of the last three, rest.              *)
OfficeRests == UNCHANGED <<pagesVars, editVars, roomVars, settingVars>>
AssetsRest == UNCHANGED <<linkVars, registerVars, fileVars>>

PagesPart == PagesNext /\ AssetsRest /\ UNCHANGED <<editVars, roomVars, settingVars>>
EditsPart == EditsNext /\ AssetsRest /\ UNCHANGED <<pagesVars, roomVars, settingVars>>
RoomsPart == RoomNext /\ AssetsRest /\ UNCHANGED <<pagesVars, editVars, settingVars>>
SettingsPart == SettingsNext /\ AssetsRest /\ UNCHANGED <<pagesVars, editVars, roomVars>>
RelationsPart == RelationNext /\ OfficeRests /\ UNCHANGED <<registerVars, fileVars>>
RegisterPart == RegisterNext /\ OfficeRests /\ UNCHANGED <<linkVars, fileVars>>
FilesPart == FilesNext /\ OfficeRests /\ UNCHANGED <<linkVars, registerVars>>

RequestsNext ==
  /\ UNCHANGED part
  /\ \/ part = "pages" /\ PagesPart
     \/ part = "edits" /\ EditsPart
     \/ part = "rooms" /\ RoomsPart
     \/ part = "settings" /\ SettingsPart
     \/ part = "relations" /\ RelationsPart
     \/ part = "register" /\ RegisterPart
     \/ part = "files" /\ FilesPart

RequestsSpec == RequestsInit /\ [][RequestsNext]_requestsVars

(* Every part's variables have their types.                                  *)
TypesOK ==
  /\ PagesTypeOK /\ EditsTypeOK /\ RoomTypeOK /\ SettingTypeOK
  /\ LinkTypeOK /\ RegisterTypeOK /\ FileTypeOK

(* The two stores of an asset, its row and its files, keep their promises side    *)
(* by side: deletions strand nothing but what came late, codes are unique, what      *)
(* POST and imports wrote conforms and was reported; no live file is without its    *)
(* object and every object without a row is known.                            *)
AssetsAreSound == RegisterIsSound /\ FilesAreSound
=============================================================================
