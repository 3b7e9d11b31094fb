------------------------------ MODULE KeysetPages ------------------------------
(***************************************************************************)
(* fms_shared::page and the endpoints that list with it.  A client walks a   *)
(* list page by page; each page is one SELECT that compares (sort key, id)   *)
(* with the last row of the page before, while other requests add, remove,   *)
(* hide and change rows.                                                    *)
(*                                                                         *)
(* A text, a time and a path are numbers in the order PostgreSQL gives them;  *)
(* a key of several parts is a sequence of numbers.                         *)
(***************************************************************************)
EXTENDS Integers, Sequences, FiniteSets

CONSTANTS
  Listed,     \* ids of rows, which break ties
  Contents,   \* bound: contents of rows, each with a value for every column
  Requested,  \* bound: the limits clients ask for
  MaxPage,    \* the largest page
  MaxEdits    \* bound: changes by others during a walk

ASSUME PagesAssumption ==
  /\ Listed \subseteq Nat /\ IsFiniteSet(Listed)
  /\ Requested \subseteq Int
  /\ MaxPage \in Nat \ {0} /\ MaxEdits \in Nat

VARIABLES
  list,   \* the endpoint that is walked
  item,   \* item[r]: whether the filter shows it, and its content
  walk,   \* the client: order of the first page, last cursor, stage
  seen,   \* seen[r]: history: how often r was returned, up to twice
  steady, \* history: rows shown ever since the first page
  moved,  \* history: rows whose key has changed since the first page
  cuts,   \* history: the keys at which pages were cut
  edits

pagesVars == <<list, item, walk, seen, steady, moved, cuts, edits>>

-----------------------------------------------------------------------------
(* The endpoints: the columns they sort by, with the kind of key and whether   *)
(* the program ever changes the column of a row, and the default order.      *)
Fixed(name, kind) == [name |-> name, kind |-> kind, moves |-> FALSE]
Moving(name, kind) == [name |-> name, kind |-> kind, moves |-> TRUE]
SortedBy(column, desc) == [columns |-> {column}, default |-> [column |-> column, desc |-> desc]]
Sortable(columns, default) ==
  [columns |-> columns, default |-> [column |-> default, desc |-> TRUE]]

CreatedAt == Fixed("created_at", "plain")
WorkOrderList ==
  Sortable({CreatedAt, Fixed("wo_no", "plain"), Moving("priority", "plain")}, CreatedAt)
AssetList ==
  Sortable({CreatedAt, Moving("asset_code", "plain"), Moving("name", "plain")}, CreatedAt)
AssetModelList == SortedBy(Fixed("manufacturer", "joined"), FALSE)
AssetWorkOrderList == SortedBy(CreatedAt, TRUE)
StatusHistoryList == SortedBy(Fixed("changed_at", "plain"), TRUE)
MeterReadingList == SortedBy(Fixed("reading_at", "plain"), TRUE)
DeviceList == SortedBy(Fixed("device_code", "plain"), FALSE)
AlarmRuleList == SortedBy(Fixed("code", "plain"), FALSE)
AlarmList == SortedBy(Moving("last_seen_at", "plain"), TRUE)
ReservationList == SortedBy(Moving("start_at", "plain"), TRUE)
BlackoutList == SortedBy(Fixed("start_at", "plain"), FALSE)
ServiceItemList == SortedBy(Moving("display_order", "padded"), FALSE)
UserList == SortedBy(Moving("display_name", "plain"), FALSE)
AuditList == SortedBy(Fixed("occurred_at", "plain"), TRUE)
DirectoryGroupList == SortedBy(Moving("name", "plain"), FALSE)
IdentityProviderList == SortedBy(Fixed("code", "plain"), FALSE)
OrganizationList == SortedBy(Moving("org_path", "plain"), FALSE)
FacilityList == SortedBy(Moving("code", "plain"), FALSE)
SpatialNodeList == SortedBy(Moving("node_path", "plain"), FALSE)
BimModelList == SortedBy(CreatedAt, TRUE)
PlanList == SortedBy(Fixed("code", "plain"), FALSE)
OccurrenceList == SortedBy(Fixed("scheduled_for", "plain"), TRUE)
CalendarList == SortedBy(CreatedAt, TRUE)
WebhookList == SortedBy(Fixed("url", "plain"), FALSE)

Lists ==
  {WorkOrderList, AssetList, AssetModelList, AssetWorkOrderList, StatusHistoryList,
   MeterReadingList, DeviceList, AlarmRuleList, AlarmList, ReservationList, BlackoutList,
   ServiceItemList, UserList, AuditList, DirectoryGroupList, IdentityProviderList,
   OrganizationList, FacilityList, SpatialNodeList, BimModelList, PlanList, OccurrenceList,
   CalendarList, WebhookList}
Sorts(l) ==
  {l.default} \cup
  (IF Cardinality(l.columns) = 1 THEN {} ELSE [column : l.columns, desc : BOOLEAN])

(* A key has one part, or two if the program takes it apart again.              *)
KeyShape(kind) == [1..(IF kind = "plain" THEN 1 ELSE 2) -> Int]
ASSUME KeysAssumption ==
  \A l \in Lists, content \in Contents : \A c \in l.columns : content[c.name] \in KeyShape(c.kind)

-----------------------------------------------------------------------------
(* Sequences of numbers in lexicographic order: a row comparison of SQL.        *)
Less(s, t) == \E i \in DOMAIN s : s[i] < t[i] /\ \A j \in 1..(i - 1) : s[j] = t[j]

(* The expression the WHERE clause compares, and what it is compared with: the  *)
(* key that Rust has put into the cursor.  A model's cursor holds manufacturer, *)
(* separator and model number in one text, which is compared with the          *)
(* manufacturer; lpad() and {:010} put the sign of a negative number at          *)
(* different places, both before every digit.                                *)
Compared(kind, key) ==
  CASE kind = "joined" -> <<key[1], 0, key[2]>>
    [] kind = "padded" -> IF key[1] < 0 THEN <<1, -key[1], key[2]>> ELSE <<2, key[1], key[2]>>
    [] OTHER -> key
Bound(kind, key) ==
  CASE kind = "joined" -> <<key[1], 1, key[2]>>
    [] kind = "padded" -> IF key[1] < 0 THEN <<0, -key[1], key[2]>> ELSE <<2, key[1], key[2]>>
    [] OTHER -> key
Key(r, sort) == item[r].content[sort.column.name]

NoCursor == [column |-> "", key |-> <<>>, id |-> 0]
(* Plausible bug: rows with the key of the last one are taken to be passed.     *)
AfterKey(r, sort, cursor) ==
  LET at == Compared(sort.column.kind, Key(r, sort))
      last == Bound(sort.column.kind, cursor.key) IN
  cursor = NoCursor \/ IF sort.desc THEN Less(at, last) ELSE Less(last, at)

After(r, sort, cursor) ==
  LET at == Append(Compared(sort.column.kind, Key(r, sort)), r)
      last == Append(Bound(sort.column.kind, cursor.key), cursor.id) IN
  cursor = NoCursor \/ IF sort.desc THEN Less(at, last) ELSE Less(last, at)

(* ORDER BY key, id.                                                        *)
Before(q, r, sort) ==
  LET a == Append(Key(q, sort), q)
      b == Append(Key(r, sort), r) IN
  IF sort.desc THEN Less(b, a) ELSE Less(a, b)

ClampLimit(wanted) == IF wanted < 1 THEN 1 ELSE IF wanted > MaxPage THEN MaxPage ELSE wanted

-----------------------------------------------------------------------------
PagesTypeOK ==
  /\ list \in Lists
  /\ item \in [Listed -> [shown : BOOLEAN, content : Contents]]
  /\ walk.stage \in {"start", "on", "end", "astray"} /\ walk.sort \in Sorts(list)
  /\ seen \in [Listed -> 0..2]
  /\ steady \subseteq Listed /\ moved \subseteq Listed
  /\ edits \in 0..MaxEdits

PagesInit ==
  /\ list \in Lists
  /\ item \in [Listed -> [shown : BOOLEAN, content : Contents]]
  /\ \E sort \in Sorts(list) :
       walk = [stage |-> "start", sort |-> sort, cursor |-> NoCursor]
  /\ seen = [r \in Listed |-> 0]
  /\ steady = {r \in Listed : item[r].shown}
  /\ moved = {}
  /\ cuts = {}
  /\ edits = 0

(* Plausible bug: the cursor is not compared with the sort of the request.      *)
DecodesAny(sort, cursor) == TRUE

(* Cursor::decode refuses a cursor that was issued for another column.          *)
Decodes(sort, cursor) == cursor = NoCursor \/ cursor.column = sort.column.name

(* One request: limit + 1 rows are read, the last one tells that there is more. *)
(* The client repeats its sort, or by mistake sends another one.             *)
FetchPage(sort, wanted) ==
  LET limit == ClampLimit(wanted)
      rest == {r \in Listed : item[r].shown /\ After(r, sort, walk.cursor)}
      page == {r \in rest : Cardinality({q \in rest : Before(q, r, sort)}) < limit}
      last == CHOOSE r \in page : \A q \in page \ {r} : Before(q, r, sort) IN
  /\ walk.stage \in {"start", "on"}
  /\ walk.stage = "start" => sort = walk.sort
  /\ Decodes(sort, walk.cursor)
  /\ seen' = [r \in Listed |-> IF r \in page /\ seen[r] < 2 THEN seen[r] + 1 ELSE seen[r]]
  /\ IF sort.desc # walk.sort.desc
     THEN walk' = [walk EXCEPT !.stage = "astray", !.cursor = NoCursor] /\ UNCHANGED cuts
     ELSE IF page = rest
     THEN walk' = [walk EXCEPT !.stage = "end", !.cursor = NoCursor] /\ UNCHANGED cuts
     ELSE /\ walk' = [walk EXCEPT !.stage = "on", !.cursor =
                        [column |-> sort.column.name, key |-> Key(last, sort), id |-> last]]
          /\ cuts' = cuts \cup {Key(last, sort)}
  /\ UNCHANGED <<list, item, steady, moved, edits>>

-----------------------------------------------------------------------------
(* Others, during the walk: a row appears or disappears, by itself or for the   *)
(* filter; a column changes, if the program ever changes it.                 *)
Edit == walk.stage = "on" /\ edits < MaxEdits /\ edits' = edits + 1
Toggle(r) ==
  /\ Edit
  /\ item' = [item EXCEPT ![r].shown = ~@]
  /\ steady' = steady \ {r}
  /\ UNCHANGED <<list, walk, seen, moved, cuts>>
Change(r, content) ==
  /\ Edit
  /\ content # item[r].content
  /\ \A c \in list.columns : ~c.moves => content[c.name] = item[r].content[c.name]
  /\ item' = [item EXCEPT ![r].content = content]
  /\ moved' = IF content[walk.sort.column.name] = Key(r, walk.sort) THEN moved ELSE moved \cup {r}
  /\ UNCHANGED <<list, walk, seen, steady, cuts>>

PagesNext ==
  \/ \E sort \in Sorts(list), wanted \in Requested : FetchPage(sort, wanted)
  \/ \E r \in Listed : Toggle(r) \/ \E content \in Contents : Change(r, content)

PagesSpec == PagesInit /\ [][PagesNext]_pagesVars

-----------------------------------------------------------------------------
(* The two keys that the program compares wrongly: a page of asset models cut   *)
(* at this manufacturer, a page of service items cut at a negative position.   *)
CutAtMaker(r) ==
  walk.sort.column.kind = "joined" /\ \E key \in cuts : key[1] = Key(r, walk.sort)[1]
CutAtNegative == walk.sort.column.kind = "padded" /\ \E key \in cuts : key[1] < 0

(* However others add, remove and change rows between two pages, and however    *)
(* the limit varies, a walk returns no row twice unless its key has changed,    *)
(* and leaves out no row that was shown all the time with one key.  It ends      *)
(* therefore, having no page without a row before the last.                  *)
ReturnedOnce(r) == seen[r] <= 1 \/ r \in moved
NotLeftOut(r) == walk.stage = "end" /\ r \in steady \ moved => seen[r] = 1 \/ CutAtMaker(r)
WalksAreExact ==
  walk.stage = "astray" \/ CutAtNegative \/ \A r \in Listed : ReturnedOnce(r) /\ NotLeftOut(r)

(* Violated: the same of asset models.                                      *)
ModelsAreListed ==
  list = AssetModelList /\ walk.stage = "end" => \A r \in steady \ moved : seen[r] = 1
(* Violated: the same of service items, whatever their positions.              *)
ItemsAreListedOnce == list = ServiceItemList => \A r \in Listed \ moved : seen[r] <= 1
(* Violated: a cursor is only accepted in the order it was issued for.          *)
OrderIsKept == walk.stage # "astray"
=============================================================================
