----------------------------- MODULE Catalogue ------------------------------
(***************************************************************************)
(* The rows users choose from: money management presets and coin groups,   *)
(* whose built-in ones are seeded by the first request that needs them,    *)
(* and the users' exchange accounts.  No table has a unique constraint:    *)
(* each of these requests reads, decides, inserts and commits.  A request  *)
(* that reads and writes one row by its id is one step: the database       *)
(* (external) applies it to the row or to none.                            *)
(***************************************************************************)
EXTENDS Naturals, FiniteSets

CONSTANTS
  Client,         \* requests running at a time
  Customer,       \* users
  System,         \* the user_id of a built-in row: none
  BuiltinPreset,  \* keys of BUILTIN_PRESETS
  BuiltinGroup,   \* names of BUILTIN_GROUPS
  MaxRows,        \* bound on the rows of a table, counting those a request has read
  MaxByHand       \* bound on the rows created, changed and deleted by hand

VARIABLES
  presetRows,     \* mm_presets
  groupRows,      \* coin_groups
  accountRows,    \* exchange_accounts
  session,        \* [Client -> a request between its read and its commit]
  raced,          \* history: the tables two of these requests overlapped on
  byHand,         \* rows created, changed and deleted by hand so far
  namesakes       \* history: names of built-in rows given to rows by hand

catalogueVars == <<presetRows, groupRows, accountRows, session, raced, byHand, namesakes>>

NoSession == [op |-> "none", seen |-> {}, user |-> System]

Init ==
  /\ presetRows = {} /\ groupRows = {} /\ accountRows = {}
  /\ session = [c \in Client |-> NoSession]
  /\ raced = {} /\ byHand = 0 /\ namesakes = {}

(* A row: drifted when an admin has edited it away from the code's values. *)
NewRow(id, name, builtin, user) ==
  [id |-> id, name |-> name, builtin |-> builtin, user |-> user, drifted |-> FALSE]

GetBuiltin(rows) == {r \in rows : r.builtin}
GetByName(name) == {r \in groupRows : r.name = name}
Names(rows) == {r.name : r \in rows}

(* Ids (uuids) nothing has yet, and built-in rows for a set of names. *)
Remembered == UNION {session[c].seen : c \in {d \in Client : session[d].op = "presets"}}
Free(rows) == 1 .. MaxRows \ {r.id : r \in rows \cup Remembered}
NextId(rows) == CHOOSE i \in Free(rows) : \A j \in Free(rows) : i <= j

Fresh(names, rows) ==
  LET id == CHOOSE f \in [names -> Free(rows)] : \A m, n \in names : f[m] = f[n] => m = n
  IN {NewRow(id[n], n, TRUE, System) : n \in names}

Reads(c, op, seen, user) ==
  /\ session[c] = NoSession
  /\ session' = [session EXCEPT ![c] = [op |-> op, seen |-> seen, user |-> user]]
  /\ raced' = IF \E d \in Client : session[d].op = op /\ session[d].user = user
              THEN raced \cup {op} ELSE raced
  /\ UNCHANGED <<presetRows, groupRows, accountRows, byHand, namesakes>>

Ends(c) == session' = [session EXCEPT ![c] = NoSession]

-----------------------------------------------------------------------------
(* list_mm_presets. *)
ListPresets(c) == Reads(c, "presets", GetBuiltin(presetRows), System)

(* The built-in types without a row.  The mutant adds the drifted ones. *)
MissingOrDrifted(seen) ==
  {t \in BuiltinPreset : \A r \in seen : r.name = t => r.drifted}
Missing(seen) == BuiltinPreset \ Names(seen)

(* existing_by_type keeps one row of a type, whichever comes last. *)
Kept(seen) ==
  {k \in SUBSET seen : /\ Names(k) = Names(seen)
                       /\ \A r, s \in k : r.name = s.name => r = s}

Synced(k) == {r \in k : r.name \in BuiltinPreset /\ r.drifted}

EnsureBuiltinPresets(c) ==
  /\ session[c].op = "presets"
  /\ \E k \in Kept(session[c].seen) :
       LET ids == {r.id : r \in Synced(k)}
           new == Fresh(Missing(session[c].seen), presetRows)
       IN
       /\ Cardinality(Missing(session[c].seen)) <= Cardinality(Free(presetRows))
       /\ ids \subseteq {r.id : r \in presetRows}
       /\ presetRows' = {[r EXCEPT !.drifted = r.drifted /\ r.id \notin ids] : r \in presetRows}
                          \cup new
  /\ Ends(c)
  /\ UNCHANGED <<groupRows, accountRows, raced, byHand, namesakes>>

(* Updating a row that is gone raises and rolls all of it back. *)
ListRollsBack(c) ==
  /\ session[c].op = "presets"
  /\ \E k \in Kept(session[c].seen) : \E r \in Synced(k) : \A s \in presetRows : s.id # r.id
  /\ Ends(c)
  /\ UNCHANGED <<presetRows, groupRows, accountRows, raced, byHand, namesakes>>

(* calculate_mm: the groups are seeded only while there is no built-in     *)
(* one; then the name is looked up (see OneOfEach).                        *)
CalculateMM(c) == Reads(c, "groups", {"some" : r \in GetBuiltin(groupRows)}, System)

EnsureBuiltinGroups(c) ==
  /\ session[c].op = "groups"
  /\ IF session[c].seen # {} THEN UNCHANGED groupRows
     ELSE /\ Cardinality(BuiltinGroup) <= Cardinality(Free(groupRows))
          /\ groupRows' = groupRows \cup Fresh(BuiltinGroup, groupRows)
  /\ Ends(c)
  /\ UNCHANGED <<presetRows, accountRows, raced, byHand, namesakes>>

-----------------------------------------------------------------------------
(* One row at a time: a user's own row, or any row for the admin. *)
ByHand == byHand < MaxByHand /\ byHand' = byHand + 1

Named(name) ==
  /\ ByHand /\ namesakes' = namesakes \cup {name}
  /\ UNCHANGED <<accountRows, session, raced>>

CreatePreset(u) ==
  /\ Named("custom") /\ Free(presetRows) # {}
  /\ presetRows' = presetRows \cup {NewRow(NextId(presetRows), "custom", FALSE, u)}
  /\ UNCHANGED groupRows

AdminCreatePreset(t) ==
  /\ Named(t) /\ Free(presetRows) # {}
  /\ presetRows' = presetRows \cup {NewRow(NextId(presetRows), t, TRUE, System)}
  /\ UNCHANGED groupRows

CreateGroup(u, name) ==
  /\ Named(name) /\ Free(groupRows) # {}
  /\ groupRows' = groupRows \cup {NewRow(NextId(groupRows), name, FALSE, u)}
  /\ UNCHANGED presetRows

AdminCreateGroup(name) ==
  /\ Named(name) /\ Free(groupRows) # {}
  /\ groupRows' = groupRows \cup {NewRow(NextId(groupRows), name, TRUE, System)}
  /\ UNCHANGED presetRows

AdminUpdatePreset(r) ==
  /\ ByHand
  /\ presetRows' = (presetRows \ {r}) \cup {[r EXCEPT !.drifted = TRUE]}
  /\ UNCHANGED <<groupRows, accountRows, session, raced, namesakes>>

(* A group's name is one of the fields an admin may change. *)
AdminUpdateGroup(r, name) ==
  /\ Named(name)
  /\ groupRows' = (groupRows \ {r}) \cup {[r EXCEPT !.name = name]}
  /\ UNCHANGED presetRows

(* The owner may delete what is not built in, the admin anything. *)
MayDelete(r, u) == u = System \/ (~r.builtin /\ r.user = u)

DeletePreset(r, u) ==
  /\ ByHand
  /\ MayDelete(r, u)
  /\ presetRows' = presetRows \ {r}
  /\ UNCHANGED <<groupRows, accountRows, session, raced, namesakes>>

DeleteGroup(r, u) ==
  /\ ByHand
  /\ MayDelete(r, u)
  /\ groupRows' = groupRows \ {r}
  /\ UNCHANGED <<presetRows, accountRows, session, raced, namesakes>>

-----------------------------------------------------------------------------
(* create_exchange_account, for one exchange and network: a row a user     *)
(* has not deleted refuses another; two of them make the query raise.      *)
Live(u) == {r \in accountRows : r.user = u /\ ~r.deleted}

CreateExchangeAccount(c, u) == Live(u) = {} /\ Reads(c, "accounts", {}, u)

AccountInserted(c) ==
  /\ session[c].op = "accounts" /\ Free(accountRows) # {}
  /\ accountRows' = accountRows \cup
                      {[id |-> NextId(accountRows), user |-> session[c].user, deleted |-> FALSE]}
  /\ Ends(c)
  /\ UNCHANGED <<presetRows, groupRows, raced, byHand, namesakes>>

(* A soft delete. *)
DeleteExchangeAccount(r) ==
  /\ r \in Live(r.user)
  /\ accountRows' = (accountRows \ {r}) \cup {[r EXCEPT !.deleted = TRUE]}
  /\ UNCHANGED <<presetRows, groupRows, session, raced, byHand, namesakes>>

PresetStep ==
  \/ \E c \in Client : ListPresets(c) \/ EnsureBuiltinPresets(c) \/ ListRollsBack(c)
  \/ \E u \in Customer : CreatePreset(u)
  \/ \E t \in BuiltinPreset : AdminCreatePreset(t)
  \/ \E r \in presetRows : \/ AdminUpdatePreset(r)
                           \/ \E u \in Customer \cup {System} : DeletePreset(r, u)

GroupStep ==
  \/ \E c \in Client : CalculateMM(c) \/ EnsureBuiltinGroups(c)
  \/ \E name \in BuiltinGroup : AdminCreateGroup(name) \/ \E u \in Customer : CreateGroup(u, name)
  \/ \E r \in groupRows : \/ (\E name \in BuiltinGroup : AdminUpdateGroup(r, name))
                          \/ \E u \in Customer \cup {System} : DeleteGroup(r, u)

AccountStep ==
  \/ \E c \in Client : AccountInserted(c) \/ \E u \in Customer : CreateExchangeAccount(c, u)
  \/ \E r \in accountRows : DeleteExchangeAccount(r)

Next == PresetStep \/ GroupStep \/ AccountStep
Spec == Init /\ [][Next]_catalogueVars

-----------------------------------------------------------------------------
(* Through every order of listings, edits, deletions and re-seedings, a    *)
(* built-in preset or group is there once at most and a user has one live  *)
(* account, so that get_by_name and the check for an account never meet    *)
(* two rows, unless two such requests overlapped or somebody gave a row    *)
(* the name by hand; and what a user owns is never marked built in.        *)
OneOfEach ==
  /\ "presets" \notin raced =>
       \A r, s \in GetBuiltin(presetRows) :
         r.name = s.name /\ r.name \notin namesakes => r = s
  /\ "groups" \notin raced =>
       \A name \in BuiltinGroup \ namesakes : Cardinality(GetByName(name)) <= 1
  /\ "accounts" \notin raced => \A u \in Customer : Cardinality(Live(u)) <= 1
  /\ \A r \in presetRows \cup groupRows : r.builtin <=> r.user = System
=============================================================================
