------------------------------ MODULE KeyTable ------------------------------
(***************************************************************************)
(* The table of upstream keys of src/src/services/key_manager.py and the   *)
(* requests that use it: a request takes the list of keys when it starts,  *)
(* chooses a position that is enabled, and may ban that position when the  *)
(* answer comes.  Everything is addressed by position: position i here is  *)
(* index i - 1 of the code.                                                *)
(*                                                                         *)
(* An operation changes the table in one step and then saves it; what the  *)
(* saves do is not part of this module.                                    *)
(***************************************************************************)
EXTENDS Naturals, Sequences

CONSTANTS
    ApiKeys,        \* upstream API keys
    Callers,        \* coroutines that serve requests
    Operations,     \* the administrator's operations that are in use
    NoImport,       \* no import is under way
    MaxKeys         \* bound: length of the list

AllOperations == {"append", "override", "status", "delete", "import", "config"}

ASSUME KeyTableAssumption ==
    /\ MaxKeys \in Nat
    /\ Operations \subseteq AllOperations

VARIABLES
    keys,       \* KeyConfig.keys
    active,     \* enabled_indices
    disabled,   \* disabled_indices
    states,     \* _key_states: is there an entry, and a reason in it
    importing,  \* the disabled_indices and key_states of the import under way
    pc,         \* where each request is
    list,       \* the keys as the request got them
    at          \* the position it uses

table == <<keys, active, disabled, states>>
callerVars == <<pc, list, at>>
tableVars == <<table, importing, callerVars>>

Places == 1..MaxKeys
Positions == 1..Len(keys)
Entries == {"none", "plain", "reason"}
Lists == UNION {[1..n -> ApiKeys] : n \in Places}

TableInit ==
    /\ keys \in {<<>>} \cup Lists
    /\ disabled \in SUBSET Positions
    /\ active = Positions \ disabled
    /\ states = [i \in Places |-> IF i \in disabled THEN "reason" ELSE "none"]
    /\ importing = NoImport
    /\ pc = [r \in Callers |-> "idle"]
    /\ list = [r \in Callers |-> <<>>]
    /\ at = [r \in Callers |-> 0]

-----------------------------------------------------------------------------
(* Administration *)

\* The elements of a list that are in a set, in order: SelectSeq, written so
\* that it can be proved about.
Sublist(ks, set) ==
    LET sub[i \in 0 .. Len(ks)] ==
          IF i = 0 THEN <<>>
          ELSE IF ks[i] \in set THEN Append(sub[i - 1], ks[i]) ELSE sub[i - 1]
    IN  sub[Len(ks)]

\* add_keys, append: the keys not yet in the list go to its end.
AddKeys(ks) ==
    LET new == Sublist(ks, {k \in ApiKeys : \A i \in Positions : keys[i] # k})
    IN  /\ "append" \in Operations
        /\ Len(keys) + Len(new) <= MaxKeys
        /\ keys' = keys \o new
        /\ active' = active \cup (Len(keys) + 1)..(Len(keys) + Len(new))
        /\ UNCHANGED <<disabled, states, importing, callerVars>>

\* The entry a key takes with it: that of its last position that has one.
StateOf(k) ==
    LET kept == {j \in Positions : keys[j] = k /\ states[j] # "none"}
    IN  IF kept = {} THEN "none"
        ELSE states[CHOOSE j \in kept : \A i \in kept : i <= j]

\* add_keys, override: status goes with the key, not with the position.
Replace(ks) ==
    LET off == {keys[j] : j \in disabled \cap Positions}
    IN  /\ keys' = ks
        /\ disabled' = {i \in 1..Len(ks) : ks[i] \in off}
        /\ active' = {i \in 1..Len(ks) : ks[i] \notin off}
        /\ states' = [i \in Places |-> IF i <= Len(ks) THEN StateOf(ks[i]) ELSE "none"]

Override(ks) ==
    /\ "override" \in Operations
    /\ Replace(ks)
    /\ UNCHANGED <<importing, callerVars>>

\* update_key_status and batch_update_status; a position out of range is
\* passed over.
SetStatus(S, on) ==
    LET T == S \cap Positions
    IN  /\ "status" \in Operations
        /\ active' = IF on THEN active \cup T ELSE active \ T
        /\ disabled' = IF on THEN disabled \ T ELSE disabled \cup T
        /\ states' = [i \in Places |->
                         IF i \notin T THEN states[i]
                         ELSE IF ~ on THEN "reason"
                         ELSE IF states[i] = "none" THEN "none" ELSE "plain"]
        /\ UNCHANGED <<keys, importing, callerVars>>

\* The positions of S once position i is gone.
Shift(S, i) == {j \in S : j < i} \cup {j - 1 : j \in {h \in S : h > i}}

\* Variant of Delete: the entries of _key_states are not moved.
DeleteKeepsStates(i) ==
    /\ "delete" \in Operations
    /\ i \in Positions
    /\ keys' = [j \in 1..(Len(keys) - 1) |-> IF j < i THEN keys[j] ELSE keys[j + 1]]
    /\ active' = Shift(active, i)
    /\ disabled' = Shift(disabled, i)
    /\ states' = [states EXCEPT ![i] = "none"]
    /\ UNCHANGED <<importing, callerVars>>

\* delete_key.
Delete(i) ==
    /\ "delete" \in Operations
    /\ i \in Positions
    /\ keys' = [j \in 1..(Len(keys) - 1) |-> IF j < i THEN keys[j] ELSE keys[j + 1]]
    /\ active' = Shift(active, i)
    /\ disabled' = Shift(disabled, i)
    /\ states' = [j \in Places |->
                     IF j < i THEN states[j]
                     ELSE IF j < MaxKeys THEN states[j + 1] ELSE "none"]
    /\ UNCHANGED <<importing, callerVars>>

\* import_keys in override mode: the keys first; the disabled positions D and
\* the entries of the export (P has those without a reason) only when the
\* first save has returned.
ImportBegins(ks, D, P) ==
    /\ "import" \in Operations
    /\ importing = NoImport
    /\ Replace(ks)
    /\ importing' = [off |-> D, states |-> [i \in Places |->
                        IF i \in D THEN "reason" ELSE IF i \in P THEN "plain" ELSE "none"]]
    /\ UNCHANGED callerVars

ImportEnds ==
    /\ importing # NoImport
    /\ IF importing.off = {}
       THEN UNCHANGED <<active, disabled>>
       ELSE /\ disabled' = importing.off
            /\ active' = Positions \ importing.off
    /\ states' = IF \A i \in Places : importing.states[i] = "none"
                 THEN states ELSE importing.states
    /\ importing' = NoImport
    /\ UNCHANGED <<keys, callerVars>>

\* The configuration page writes the list and reload_config reads it back;
\* the disabled positions stay what they were.
ConfigSave(ks) ==
    /\ "config" \in Operations
    /\ keys' = ks
    /\ active' = 1..Len(ks) \ disabled
    /\ UNCHANGED <<disabled, states, importing, callerVars>>

-----------------------------------------------------------------------------
(* Requests *)

\* get_assembly_api_keys: one list for all the attempts of a request.
Start(r) ==
    /\ pc[r] = "idle"
    /\ keys # <<>>
    /\ pc' = [pc EXCEPT ![r] = "ready"]
    /\ list' = [list EXCEPT ![r] = keys]
    /\ UNCHANGED <<table, importing, at>>

\* Enabled as the selection sees it: a position the table does not know
\* counts as enabled.
Eligible(i) == i \in Positions => i \notin disabled

\* _next_key_index_async; which eligible position is left to the selectors.
Choose(r, i) ==
    /\ pc[r] = "ready"
    /\ i \in 1..Len(list[r])
    /\ Eligible(i)
    /\ pc' = [pc EXCEPT ![r] = "calling"]
    /\ at' = [at EXCEPT ![r] = i]
    /\ UNCHANGED <<table, importing, list>>

End(r) ==
    /\ pc' = [pc EXCEPT ![r] = "idle"]
    /\ list' = [list EXCEPT ![r] = <<>>]
    /\ at' = [at EXCEPT ![r] = 0]

\* The answer stands, or no position is eligible.
Finish(r) ==
    /\ pc[r] # "idle"
    /\ End(r)
    /\ UNCHANGED <<table, importing>>

\* The answer calls for another attempt.
Retry(r) ==
    /\ pc[r] = "calling"
    /\ pc' = [pc EXCEPT ![r] = "ready"]
    /\ at' = [at EXCEPT ![r] = 0]
    /\ UNCHANGED <<table, importing, list>>

\* Variant of Disable: enabled_indices is not touched.
DisableHalf(i) ==
    /\ disabled' = disabled \cup {i}
    /\ states' = [states EXCEPT ![i] = "reason"]
    /\ UNCHANGED <<keys, active, importing>>

\* update_key_state with the error of an auto-ban; the position is not
\* checked against the list.
Disable(i) ==
    /\ active' = active \ {i}
    /\ disabled' = disabled \cup {i}
    /\ states' = [states EXCEPT ![i] = "reason"]
    /\ UNCHANGED <<keys, importing>>

\* The answer is an error for which keys are banned; then the next attempt,
\* or the end of the request.
Ban(r) ==
    /\ pc[r] = "calling"
    /\ Disable(at[r])
    /\ \/ End(r)
       \/ /\ pc' = [pc EXCEPT ![r] = "ready"]
          /\ at' = [at EXCEPT ![r] = 0]
          /\ UNCHANGED list

CallerStep(r) ==
    \/ Start(r) \/ Finish(r) \/ Retry(r) \/ Ban(r)
    \/ \E i \in Places : Choose(r, i)

AdminStep ==
    \/ \E ks \in Lists : AddKeys(ks) \/ Override(ks) \/ ConfigSave(ks)
    \/ \E ks \in Lists : \E D \in SUBSET (1..Len(ks)) :
          \E P \in SUBSET (1..Len(ks) \ D) : ImportBegins(ks, D, P)
    \/ ImportEnds
    \/ \E S \in SUBSET Places \ {{}}, on \in BOOLEAN : SetStatus(S, on)
    \/ \E i \in Places : Delete(i)

TableNext == AdminStep \/ \E r \in Callers : CallerStep(r)

TableSpec == TableInit /\ [][TableNext]_tableVars

-----------------------------------------------------------------------------
TableTypeOK ==
    /\ keys \in {<<>>} \cup Lists
    /\ active \subseteq Positions
    /\ disabled \subseteq Places
    /\ states \in [Places -> Entries]
    /\ importing \in [off : SUBSET Places, states : [Places -> Entries]] \cup {NoImport}
    /\ pc \in [Callers -> {"idle", "ready", "calling"}]
    /\ list \in [Callers -> {<<>>} \cup Lists]
    /\ at \in [Callers -> 0..MaxKeys]
    /\ \A r \in Callers : pc[r] = "calling" => at[r] \in 1..Len(list[r])

Off(k) == \E i \in Positions : keys[i] = k /\ i \in disabled
Unique(k) == \E p \in Positions : \A i \in Positions : keys[i] = k <=> i = p

Partition == active \cap disabled = {} /\ active \cup disabled = Positions
StaleBan == \E r \in Callers : at[r] \notin Positions /\ Ban(r)
ForeignPositions == (\E ks \in Lists : ConfigSave(ks)) \/ ImportEnds

\* The two lists of positions divide the keys among them, and only positions
\* that come from another list of keys can disturb that: those of a ban that
\* comes too late, of an import, and those the configuration page leaves.
StaysPartition == [][Partition => Partition' \/ StaleBan \/ ForeignPositions]_tableVars

\* A key keeps its status and its reason when others are added, replaced or
\* deleted, although all of these are kept by position.
Moves == (\E ks \in Lists : AddKeys(ks) \/ Override(ks)) \/ \E i \in Places : Delete(i)
StatusFollowsKey ==
    [][Moves =>
         \A k \in ApiKeys :
            Unique(k) /\ Unique(k)' => (Off(k)' <=> Off(k)) /\ StateOf(k)' = StateOf(k)]_tableVars

\* A ban turns off the key whose call failed and no other:
\* "自动禁用该密钥" (assembly_client.py:1893).
BanHitsCaller ==
    [][\A r \in Callers : Ban(r) =>
         \A k \in ApiKeys : Off(k)' /\ ~ Off(k) => k = list[r][at[r]]]_tableVars
=============================================================================
