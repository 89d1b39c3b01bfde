------------------------------- MODULE DiffCmd -------------------------------
(***************************************************************************)
(* "jiri diff" of two snapshots (cmd/jiri/diff.go): what is new, deleted   *)
(* and updated from the first to the second, and for an updated project    *)
(* the changes between its two revisions, which workers ask Gerrit for one *)
(* by one, from the new revision back.                                     *)
(***************************************************************************)
EXTENDS Naturals, FiniteSets, SequencesExt

CONSTANTS Snapshots,   \* pairs of sets of [name, remote, path, rev, gerrit]
          Normal,      \* remote |-> what rewriteAndNormalizeRemote makes of it
          Histories,   \* revision |-> the set of its parents, for those Gerrit has a change for
          MaxCls,      \* -max-cls
          Jobs

VARIABLES first,       \* the first snapshot as it was read
          old, new,    \* the two snapshots, key |-> project, the first one matched with the second
          history,     \* what Gerrit knows of the revisions
          withCls,     \* -cls
          deleted, added, \* the keys reported as such
          updatedKeys, \* what is in the channel of keys, in the order of a map
          worker,      \* job |-> what it is about to report, or Idle
          updated      \* the channel of the updated projects

diffVars == <<first, old, new, history, withCls, deleted, added, updatedKeys, worker, updated>>

Key(p) == [name |-> p.name, remote |-> p.remote]

\* A snapshot has one project of a key and, as jiri writes it, one at a path.
ASSUME DiffAssumption ==
  /\ MaxCls \in Nat
  /\ \A h \in Histories : \A r \in DOMAIN h : IsFiniteSet(h[r])
  /\ \A pair \in Snapshots : \A i \in {1, 2} :
       /\ IsFiniteSet(pair[i])
       /\ \A p, q \in pair[i] : p # q => Key(p) # Key(q) /\ p.path # q.path

ByKey(S) == [k \in {Key(p) : p \in S} |-> CHOOSE p \in S : Key(p) = k]

\* MatchLocalWithRemote: a project of the first snapshot whose key the second one
\* does not have gets the key of the new project at its path with its name or remote.
Renamed(from, to, k) ==
  {r \in DOMAIN to \ DOMAIN from :
     /\ k \notin DOMAIN to
     /\ from[k].path = to[r].path
     /\ from[k].name = to[r].name \/ Normal[from[k].remote] = Normal[to[r].remote]}
NewKey(from, to, k) == IF Renamed(from, to, k) = {} THEN k ELSE CHOOSE r \in Renamed(from, to, k) : TRUE
MatchLocalWithRemote(from, to) ==
  [n \in {NewKey(from, to, k) : k \in DOMAIN from} |->
     from[CHOOSE k \in DOMAIN from : NewKey(from, to, k) = n]]

Idle == [key |-> {}, cls |-> <<>>, at |-> 0, error |-> FALSE]

\* getDiff up to the start of the workers.
Changed(from, to, k) == from[k].path # to[k].path \/ from[k].rev # to[k].rev
getDiff ==
  \E pair \in Snapshots :
    LET to == ByKey(pair[2])
        from == MatchLocalWithRemote(ByKey(pair[1]), to)
    IN  /\ first = pair[1] /\ old = from /\ new = to
        /\ history \in Histories /\ withCls \in BOOLEAN
        /\ deleted = DOMAIN from \ DOMAIN to
        /\ added = DOMAIN to \ DOMAIN from
        /\ updatedKeys = {k \in DOMAIN from \cap DOMAIN to : Changed(from, to, k)}
        /\ worker = [j \in Jobs |-> Idle]
        /\ updated = <<>>

\* processUpdatedProject begins with the new revision and asks for no change without
\* a Gerrit host or when only the path differs.  Without -cls it is at the end at once.
Take(j, k) ==
  /\ worker[j] = Idle
  /\ worker' = [worker EXCEPT ![j] =
       [key |-> {k}, cls |-> <<>>, at |-> IF withCls THEN new[k].rev ELSE old[k].rev,
        error |-> withCls /\ old[k].rev # new[k].rev /\ ~new[k].gerrit]]
  /\ updatedKeys' = updatedKeys \ {k}
  /\ UNCHANGED <<first, old, new, history, withCls, deleted, added, updated>>

KeyOf(task) == CHOOSE k \in task.key : TRUE

\* Mutant: the number of changes is compared after one more.
MoreToAskLate(task) ==
  LET k == KeyOf(task) IN
    task.at # old[k].rev /\ ~task.error /\ Len(task.cls) <= MaxCls

MoreToAsk(task) ==
  LET k == KeyOf(task) IN
    task.at # old[k].rev /\ ~task.error /\ Len(task.cls) < MaxCls

\* One round of the loop: ListChangesByCommit, which may fail, and the step to the
\* parent.  Without a parent, or with several, the change is listed and the walk ends.
\* The query goes to the host of the project in the first snapshot.
Failed(task) == [task EXCEPT !.error = TRUE]
Listed(task) == [task EXCEPT !.cls = Append(@, task.at)]
AskChange(j) ==
  LET task == worker[j] IN
    /\ task # Idle /\ MoreToAsk(task)
    /\ \/ worker' = [worker EXCEPT ![j] = Failed(task)]
       \/ /\ old[KeyOf(task)].gerrit /\ task.at \in DOMAIN history
          /\ worker' = [worker EXCEPT ![j] =
               IF Cardinality(history[task.at]) # 1 THEN Failed(Listed(task))
               ELSE [Listed(task) EXCEPT !.at = CHOOSE r \in history[task.at] : TRUE]]
    /\ UNCHANGED <<first, old, new, history, withCls, deleted, added, updatedKeys, updated>>

\* The project goes to the channel, which has room for every updated project.
Report(j) ==
  LET task == worker[j] IN
    /\ task # Idle /\ ~MoreToAsk(task)
    /\ updated' = Append(updated,
         [key |-> KeyOf(task), cls |-> task.cls, error |-> task.error,
          hasMoreCls |-> task.at # old[KeyOf(task)].rev /\ ~task.error])
    /\ worker' = [worker EXCEPT ![j] = Idle]
    /\ UNCHANGED <<first, old, new, history, withCls, deleted, added, updatedKeys>>

Done == updatedKeys = {} /\ \A j \in Jobs : worker[j] = Idle

DiffNext == \E j \in Jobs : (\E k \in updatedKeys : Take(j, k)) \/ AskChange(j) \/ Report(j)
DiffSpec == getDiff /\ [][DiffNext]_diffVars
-------------------------------------------------------------------------------
Reports(k) == {i \in DOMAIN updated : updated[i].key = k}

\* The changes listed lead from the new revision back, each to the parent of the
\* one before it; without an error they lead to the old one or there are more.  Without
\* -cls there are none, and no error.
Chain(u) ==
  LET cls == u.cls
      from == old[u.key].rev
      to == new[u.key].rev
  IN  /\ Len(cls) <= MaxCls
      /\ cls # <<>> => Head(cls) = to
      /\ \A i \in 2..Len(cls) : history[cls[i - 1]] = {cls[i]}
      /\ \A i \in DOMAIN cls : cls[i] # from
      /\ ~withCls => cls = <<>> /\ ~u.error /\ ~u.hasMoreCls
      /\ u.hasMoreCls => ~u.error /\ Len(cls) = MaxCls
      /\ ~u.error /\ ~u.hasMoreCls => IF cls = <<>> THEN withCls => from = to ELSE history[Last(cls)] = {from}

\* Every project of either snapshot is reported once, as deleted, new or updated,
\* unless it is the same in both; one that only changed its name or its remote at
\* its path is not taken for a deleted and a new one; and an updated one comes with
\* exactly the changes between its revisions, up to the maximum.
DiffRight ==
  /\ \A d \in deleted, a \in added :
       old[d].path = new[a].path =>
         old[d].name # new[a].name /\ Normal[old[d].remote] # Normal[new[a].remote]
  /\ Done =>
       /\ \A k \in DOMAIN old \cup DOMAIN new :
            Cardinality(Reports(k)) =
              IF k \in DOMAIN old \cap DOMAIN new /\ Changed(old, new, k) THEN 1 ELSE 0
       /\ Cardinality(first) + Cardinality(added) = Cardinality(DOMAIN new) + Cardinality(deleted)
       /\ \A i \in DOMAIN updated : Chain(updated[i])
===============================================================================
