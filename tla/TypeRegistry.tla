---------------------------- MODULE TypeRegistry ----------------------------
(***************************************************************************)
(* The engine-wide registry of canonical types (runtime/type_registry.rs). *)
(*                                                                         *)
(* A rec group is abstracted to a shape with the shapes it refers to, its  *)
(* supertype and its trampoline type, and to one type, hence one shared    *)
(* type index.  Everything that writes the maps runs under the write lock; *)
(* the registration counts are atomics that RegisteredType's clone and     *)
(* drop change without it, so a critical section is split into the steps   *)
(* between which such a change can fall.  An allocation may fail wherever  *)
(* the code propagates OutOfMemory.  The Rust assertions are the invariant *)
(* AssertsHold, not guards.                                                *)
(***************************************************************************)
EXTENDS Integers, SequencesExt, FiniteSetsExt

CONSTANTS
  Threads,
  Shapes,        \* what rec groups look like, up to canonicalization
  Refs,          \* Refs[s]: the shapes s refers to, one per occurrence
  Super,         \* Super[s]: the supertype of s, one of Refs[s], or Nil
  Trampoline,    \* Trampoline[s]: the trampoline type of s, Nil if s is its own
  Programs,      \* what the threads register: `shapes` one by one, `modules` (sequences of
                 \* shapes, each after the shapes it refers to), and `max_held`, a bound
                 \* on the RegisteredTypes of one thread for one entry
  Idx,           \* VMSharedTypeIndex: ids of the slab of types
  MaxEntries,    \* RecGroupEntry allocations that can exist at once
  Nil

Entries == 1..MaxEntries

ASSUME TypeRegistryAssumption ==
  /\ Nil \notin Threads \cup Shapes \cup Idx /\ IsFiniteSet(Threads)
  /\ MaxEntries \in Nat /\ Nil \notin Entries
  /\ Refs \in [Shapes -> Seq(Shapes)]
  /\ Super \in [Shapes -> Shapes \cup {Nil}] /\ Trampoline \in [Shapes -> Shapes \cup {Nil}]
  /\ \A s \in Shapes : /\ Super[s] # Nil => Super[s] \in ToSet(Refs[s])
                       /\ Trampoline[s] # Nil => /\ Trampoline[Trampoline[s]] = Nil
                                                 /\ Refs[Trampoline[s]] = <<>>
  /\ \A p \in Programs : /\ p.shapes \subseteq Shapes /\ p.max_held \in Nat
                         /\ \A m \in p.modules : ToSet(m) \subseteq p.shapes

VARIABLES
  program,       \* one of Programs, for the whole behaviour
  \* RecGroupEntryInner; shape and refs are the hash_consing_key
  shape, refs, index, registrations, unregistered,
  \* TypeRegistryInner
  lock, hash_consing_map, types, type_to_rec_group, type_to_supertypes,
  type_to_trampoline, drop_stack,
  work,          \* calls in progress of the lock holder, innermost last
  \* threads
  pc, todo,      \* shapes still to be registered by the call in progress
  single,        \* the call is RegisteredType::new
  got,           \* its entries so far, or the entries being released
  held,          \* held[t][e]: number of RegisteredTypes
  coll           \* the rec_groups of the thread's TypeCollection

entry    == <<shape, refs, index>>
counts   == <<registrations, unregistered>>
registry == <<hash_consing_map, types, type_to_rec_group, type_to_supertypes, type_to_trampoline>>
owned    == <<held, coll>>
vars     == <<program, entry, counts, registry, lock, drop_stack, work, pc, todo, single, got, owned>>

Init ==
  /\ program \in Programs
  /\ shape = [e \in Entries |-> Nil] /\ refs = [e \in Entries |-> <<>>]
  /\ index = [e \in Entries |-> Nil]
  /\ registrations = [e \in Entries |-> 0] /\ unregistered = [e \in Entries |-> FALSE]
  /\ lock = Nil /\ hash_consing_map = {} /\ types = {}
  /\ type_to_rec_group = [i \in Idx |-> Nil] /\ type_to_supertypes = [i \in Idx |-> <<>>]
  /\ type_to_trampoline = [i \in Idx |-> Nil]
  /\ drop_stack = <<>> /\ work = <<>>
  /\ pc = [t \in Threads |-> "idle"] /\ todo = [t \in Threads |-> <<>>]
  /\ single = [t \in Threads |-> FALSE] /\ got = [t \in Threads |-> <<>>]
  /\ held = [t \in Threads |-> [e \in Entries |-> 0]] /\ coll = [t \in Threads |-> <<>>]

-----------------------------------------------------------------------------
Occurs(x, s) == Cardinality({k \in DOMAIN s : s[k] = x})
HeldBy(t) == {e \in Entries : held[t][e] > 0}
Owned(t) == HeldBy(t) \cup ToSet(coll[t])

\* The entries a hash consing key refers to, one per occurrence.
Targets(r) == [k \in DOMAIN r |-> type_to_rec_group[r[k]]]

\* Entries in a rec group map, and those some call still has an Arc of.
Linked == {type_to_rec_group[i] : i \in Idx} \ {Nil}
Allocated == Linked \cup UNION {ToSet(got[t]) : t \in Threads}
NewEntry(used) == Min(Entries \ (Allocated \cup used))

Goto(t, from, to) == pc[t] = from /\ pc' = [pc EXCEPT ![t] = to]
Acquire(t) == lock = Nil /\ lock' = t
Incref(e) == registrations' = [registrations EXCEPT ![e] = @ + 1]

\* decref of one more entry, with push_to_drop_stack when it reaches zero.
DecrefPush(acc, e) ==
  [regs  |-> [acc.regs EXCEPT ![e] = @ - 1],
   stack |-> IF acc.regs[e] = 1 THEN Append(acc.stack, e) ELSE acc.stack]

DecrefAll(es) ==
  LET acc == FoldLeft(DecrefPush, [regs |-> registrations, stack |-> drop_stack], es) IN
  registrations' = acc.regs /\ drop_stack' = acc.stack

\* The hash consing key of shape s: references are engine indices, looked up among the
\* groups registered so far (module) or the types the caller holds (singleton).
KeyRefs(t, s) ==
  LET known == IF single[t] THEN HeldBy(t) ELSE ToSet(got[t])
  IN  [k \in DOMAIN Refs[s] |-> index[CHOOSE e \in known : shape[e] = Refs[s][k]]]

\* hash_consing_map.get
Lookup(s, r) == {e \in hash_consing_map : shape[e] = s /\ refs[e] = r}

\* is_subtype and is_subtype_slow
IsSubtype(sub, sup) ==
  \/ sub = sup
  \/ LET d == Len(type_to_supertypes[sup]) + 1
     IN  d \in DOMAIN type_to_supertypes[sub] /\ type_to_supertypes[sub][d] = sup

-----------------------------------------------------------------------------
(* RegisteredType::new and register_and_canonicalize_types *)

\* Take the write lock.  The types a new singleton refers to are held by the caller.
Register(t, ss, one) ==
  /\ Goto(t, "idle", "register") /\ Acquire(t)
  /\ IF one THEN /\ ToSet(Refs[ss[1]]) \subseteq {shape[e] : e \in HeldBy(t)}
                 /\ \A e \in Entries : held[t][e] < program.max_held
            ELSE coll[t] = <<>>
  /\ todo' = [todo EXCEPT ![t] = ss]
  /\ single' = [single EXCEPT ![t] = one]
  /\ UNCHANGED <<program, entry, counts, registry, drop_stack, work, got, owned>>

\* register_rec_group, when the group is already registered.
RegisterHit(t) ==
  /\ pc[t] = "register" /\ todo[t] # <<>>
  /\ \E e \in Lookup(Head(todo[t]), KeyRefs(t, Head(todo[t]))) :
       /\ Incref(e)
       /\ got' = [got EXCEPT ![t] = Append(@, e)]
  /\ todo' = [todo EXCEPT ![t] = Tail(@)]
  /\ UNCHANGED <<program, entry, unregistered, registry, lock, drop_stack, work, pc, single, owned>>

\* The entry and index of the trampoline type of s: found, or allocated next.
TrampolineEntry(s, e, i) ==
  IF Trampoline[s] = Nil THEN {<<Nil, Nil>>}
  ELSE LET hit == Lookup(Trampoline[s], <<>>) IN
       IF hit # {} THEN {<<h, index[h]>> : h \in hit}
       ELSE {<<NewEntry({e}), j>> : j \in Idx \ (types \cup {i})}

\* Mutant: only the direct supertype is recorded.
DirectSupertype(s, r) ==
  IF Super[s] = Nil THEN <<>> ELSE <<r[CHOOSE k \in DOMAIN r : Refs[s][k] = Super[s]]>>

\* insert_entry_supertypes: the supertype's list, then the supertype.
Supertypes(s, r) ==
  IF Super[s] = Nil THEN <<>>
  ELSE LET sup == r[CHOOSE k \in DOMAIN r : Refs[s][k] = Super[s]]
       IN  Append(type_to_supertypes[sup], sup)

\* Mutant: a group that is referred to twice is counted once.
CountOnce(r, te, e, n) ==
  registrations' = [x \in Entries |-> registrations[x] + (IF x \in ToSet(Targets(r)) THEN 1 ELSE 0)
                                      + (IF x = te THEN 1 ELSE 0) + (IF x = e THEN n ELSE 0)]

\* incref_outgoing_edges, the trampoline's reference, and n for the creation.
CountNew(r, te, e, n) ==
  registrations' = [x \in Entries |-> registrations[x] + Occurs(x, Targets(r))
                                      + (IF x = te THEN 1 ELSE 0) + (IF x = e THEN n ELSE 0)]

\* What register_new_rec_group has written once it reaches `stage`: "types" (types, rec
\* group and supertypes), "late" (trampolines too) or "done".
Insert(e, s, r, stage) ==
  \E i \in Idx \ types :
  \E tr \in IF stage = "types" THEN {<<Nil, Nil>>} ELSE TrampolineEntry(s, e, i) :
    LET te == tr[1]  j == tr[2]  fresh == te # Nil /\ te \notin Allocated
        made == IF fresh THEN {e, te} ELSE {e}
    IN
    /\ shape' = [x \in Entries |-> IF x = e THEN s
                                   ELSE IF x = te THEN Trampoline[s] ELSE shape[x]]
    /\ refs' = [x \in Entries |-> IF x = e THEN r ELSE IF x = te THEN <<>> ELSE refs[x]]
    /\ unregistered' = [x \in Entries |-> unregistered[x] /\ x \notin made]
    /\ index' = [x \in Entries |-> IF x = e THEN i ELSE IF x = te THEN j ELSE index[x]]
    /\ CountNew(r, te, e, IF stage = "done" THEN 1 ELSE 0)
    /\ types' = types \cup {index'[x] : x \in made}
    /\ type_to_rec_group' = [k \in Idx |-> IF k = i THEN e ELSE IF fresh /\ k = j THEN te
                                           ELSE type_to_rec_group[k]]
    /\ type_to_supertypes' = [type_to_supertypes EXCEPT ![i] = Supertypes(s, r)]
    /\ type_to_trampoline' = [type_to_trampoline EXCEPT ![i] = j]
    /\ hash_consing_map' = hash_consing_map \cup (IF stage = "done" THEN made ELSE made \ {e})
    /\ UNCHANGED <<program, lock, drop_stack, single, owned>>

\* register_new_rec_group succeeds.
RegisterNew(t) ==
  /\ pc[t] = "register" /\ todo[t] # <<>>
  /\ LET s == Head(todo[t])  r == KeyRefs(t, s)  e == NewEntry({}) IN
     /\ Lookup(s, r) = {}
     /\ Insert(e, s, r, "done")
     /\ got' = [got EXCEPT ![t] = Append(@, e)]
  /\ todo' = [todo EXCEPT ![t] = Tail(@)]
  /\ UNCHANGED <<work, pc>>

\* It runs out of memory after the Undo guard exists: remove_entry_impl rolls back.
RegisterUndo(t, stage) ==
  /\ Goto(t, "register", "release") /\ todo[t] # <<>>
  /\ LET s == Head(todo[t])  r == KeyRefs(t, s)  e == NewEntry({}) IN
     /\ Lookup(s, r) = {}
     /\ Insert(e, s, r, stage)
     /\ work' = <<[op |-> "remove", e |-> e]>>
  /\ todo' = [todo EXCEPT ![t] = <<>>]
  /\ UNCHANGED got

\* It runs out of memory before anything is written.
RegisterOom(t) ==
  /\ Goto(t, "register", "release") /\ todo[t] # <<>>
  /\ todo' = [todo EXCEPT ![t] = <<>>]
  /\ UNCHANGED <<program, entry, counts, registry, lock, drop_stack, work, single, got, owned>>

\* All groups are registered: unlock, and for a singleton make the RegisteredType.
Registered(t) ==
  /\ todo[t] = <<>> /\ lock' = Nil
  /\ IF single[t]
     THEN /\ Goto(t, "register", "idle")
          /\ held' = [held EXCEPT ![t][got[t][1]] = @ + 1]
          /\ got' = [got EXCEPT ![t] = <<>>]
     ELSE Goto(t, "register", "build") /\ UNCHANGED <<held, got>>
  /\ UNCHANGED <<program, entry, counts, registry, drop_stack, work, todo, single, coll>>

\* Build the trampoline map under read locks: commit, or fail and run the Undo guard.
Build(t) ==
  /\ lock = Nil
  /\ \/ /\ Goto(t, "build", "idle")
        /\ coll' = [coll EXCEPT ![t] = got[t]]
        /\ got' = [got EXCEPT ![t] = <<>>]
     \/ Goto(t, "build", "undo") /\ UNCHANGED <<coll, got>>
  /\ UNCHANGED <<program, entry, counts, registry, lock, drop_stack, work, todo, single, held>>

UndoLock(t) ==
  /\ Goto(t, "undo", "release") /\ Acquire(t)
  /\ UNCHANGED <<program, entry, counts, registry, drop_stack, work, todo, single, got, owned>>

-----------------------------------------------------------------------------
(* Removing entries, under the write lock *)

\* Mutant: race (1) is not handled.
UnregisterResurrected(e, regs) ==
  IF ~unregistered[e]
  THEN drop_stack' = Append(drop_stack, e) /\ work' = <<[op |-> "drain", e |-> Nil]>>
  ELSE UNCHANGED <<drop_stack, work>>

\* Mutant: race (2) is not handled.
UnregisterTwice(e, regs) ==
  IF regs = 0
  THEN drop_stack' = Append(drop_stack, e) /\ work' = <<[op |-> "drain", e |-> Nil]>>
  ELSE UNCHANGED <<drop_stack, work>>

\* unregister_entry, when the count is now regs.
UnregisterEntry(e, regs) ==
  IF regs = 0 /\ ~unregistered[e]
  THEN drop_stack' = Append(drop_stack, e) /\ work' = <<[op |-> "drain", e |-> Nil]>>
  ELSE UNCHANGED <<drop_stack, work>>

Working(t, op) == lock = t /\ work # <<>> /\ Last(work).op = op

\* Mutant: the entry is read and stays on the stack.
DrainPeeks(t) ==
  /\ Working(t, "drain")
  /\ IF drop_stack = <<>>
     THEN work' = Front(work)
     ELSE work' = Append(work, [op |-> "remove", e |-> Last(drop_stack)])
  /\ UNCHANGED <<program, entry, counts, registry, lock, drop_stack, pc, todo, single, got, owned>>

\* One iteration of drain_drop_stack.
Drain(t) ==
  /\ Working(t, "drain")
  /\ IF drop_stack = <<>>
     THEN work' = Front(work) /\ UNCHANGED drop_stack
     ELSE /\ work' = Append(work, [op |-> "remove", e |-> Last(drop_stack)])
          /\ drop_stack' = Front(drop_stack)
  /\ UNCHANGED <<program, entry, counts, registry, lock, pc, todo, single, got, owned>>

\* remove_entry_impl up to remove_entry_trampolines, which drains the drop stack.
Remove1(t) ==
  LET e == Last(work).e  tramp == type_to_trampoline[index[e]] IN
  /\ Working(t, "remove")
  /\ unregistered' = [unregistered EXCEPT ![e] = TRUE]
  /\ hash_consing_map' = hash_consing_map \ {e}
  /\ type_to_trampoline' = [type_to_trampoline EXCEPT ![index[e]] = Nil]
  /\ DecrefAll(IF tramp = Nil THEN <<>> ELSE <<type_to_rec_group[tramp]>>)
  /\ work' = Front(work) \o <<[op |-> "finish", e |-> e], [op |-> "drain", e |-> Nil]>>
  /\ UNCHANGED <<program, entry, types, type_to_rec_group, type_to_supertypes, lock, pc, todo, single, got, owned>>

\* Nobody looks at the key and the indices of an unregistered entry.
Forget(e) ==
  /\ shape' = [shape EXCEPT ![e] = Nil] /\ refs' = [refs EXCEPT ![e] = <<>>]
  /\ index' = [index EXCEPT ![e] = Nil]

\* The rest of remove_entry_impl; decref_outgoing_edges drains again.
Remove2(t) ==
  LET e == Last(work).e IN
  /\ Working(t, "finish")
  /\ types' = types \ {index[e]}
  /\ type_to_rec_group' = [type_to_rec_group EXCEPT ![index[e]] = Nil]
  /\ type_to_supertypes' = [type_to_supertypes EXCEPT ![index[e]] = <<>>]
  /\ DecrefAll(Targets(refs[e]))
  /\ work' = Append(Front(work), [op |-> "drain", e |-> Nil])
  /\ Forget(e)
  /\ UNCHANGED <<program, unregistered, hash_consing_map, type_to_trampoline, lock, pc, todo, single, got, owned>>

\* One entry of unregister_type_collection, of the cleanup of register_module_types
\* or of the Undo of register_and_canonicalize_types.
Release(t) ==
  /\ pc[t] = "release" /\ lock = t /\ work = <<>> /\ got[t] # <<>>
  /\ LET e == Head(got[t]) IN
     /\ registrations' = [registrations EXCEPT ![e] = @ - 1]
     /\ UnregisterEntry(e, registrations[e] - 1)
  /\ got' = [got EXCEPT ![t] = Tail(@)]
  /\ UNCHANGED <<program, entry, unregistered, registry, lock, pc, todo, single, owned>>

Released(t) ==
  /\ work = <<>> /\ got[t] = <<>> /\ lock = t
  /\ Goto(t, "release", "idle") /\ lock' = Nil
  /\ UNCHANGED <<program, entry, counts, registry, drop_stack, work, todo, single, got, owned>>

-----------------------------------------------------------------------------
(* Handles *)

\* RegisteredType::try_clone, without the lock.
TryClone(t, e) ==
  /\ pc[t] = "idle" /\ held[t][e] \in 1..program.max_held - 1
  /\ Incref(e)
  /\ held' = [held EXCEPT ![t][e] = @ + 1]
  /\ UNCHANGED <<program, entry, unregistered, registry, lock, drop_stack, work, pc, todo, single, got, coll>>

\* RegisteredType::root, under the read lock, of an index the caller keeps alive.
Root(t, i) ==
  /\ pc[t] = "idle" /\ lock = Nil
  /\ \E e \in Owned(t) : i = index[e] \/ i \in ToSet(refs[e]) \/ i = type_to_trampoline[index[e]]
  /\ LET e == type_to_rec_group[i] IN
     /\ held[t][e] < program.max_held
     /\ Incref(e)
     /\ held' = [held EXCEPT ![t][e] = @ + 1]
  /\ UNCHANGED <<program, entry, unregistered, registry, lock, drop_stack, work, pc, todo, single, got, coll>>

\* RegisteredType::drop: decref without the lock; the one that reaches zero locks.
DropHandle(t, e) ==
  /\ held[t][e] > 0
  /\ held' = [held EXCEPT ![t][e] = @ - 1]
  /\ registrations' = [registrations EXCEPT ![e] = @ - 1]
  /\ IF registrations[e] = 1
     THEN Goto(t, "idle", "drop") /\ got' = [got EXCEPT ![t] = <<e>>]
     ELSE Goto(t, "idle", "idle") /\ UNCHANGED got
  /\ UNCHANGED <<program, entry, unregistered, registry, lock, drop_stack, work, todo, single, coll>>

DropLock(t) ==
  /\ Goto(t, "drop", "release") /\ Acquire(t)
  /\ UnregisterEntry(got[t][1], registrations[got[t][1]])
  /\ got' = [got EXCEPT ![t] = <<>>]
  /\ UNCHANGED <<program, entry, counts, registry, todo, single, owned>>

\* TypeCollection::drop
DropCollection(t) ==
  /\ Goto(t, "idle", "release") /\ Acquire(t) /\ coll[t] # <<>>
  /\ got' = [got EXCEPT ![t] = coll[t]]
  /\ coll' = [coll EXCEPT ![t] = <<>>]
  /\ UNCHANGED <<program, entry, counts, registry, drop_stack, work, todo, single, held>>

-----------------------------------------------------------------------------
\* Steps of a thread inside a call.
Step(t) ==
  \/ RegisterHit(t) \/ RegisterNew(t) \/ RegisterOom(t)
  \/ \E stage \in {"types", "late"} : RegisterUndo(t, stage)
  \/ Registered(t) \/ Build(t) \/ UndoLock(t) \/ DropLock(t)
  \/ Drain(t) \/ Remove1(t) \/ Remove2(t) \/ Release(t) \/ Released(t)

Call(t) ==
  \/ \E s \in program.shapes : Register(t, <<s>>, TRUE)
  \/ \E m \in program.modules : Register(t, m, FALSE)
  \/ \E e \in Entries : TryClone(t, e) \/ DropHandle(t, e)
  \/ \E i \in Idx : Root(t, i)
  \/ DropCollection(t)

Next == \E t \in Threads : Step(t) \/ Call(t)
Spec == Init /\ [][Next]_vars

-----------------------------------------------------------------------------
(* Properties *)

TypeOK ==
  /\ shape \in [Entries -> Shapes \cup {Nil}]
  /\ refs \in [Entries -> Seq(Idx)] /\ index \in [Entries -> Idx \cup {Nil}]
  /\ registrations \in [Entries -> Nat] /\ unregistered \in [Entries -> BOOLEAN]
  /\ lock \in Threads \cup {Nil} /\ hash_consing_map \subseteq Entries /\ types \subseteq Idx
  /\ type_to_rec_group \in [Idx -> Entries \cup {Nil}]
  /\ type_to_supertypes \in [Idx -> Seq(Idx)] /\ type_to_trampoline \in [Idx -> Idx \cup {Nil}]
  /\ drop_stack \in Seq(Entries)
  /\ work \in Seq([op : {"drain", "remove", "finish"}, e : Entries \cup {Nil}])
  /\ pc \in [Threads -> {"idle", "register", "build", "undo", "drop", "release"}]
  /\ todo \in [Threads -> Seq(Shapes)] /\ single \in [Threads -> BOOLEAN]
  /\ got \in [Threads -> Seq(Entries)] /\ coll \in [Threads -> Seq(Entries)]
  /\ held \in [Threads -> [Entries -> 0..program.max_held]]
  /\ program \in Programs

\* Registrations that are somebody's: RegisteredTypes, TypeCollections, calls in progress.
Claims(t) == IF pc[t] = "drop" THEN <<>> ELSE got[t]
Owners(e) ==
  LET of(t) == held[t][e] + Occurs(e, coll[t]) + Occurs(e, Claims(t))
  IN  MapThenSumSet(of, Threads)
\* Registrations for the references of other entries and for their trampolines.
Edges(e) ==
  LET of(f) == Occurs(e, Targets(refs[f])) IN
  MapThenSumSet(of, Linked) + Cardinality({i \in Idx : type_to_trampoline[i] = index[e]})

\* The Drop of TypeRegistryInner in debug builds: once nobody owns anything and no call
\* is in progress, every map is empty.
EmptyAtEnd ==
  (\A t \in Threads : pc[t] = "idle" /\ Owned(t) = {}) =>
    /\ hash_consing_map = {} /\ types = {} /\ Linked = {} /\ drop_stack = <<>>
    /\ \A i \in Idx : type_to_supertypes[i] = <<>> /\ type_to_trampoline[i] = Nil

\* The count of every entry in the registry is exact at every step, also during a
\* rollback and between two steps of a drop: neither a leak nor an early removal.  So
\* the registry is empty when the last owner is gone.
RefCounts ==
  /\ TypeOK
  /\ \A e \in Linked : registrations[e] = Owners(e) + Edges(e)
  /\ EmptyAtEnd

\* The assertions of register_rec_group, incref/decref_outgoing_edges, remove_entry_impl
\* and drain_drop_stack, and the expect of push_to_drop_stack: an entry that is about to
\* be removed has no registrations, is removed once, and only refers to live entries.
AssertsHold ==
  LET doomed == drop_stack \o [k \in DOMAIN SelectSeq(work, LAMBDA w : w.op = "remove") |->
                                 SelectSeq(work, LAMBDA w : w.op = "remove")[k].e]
  IN  /\ \A e \in ToSet(doomed) : /\ registrations[e] = 0 /\ ~unregistered[e]
                                   /\ type_to_rec_group[index[e]] = e
      /\ Cardinality(ToSet(doomed)) = Len(doomed)
      /\ \A e \in hash_consing_map : ~unregistered[e] /\ type_to_rec_group[index[e]] = e
      /\ \A e \in Linked :
           /\ \A k \in DOMAIN refs[e] : /\ Targets(refs[e])[k] # Nil
                                         /\ ~unregistered[Targets(refs[e])[k]]
           /\ LET tramp == type_to_trampoline[index[e]] IN
              tramp # Nil => /\ type_to_rec_group[tramp] # Nil
                             /\ ~unregistered[type_to_rec_group[tramp]]

\* "Prevents its associated type from being unregistered while it is alive": whatever a
\* thread holds is in the registry under the index it was given, also when others drop,
\* unregister and reuse indices.
HandlesResolve ==
  \A t \in Threads : \A e \in Owned(t) \cup ToSet(Claims(t)) :
    type_to_rec_group[index[e]] = e /\ e \in hash_consing_map

\* Indices stand for types although they are reused: one entry, and one index, for one
\* shape, and the constant-time subtype test agrees with the declared supertypes for all
\* types that can be asked about.
Canonical ==
  LET above[s \in Shapes] == {s} \cup (IF Super[s] = Nil THEN {} ELSE above[Super[s]]) IN
  \A e, f \in hash_consing_map :
    /\ e = f <=> shape[e] = shape[f]
    /\ e = f <=> index[e] = index[f]
    /\ IsSubtype(index[e], index[f]) <=> shape[f] \in above[shape[e]]

\* What drain_drop_stack still has to do: an entry of the hash consing map costs more
\* than the calls that remove it, and each call more than those it is replaced by.
Effort ==
  LET removing == {w.e : w \in {v \in ToSet(work) : v.op = "remove"}}
      cost == [remove |-> 4, finish |-> 2, drain |-> 1]
      add(acc, w) == acc + cost[w.op]
  IN  FoldLeft(add, 5 * Cardinality(hash_consing_map \ removing), work)

\* Draining the drop stack ends, and with it the critical section, although removing an
\* entry pushes the entries it referred to and drains recursively: every step of it
\* leaves less to do, and nobody else adds to it meanwhile.
DrainTerminates ==
  [][work # <<>> => Effort' < Effort \/ UNCHANGED <<work, drop_stack>>]_vars
=============================================================================
