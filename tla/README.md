# Verification of Ref::Store

Ref::Store is a Perl table whose lookups clean up after themselves: a value is
stored under keys (one value each) and attributes (many values each), both of
which may be strings or objects, and an entry disappears when its value or the
object it is looked up by is destroyed. The default backend is written in C and
works from perl's own destruction of objects: extension magic on every object
of interest holds a list of *actions*, and freeing the object runs them.

A second backend, in Perl, does without and sweeps. This directory holds TLA+
modules of both, TLC configurations that
check them on small instances, and proofs, checked by TLAPS, that hold for every
value of the constants. Paths below are relative to the repository; `XS/C` files
are at its root, `Store.pm` is `lib/Ref/Store.pm`.

## 1. Inventory

| Component | State | Operations | Modules |
|---|---|---|---|
| Action lists, `hreg.c` | per scalar, a linked list of `HR_Action` (container, key, kind) | `HR_add_action`, `HR_del_action`, `HR_nullify_action`, `HR_trigger_and_free_actions` | `BackDelete`, `ActionList` |
| Magic, `hr_pl.c` | per scalar, one magic with the head of the list and the `OURMAGIC_infree` flag | `get_our_magic`, `HR_add_actions_real`, the deletions, `hr_freehook` | `ActionList`, `RefStoreXS` |
| Keepalive, `hrpriv.h` | a saved count on the C stack, a fake one in the scalar | `refcnt_ka_begin`, `refcnt_ka_end` | `KeepAlive` |
| Keys, `hr_hrimpl.c` | `scalar_lookup`, `forward`, key objects | `ukey2ikey`, `HRA_store_sk`, `HRA_fetch_sk`, `k_encap_cleanup`, `encap_destroy_hook` | `RefStoreXS` |
| Attributes, `hr_implattr.c` | `attr_lookup`, attribute objects with their `attrhash` | `attr_get`, `HRA_store_a`, `HRA_fetch_a`, `HRA_dissoc_a`, `HRA_unlink_a`, `attr_destroy_trigger`, `encap_attr_destroy_hook` | `RefStoreXS` |
| Reverse table, `hrpriv.h`, `Store.pm` | `reverse`: per value, its vhash of keys and attributes | `insert_into_vhash`, `purge`, `unlink_sk`, `purgeby_sk`, `purgeby_a` | `RefStoreXS`, `Store` |
| End of a table, `Store.pm` | `@values`, and perl's stack | `DESTROY` | `RefStoreXS`, `Store` |
| Thread cloning, `Store.pm`, `hr_duputil.h`, the postdup functions of the C files | `%CloneAddrs` | `CLONE_SKIP` with `ithread_predup`, `CLONE` with `ithread_postdup`, `hr_duphook` | `ThreadClone` |
| Iterator, `Store.pm` | perl's `each` state | `iterinit`, `iter`, `iterdone` | not modelled |
| PP backend, `PP.pm`, `PP/Magic.pm` | Variable::Magic triggers | register, unregister, fire | not modelled |
| Sweeping backend, `Sweeping.pm` | the same hashes, a call counter | the wrapped API, `sweep` | `Sweeping` |
| Typed keys, `Feature/KeyTyped.pm` | registered prefixes | a prefix is joined to the key | not modelled |
| Glue, dumper, example | none of their own | argument passing, printing | not modelled |

**Who holds what.** A value's vhash holds the key and attribute objects it is
under, and is the only thing that does; `scalar_lookup` and `attr_lookup` refer
to them weakly. `forward` and each `attrhash` refer to values, weakly unless
StrongValue was given. A key or attribute object made from an object refers to
it, weakly unless StrongKey or StrongAttr was given.

**How they interact.** A table belongs to one thread, and there is no I/O; a new
thread gets a copy, in two steps with perl's own cloning between them. What makes
the code hard is re-entrance: one `SvREFCNT_dec` or `hv_delete` in the middle of a C function
may free a scalar, whose actions delete from other hashes and free other scalars,
and all of it happens before the function's next line. The functions defend
themselves in four ways, each of which has properties here: back-deletes are
removed before the thing they name goes; a list whose object is dying is
sanitized and not shortened; the scalars a loop still needs are kept by a
`refcnt_ka` bracket; and entries are keyed by address, so that nothing may
outlive its object, because the next object may have its address.

**What makes each part correct.**

- Action lists: an action is on a list once; a deletion leaves nothing it
  matches; what is deleted never runs, what is not runs once; a free hook ends.
- Keepalive: the count that comes out of nested brackets is the true one; nothing
  is freed inside, and brackets make perl clear nothing twice.
- The table: no C function uses a freed scalar; between operations every count is
  the number of references, the five tables agree, and every scalar has exactly
  the hooks its entries call for; the program sees what it was promised.
- The end of a table: everything it held is let go, and no back-delete is left that
  would work on the freed table.
- Cloning: the child's table is the parent's, entry by entry and strength by
  strength, with its own counts, addresses and back-deletes.
- Sweeping: what is still wanted survives a sweep, also at an address that a dead
  value had; nothing removed is answered with; in the end nothing dead is left.
  (With keys and attributes whose own objects died this has limits: see the end of §4.)

The hazards are listed one by one, at their lines, in `PROJECT.json`.

## 2. The modules

Abstract specifications:

- `BackDelete` is what `hreg.c` and `hr_pl.c` promise about one object: a
  registered action runs once, when the object is freed, unless it is deleted.
- `Store` is what a table promises a program, whatever the backend: a set of
  entries, and a step per operation. The objects that die in a step are
  `Garbage`, the least set that contains whatever only its own members kept alive;
  it is how reference counting behaves, so objects in a strong cycle stay.

Detailed ones:

- `ActionList` is one scalar's list. A list is a sequence, `Null` a sanitized
  node. The deletion loop of `pl_del_action_common` is taken node by node
  (`BeginDelete`, `DeleteNode` or `NullifyNode`, `EndDelete`); freeing is
  `BeginFree`, then `Trigger`, `Return` or `Skip` for each node, then `FreeList`.
  Between `Trigger` and `Return` a callback runs, and may do all of it. `walk` is
  what the loop walks, `list` what the magic's head reaches: the two come apart
  when `HR_add_action` overwrites a sanitized head. The history variable `late` says
  whether a callback has registered an action on the dying object.
- `KeepAlive` is one scalar with its real references, its count, and the stack of
  saved counts. The code adds unsigned 32-bit counts and reads the sum as `I32`;
  the bounds keep sums far from that width, and the wrap of the intermediate
  `SvREFCNT - FAKE_REFCOUNT` cancels in the sum, so they are integers here. That
  references are fewer than `FAKE_REFCOUNT` is an assumption: 65536 drops inside one
  bracket would free the scalar in it. References are taken and dropped at any time, of
  a dying scalar too: `invoke_coderef` takes a mortal one before its bracket
  (`hreg.c:306-307`), and what it calls may keep a copy. `Free` is the return of the
  free hook; a scalar that is still referred to is then `"gone"`, and its last
  reference, or one that is taken and dropped in the hook outside every bracket, has
  perl clear it again (`"twice"`). The history variable `stray` says that a reference
  was there outside every bracket while the scalar was dying.
- `RefStoreXS` is the XS backend. The rest of every C function in progress waits on
  `todo`, the next step first; what a step sets off is put in front. An element
  is one `hv_delete`, one decrement or one stretch of a function between two
  places where something can be freed. A step that uses a freed scalar sets
  `err`. A freed object's address can be used again by `New`. `before` records,
  whenever nothing is left to do, what the program sees of the table; it is what
  is compared with `Store`. `calls`, chosen once from the constant `Programs`, is
  what this program stores, under what and with which options. `Destroy` is the
  program letting its table go and making another: the loops of `DESTROY` are
  `DestroyAttrs`, `DestroyAttr`, `PushValue`, `DestroyKeys` and `DestroyValues`, with
  the reference that perl's `foreach` has to the element it is at, and `values` is
  what `@values` holds.

| In `RefStoreXS` | In the code |
|---|---|
| `slookup`, `flookup`, `rlookup`, `attr_lookup` | the hashes of the table |
| `obj`, `obj_paddr`, `attrhash` | the fields of `hrk_encap`, `hrattr_encap`, `hrattr_simple` |
| `acts` | the action lists, in order (`ActionList` shows what deleting does to them) |
| `kept` | scalars in a keepalive bracket (`KeepAlive` shows their counts are exact) |
| `iter` | the element purge's `foreach` holds |
| `values` | `@values` in `DESTROY` |
| `"undef"` | a weak reference that perl has cleared |
| `"dangling"` | `obj_rv` after `attr_destroy_trigger` dropped it |

- `RefStoreXSInvariant` says what is true of `RefStoreXS` in every state, in the middle
  of a cascade as much as between operations, and what follows for the program. The
  run `attrs` checks it, `RefStoreXSProofs` and `RefStoreXSTables` prove it.

- `ThreadClone` extends `RefStoreXS` with threads. `Clone` is `CLONE_SKIP` (the notes
  of predup: `KeyNotes`, `AttrNotes`) and perl's cloning: action lists are empty
  (`EmptyLists`, the dup hook), C pointers still point into the parent
  (`obj = "parent"`), the references behind them are not counted, entries are under
  the parent's addresses (`stale`), and what nothing else refers to is kept by perl
  until `CLONE` returns (`kept`). `RenameReverse`, `RenameKey`, `RenameAttr` and
  `RenameVhash` are the four passes of `ithread_postdup`, one element each; `Cloned` is
  the return. Then the child goes on with all of `RefStoreXS`'s operations, other
  threads of its own included. The copy of a thing has its name here, so that a new
  address never equals an old one still to be renamed; nor can it in the code, where
  the parent's objects live while the child's are allocated.
  A weak attribute entry may or may not be shared with a temporary (it depends on
  how perl's cloning reached it), a strong one always is (finding 6). A child in
  which one is shared is followed to the point where `CLONE` would return.
  `ThreadCloneInvariant` says what is true of the copy while `CLONE` mends it; the run
  `keys` checks it, `ThreadCloneProofs` proves it.

- `Sweeping` is the Perl backend. One action is one table function, which
  nothing can interrupt there, since the death of an object runs none of the
  table's code; `Settled` is what perl then does by itself, to weak references and
  to key and attribute objects that left their last vhash. `sweep` is taken apart:
  `StartSweep`, one action per element of each of its three loops, `NextLoop`.
  `SweepInterval` and `AccessCount` are abstracted to a sweep that may start
  whenever no operation runs. The history variable `bound` is what the program
  stored and did not remove, `doomed` the part of it that was stored under an
  `Orphan`, a key or attribute object whose own object has died (or which, for an
  attribute, was let go with its last value, `Sweeping.pm:97-104`) and which is still
  found by that object's address.

`MCActionList`, `MCKeepAlive`, `MCRefStoreXS`, `MCThreadClone` and `MCSweeping` hold
the instances; `ActionListProofs`, `KeepAliveProofs`, `StoreProofs`,
`SweepingProofs`, `RefStoreXSProofs`, `RefStoreXSTables` and `ThreadCloneProofs` the
theorems. The last three rest, each on the one before, on `RefStoreXSLemmas`: the shape
and the counts of the state, and lemmas about action lists and about counting what
waits in `todo`. Operators
whose comment begins with "Mutant" are plausible bugs of the operator that
follows them; they are used only to see that each property can fail.

## 3. The runs

| Run | Instance | What it shows |
|---|---|---|
| `action_list` | 3 actions in 2 containers, at most 4 nodes in free | The list under every interleaving of registration, both deletions and freeing, with callbacks that delete and register: `Unique`, `NoHoleWhileLive`, `DeleteComplete`, `FreeEnds`, and until a callback registers `DeletedNeverRuns` and that it implements `BackDelete`. |
| `keep_alive` | 4 references, 3 brackets | Counts are exact outside brackets, nothing is freed inside one, and brackets alone, on a dying scalar too, have perl clear nothing twice (`ClearedOnce`); `IInv` is the invariant of the proofs. |
| `keys` | two programs: string key, object key, string attribute, 3 objects, all options; object attribute with weak values; DESTROY; threads | All of the table's properties for keys, that a child's table is a copy of the parent's (`CloneIsACopy`, `StrengthKept`; `CloneInv` of the proofs says it of the middle of `CLONE`), that the program sees what `Store` says, and that every operation ends. |
| `attrs` | two programs: string and object attribute with all options; 2 object keys, 1 object attribute and 3 objects that look up each other, weakly; DESTROY | The same for attributes with several values, and for cascades that come back to the hash they started from; `IInv` and `TablesInv` of the proofs with `ReferencesHold` and `NothingStale`, which speak of the middle of a cascade too. |
| `circular_strong` | 2 objects as keys of each other | Finding 1. |
| `two_types` | 1 object as attribute of two types | Finding 2. |
| `purge` | 1 value, 1 object as attribute and key of it | Finding 3. |
| `sweeping` | one object as key and as attribute, 2 values | Operations, deaths, reused addresses and sweeps in every order: `EntriesKept`, `AttrAnswers`, `OneObjectEach`, and that sweeping ends clean. |
| `sweeping_unlink` | string key, 2 values | Finding 4. |
| `destroy` | 2 objects, object and string attribute | Finding 5. |
| `clone_owner` | 1 value, string attribute | Finding 6. |
| `clone_strength` | 1 object as attribute of two types | Finding 7. |

**The bounds.** Actions are compared only by container and key: three, two of them
in one container, give a deletion that matches the head, an inner node, the tail,
several and none; four nodes leave room for a registration behind a cleared head.
Three brackets are an outermost one, an inner one and an inner one in an inner one,
between which the saved counts differ; deeper ones repeat the third. In the table three objects give one that dies, one it takes along and one
that must stay. `keys` and the first program of `attrs` keep the objects that are looked
up by apart from those looked up (`Apart`), so that all four combinations of options
fit; the second program, `Tangled`, lets every object be both, except under itself,
with weak keys and attributes (with strong ones there are findings 1 and 5). In
`keys` a thread may start whenever the program is between operations, in a child too,
so a table is cloned in every state of the instance; the second program of `keys` is
there for the attribute object, which has a clone of its own, StrongAttr or not. Its
values are weak because strong ones run into finding 6, which `clone_owner` shows;
two attributes of one object are left to `clone_strength`. Nothing bounds the length
of a behaviour: the state spaces are explored to the end.

In `Sweeping` two values give one that dies and one that stays, under a key and an
attribute that share vhashes and their object. (Strings, as keys or as attributes, are
the case of an object that never goes.) `Lookup` is `Apart` because the backend's
documentation says "you cannot use the same object as both key and value"
(`Sweeping.pm:310-312`). Every address is used again, that of the key's and attribute's
object too: the new object is then answered with what was stored for the dead one, and
what is stored for it goes with the next sweep (see the end of §4). That is the reason
why `EntriesKept` excepts what is `doomed` and `AttrAnswers` an `Orphan`.

`CHECK_DEADLOCK FALSE` is said of the action list, which ends with its object,
and of the tables, where the program may simply stop; `keep_alive` has no state
without a step.

**Fairness.** `WF_vars(Loop)` in `ActionList` and weak fairness of `Step` or
`CloneStep` in `ThreadClone` (`CloneFairSpec`) say that a C function that has begun runs on; there is no scheduler that could stop
it. `SF_vars(Return)` says that callbacks return: a callback may do as many
operations as it likes, so returning is possible again and again, but not
always enabled, because deletion loops run in between. Nothing is assumed of the program's own
operations, except in `Sweeping`: `WF_vars(Sweep)` says that a sweep runs to its end
and that there will be another, that is that the program goes on calling functions
of the table (those that find nothing count as well). A step of `Sweep` is enabled in
every state, so that `MCFairSpec`, with which the run `sweeping` is much faster, says the
same as `FairSpec`.

## 4. Findings

1. *A circular link with StrongKey uses freed memory.* `k_encap_cleanup` cannot
   remove the hook of an object that is already dying (`hr_hrimpl.c:133`).
   `Store.pm:1593-1603` calls circular links fully supported.
2. *An object used as attribute under two types leaves one behind.* Unlinking one
   removes the hooks of both (`hr_implattr.c:504-508`), against
   `Store.pm:1114-1116`, `1302-1303` and `1000-1002`. `t/common.pm:215-216` tests
   two types, but without an unlink of one.
3. *purge can die half-way.* It iterates over a hash's values while unlinking an
   attribute may free the next (`Store.pm:106-111`).
4. *With the sweeping backend a removed StrongValue stays for ever.* `unlink_sk` and
   `purge` leave the entry in `forward` to back-deletes, which are empty there, and
   `sweep` deletes only the cleared weak reference (`Sweeping.pm:224-227`), against
   `Store.pm:1084-1086`.

5. *DESTROY can die half-way.* Both of its loops over attributes iterate over values
   that unlinking frees (`Store.pm:596-604`); what is left keeps its back-deletes to
   the freed table.
6. *A cloned attribute entry has two owners.* `hv_delete` leaves the entry to a
   temporary, `hv_store` takes it again (`hr_implattr.c:637-642`); perl's stack frees
   strong entries under the hash at the next statement. `Store.pm:1527` says the XS
   backend is tested as threadsafe; `t/threadtests.pm` clones weak entries.
7. *In a thread two attributes of one object are both weak or both strong.* The note
   is kept by the object's address alone (`hr_implattr.c:595-602`).

Observations that are no findings: the mortal reference of `invoke_coderef`
(`hreg.c:306`) is taken before its bracket and outside its `SAVETMPS`, so that it
outlives the free hook that called it; an action of kind `CALL_CV` on a dying object
then leaves a reference to a cleared scalar, and dropping it has perl clear the scalar
again. `KeepAlive` has this (`life = "twice"`), `ClearedOnce` says that such a
reference is what it takes, and nothing in the repository promises otherwise; the
table's own actions are never of that kind. `HR_add_action` takes a list whose head was
sanitized for an empty one and cuts off what is behind it (`hreg.c:143-176`), so
that a deletion in the same free hook misses an action there; the table's own
callbacks register nothing on a dying object, and until one does (`~late`)
`DeletedNeverRuns` is proved. The check in
`refcnt_ka_end` for a negative count (`hrpriv.h:92-93`) compares a value with what it
was just stored as, and never fails. `action_sanitize_str` and `HR_add_action` test `flags &
(HR_FLAG_STR_NO_ALLOC == 0)`, which is 0, so that string keys are never copied.

Limits of the sweeping backend that the properties of `Sweeping` except, for the same
reason: nothing but the next sweep, 10000 calls later, knows of a death.

- Until then the key object of a dead object is found by its address, with its own
  reference cleared. Store a value under an object, let the object die, store the value
  under a new one at its address: `ukey2ikey` finds the old key object
  (`Store.pm:355`), and the next sweep deletes the entry as that of a dead object
  (`Sweeping.pm:245`), with key and value alive. Attributes likewise; there the object
  is also let go with the last value, while the vhash of a value that died may keep the
  attribute found (`Sweeping.pm:97-104`). `Store.pm:1133-1136` does not name this as a
  way in which entries go.
- Store a string key for a value that dies and then for another, and purge that: the
  vhash of the dead one holds the key object still, and `forward` the entry, as in
  finding 4, so that until the next sweep `fetch` finds the value that was purged.
  `AttrAnswers` has no counterpart for keys because of this.

## 5. The proofs

Assumptions are the named `ASSUME`s: `Null` is no action and every action has a
container; the references there can be are fewer than `FAKE_REFCOUNT`.

- **`KeepAliveProofs`.** `CountExact` is not inductive: it says nothing inside a
  bracket. `IInv` adds what the count is there (`Bookkeeping`: the fake count and
  what happened since the innermost bracket began), what each bracket saved
  (`Nesting`: the outermost the true count, the others the fake one and what
  happened in the bracket around them) and how both go with the scalar's life
  (`Lifetime`: a live scalar had references when its brackets began, a dying one had
  none but stray ones). The key lemma, `EffectiveRefcount`, telescopes that at an end: the
  outermost end computes the real number of references, an inner one a positive
  number. `CountsAreExact` and `KeptAliveHolds` follow, and `NeverClearedTwice`: a
  scalar is cleared again only where it was referred to, while dying, from outside
  every bracket. Nothing is assumed of what happens to a dying scalar.
- **`ActionListProofs`.** `IInv` adds to `TypeOK`, `Unique` and `NoHoleWhileLive`
  where the walk is and when it is still the list. It gives `TypeCorrect`,
  `NeverTwice`, `NoHole` and `DeletionComplete` for any number of late nodes.
  `Settled` adds, as long as no callback has registered, that walk and list are the
  same nodes, that what is registered is not deleted, and that nothing behind the
  walk is owed; `DeletedStaysDeleted` and `Implementation` (every step is a step of
  `BackDelete`, a stutter, or a late registration) follow, for any `LateNodes`.
- **`StoreProofs`.** `Garbage` is the intersection of closed sets; that it is itself
  closed (`GarbageIsClosed`) and holds nothing the program does
  (`HeldIsNotGarbage`) gives `BecomesSound`: after a step no entry dangles and
  nothing is alive that nothing reaches. `StoreIsSound` is that, and one value per
  key, for any objects, keys and attributes. `TableReleases` adds that `Destroy`
  leaves no entry and exactly the objects the program holds: without entries nothing
  is held strongly (`NothingStrong`), cycles through the table included. Because
  `RefStoreXS` is checked to implement `Store`, it is what a program gets.
- **`SweepingProofs`.** All safety properties of `Sweeping`, for any number of
  objects, for keys and attributes made from strings or objects, whichever addresses are
  used again, in the midst of a sweep too. `EntriesKept` says nothing during a sweep
  and nothing of what a dying object takes along; the invariant says of every state
  - that what is `bound` and not `doomed` is wired from both sides (`KeysWired`,
    `AttrsWired`) and that for attributes nothing else is, orphans excepted;
  - that references which are not cleared lead to live objects (`Alive`);
  - that a key or attribute object which is in a vhash has been made, with a reference
    or a cleared one, and an attribute with values has its own (`Made`), and that one
    which is in none has nothing (`Emptied`);
  - that what a vhash holds is found by its lookup or is invalid and in a vhash that
    the last loop has still to visit (`Placed`; `Reached` is the converse).

  The key lemma is `Settles`: deaths, with those they bring, keep all of this if it is
  true of the table that the operation or the step of `sweep` has computed. A key or
  attribute that is wired is no orphan, so that no loop of `sweep` takes it for stale;
  one that
  becomes an orphan has lost its object or its last value, and so its bound entries.
  The theorems assume nothing but `SweepingAssumption`; what they leave out, `doomed`
  entries and answers of an `Orphan`, are the limits at the end of §4.

- **`RefStoreXSLemmas`, `RefStoreXSProofs`.** The XS backend, for any
  objects, keys, attributes and programs, those of findings 1 to 3 and 5 included (a
  behaviour is followed up to the fault that ends it). What is true between
  operations is not inductive, for one operation is many steps; the invariant has to say
  what a C function in progress may count on when something else is freed under it.
  - `Shape` types the state and orders `todo`: each step has below it what it counts
    on (`Grounded`). A value taken out of an attribute's hash is still to be taken out
    of its vhash, a back-delete into an `attrhash` runs only while its value is being
    freed, `purge` runs only on what somebody below it keeps, and foreach loops of
    `purge` do not nest. Dying scalars are exactly those whose free hook waits, kept ones
    have their `refcnt_ka_end` waiting. Every step pushes only what is grounded on
    itself and on what was below it (`PlainStep`, `GroundedUnhash`, `GroundedPurge`).
  - `ObjectsCounted` and `IndexCounted` count the references: the entries, what the
    program and `DESTROY` hold, the element `foreach` is at, and the decrements that
    wait, as often as they wait (`Occurs`). The counts are exact. Each step is
    `Balanced`: the count changes as the references do.
  - That nothing leaks is the harder half. An attribute object that is freed lets go of
    none of the values still in its hash, a key object of neither its value nor its
    object: the references would stay counted and nobody would have them. `RefUnder`
    says that an attribute which refers to a value is also under it, and so has a reference;
    and that everything which goes by its being out, the deletion from the vhash, the end
    of `purge` and of `DESTROY`, is preceded in `todo` by what takes the value out of the
    hash (`Ahead`). `HashFound` says that `DESTROY` and the trigger find every such hash.
    `ForwardHooked` says that a key with an entry in `forward`, `ObjectHooked` that a key or
    attribute which keeps its object, still has the action that lets go of it; `ValuesKept` that what `DESTROY`
    gathers is given up by the last thing it does.
  - `LifeCounted` and `WeakLive` say what dies when: what has a reference lives, what
    lives has a reference or is kept, and a weak reference that is not cleared is to
    something alive. `LifeCounted` needs that `encap_attr_destroy_hook` raises the count
    of an attribute that is alive. That is the hard part, for the hook sits on
    another scalar's list: `AttrHooks` says that such a hook names an attribute which
    is alive or on its way through the trigger that deletes the hook, and `HookRuns`,
    with `ActsOnce`, that an attribute whose hook is running still lives.
  - `UnderHas`, `VhashHooked` and `FreeClean` say that the two halves of an attribute's
    entry go together, that a vhash is hooked to its value, and that nothing is left of
    what is free. The first two give the third at the end of a free hook.

  `InductiveInvariant` is all of it. From it follow `TypeCorrect` (no count is ever
  negative), `ReferencesAlwaysHold`, `NothingLeftBehind`, and between operations
  `CountedBetweenOperations`, which is `RefcountsExact`: no program makes the XS backend
  leak, nor free anything early, as long as no fault ends it; and
  `HookedBetweenOperations`, that a value's death finds its vhash.
  `NeverFreedTwice` is proved beside the invariant: of all faults this is the one that no
  program reaches.

- **`RefStoreXSTables`.** That the five tables agree and that each scalar has exactly the
  hooks its entries call for is true between operations only, and every step of a cascade
  breaks it somewhere. `TablesInv`, beside `IInv`, says what of it is left in every state:
  an entry may be out of step with another as long as what waits in `todo`, or the death
  of what it belongs to, brings the two together again, and in the right order.
  - `KeyUnder` and `KeyFound` are the keys' half. A key in the vhash of a value that lives
    is in `scalar_lookup` and in `forward`, and leaves the vhash first; it leaves `forward`
    last, for `k_encap_cleanup` reads the value there. `KeyOwns` says that its list holds
    its own actions only. What `destroy_keys` has emptied is excepted while `DESTROY` has
    the value still to take down (`Doomed`).
  - `ValueHooked` and `AttrOwns` are the attributes': an entry in an `attrhash` or in
    `attr_lookup` has its back-delete, on a list or in `todo`, as long as it is there.
  - `EmptyChecked` and `VhashAction` say that an empty vhash is looked at before anything
    else is done, and that the action which deletes a vhash goes with it.
  - `KeyHooked`, `KeyHookLives` and `AttrHooked`, with `AttrHooks` of `IInv`, tie the hook
    on an object to the key or attribute made from it, in both directions.

  `TablesInductive` is the invariant; the key lemmas are `StepEntries`, which says in what
  ways a step can change an entry at all, `EntryAhead`, that no step but the key's own
  actions brings the deletions of a key's entries forward, and `ObjectHookStep`, that no
  action leaves an object's list but for `todo` or by the one that has undone its entry.
  From it, with the exact counts (a key object that lives is in some vhash), follow
  `EntriesAgreeBetweenOperations`, for every program; and `TablesAgreeBetweenOperations`
  and `HooksAgreeBetweenOperations`, which are `TablesAgree` and `HooksAgree`, for every
  program in which no object is an attribute of two types (`OneType`). That hypothesis is
  finding 2: without it an attribute can outlive its object, and lack its hook.

- **`ThreadCloneProofs`.** A program that starts threads, and threads from threads, in
  which no object is an attribute of two types. `CloneSpec` interleaves `CLONE`'s steps with
  none of the program's, but all of the table's invariants are false in the middle of it:
  perl's copy has no action, counts none of the references in C structures, and points
  into the parent. `CloneInv` is `IInv` and `TablesInv` outside of `CLONE`, and inside it
  `CopyInv`, in which `Left` is what the passes have still to mend, read off `todo`:
  - `CopyReferred`: what points into the parent is still to be mended and there is a note
    of how it referred to its object; `Meant` is what it will be. Here two attributes of
    one object would share a note (finding 7), which is where `OneType` comes from.
  - `CopyCounted`: counts are of the references that the copy has already, and what has
    none is the object of something noted as strong.
  - `CopyHooked`: what is mended has its actions, and values and objects theirs of it,
    what is not has none.
  - `CopyAgreed` and `CopyViewed`: the tables agree as between operations, and with `Meant`
    in place of `obj` they are what the program saw of the parent.
  - `RestOfClone` and `StaleLeft`: `todo` is the rest of one pass and the passes after
    it, and only what they have to mend is under an address of the parent.

  A table at rest satisfies it with nothing left (`RestIsCopy`), `Clone` makes everything
  left (`CloneBegins`), each pass takes one thing off what is left and mends just that
  (`ReverseMended`, `KeyMended`, `AttrMended`, `VhashMended`), and a copy with nothing left
  satisfies all that is asked of a table at rest (`CopyIsRest`), so that the proofs above
  carry the child on from there. `ClonesInductive` gives `CloneCopies` (`CloneIsACopy`) and
  `CloneKeepsStrength` (`StrengthKept`), and of the child's further life
  `CountedInThreads`, `TablesAgreeInThreads` and `HooksAgreeInThreads`. The entries
  freed in use of finding 6 are steps of `CloneSpec` like others: the theorems say of such a
  child what is true up to the point where it is followed no further.

  The assumptions of all three (`RefStoreXSAssumption`): a process has finitely many objects and
  strings, no key or attribute object is one of the objects, `Null` is none of the values
  it stands in for, an attribute is a type and a string or object, and programs
  consist of calls.

Only model-checked: liveness (`FreeEnds`, `CloneEnds`, `SweepsClean`), which is out of
the prover's reach; `NoFault`, because it is false for some programs (§4) and true for
those whose lookups are apart or weak, so that its invariant must speak of the program
too (of its faults, `NeverFreedTwice` excludes one for all programs); that `RefStoreXS`
implements `Store`, in a thread or not, since what a whole cascade frees is a least fixed
point that no single state of it shows; and `CloneNoFault`, for the reason of `NoFault`.

## 6. What is not modelled

- *The iterator* only reads. What is hard about it is `each` on a hash that the program
  changes between two calls; perl leaves that undefined and `Store.pm:1458-1463`
  forbids it, so that there is no promise to check.
- *The PP backend* rests on Variable::Magic: the order of its callbacks and what it
  does when they cast and dispell inside one is not in the repository, and `t/` tests
  the XS and the sweeping backends only. The Perl table operations it shares are
  those of `Sweeping`.
- *`exchange_value`* is marked "Not fully implemented" (`Store.pm:118`) and calls a
  method that no key or attribute object of the XS backend has.
- *Typed keys and prefixes* join two strings. A prefix that is too long dies in the
  middle of a store (`hr_hrimpl.c:533`); this and the width of `prefix_len` are listed
  as hazards.
- The text of keys and what owns its memory; exceptions other than those in `purge`
  and `DESTROY`; other modules' magic; allocation failure; values that destroy
  themselves with a DESTROY method that calls the table.
- Two tables sharing objects: actions of different tables have different containers and
  do not see each other, except in `encap_attr_destroy_hook`'s deletion by container
  (finding 2 applies across tables as well).
- After cloning, the parent: it is only read. The child where finding 6 has struck:
  what a scalar freed in use does next is perl's business.

Perl itself is modelled as far as the code relies on it: counts, weak references
cleared before the free hook runs, `foreach` over a hash's values and the element it
holds, temporaries, and which references cloning counts.

## 7. The plan

Done: `BackDelete`, `ActionList`, `KeepAlive`, `Store`, `RefStoreXS` with the end of
a table, `ThreadClone`, `Sweeping`; the proofs of all of them, for `RefStoreXS` and
`ThreadClone` those of what holds for every program, or for every one of which an object
is an attribute once. What could follow:

1. `NoFault` for programs that keep the objects they look up by apart from those they
   look up (`Apart`): there a death takes along no attribute that is being taken down.
2. That `RefStoreXS` implements `Store`, by an invariant that relates the middle of a
   cascade to what it started from.
3. Typed keys with the store that dies half-way.
