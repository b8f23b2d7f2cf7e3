# libntt in TLA+

This directory specifies and verifies libntt, a C library for number-theoretic
transforms: how adapters are selected and loaded, how contexts are created and
destroyed, how the roots of unity are found, and what the arithmetic and the
transforms compute. TLC checks the specifications on small instances; TLAPS
proves theorems about the module loader, adapter selection, contexts, the logging
threshold, the arithmetic of words, the resolution of the roots with its
number-theoretic algorithms, and the transforms, for every value of their constants. The names are
those of the source where TLA+ allows.

## 1. The system

An application gets an *adapter* (a table of callbacks), fills in an
`ntt_config`, creates an `ntt_ctx` from both, calls `ntt_forward`,
`ntt_inverse` and `ntt_negacyclic_mul` on it and destroys it.

| Component (source) | State | Operations | Interacts with |
|---|---|---|---|
| Module loader (`ntt_module.c`) | `ntt__loaded`, a table of 16 handles | load from a directory, unload all | the dynamic linker; the module's entry; called by selection |
| Adapter selection (`ntt_adapter.c`) | default name and directory, explicit flag, cached default | `set_default`, `get_default`, `get`, `load`, `unload_all` | loader, configuration file, environment |
| Configuration file (`ntt_cfg_file.c`) | none (two output buffers) | find the path, read and parse | environment, C library; called by selection |
| Configuration object (`ntt_config.c`) | one record | new, setters, free | read by `ntt_create` |
| Contexts and dispatch (`ntt_ctx.c`, `ntt_api.c`) | heap blocks of a context | `ntt_create`, `ntt_destroy`, three calls | adapter callbacks, root resolution |
| Logging threshold (`ntt_log.c`) | two atomics | `ntt_log_set_level`, `ntt__log_write` | environment; every component logs |
| Number theory (`ntt_utils.c`) | none (local frames) | primality, factoring, square root, generator, `ntt__resolve_roots` | called by `ntt_create` and adapters |
| Scalar adapter (`adapters/scalar`) | reduction constants, tables, two buffers | setup, arithmetic, transforms, product | contexts |
| Toy adapter (`adapters/scalar_toy`) | powers of psi | the same, allocating buffers per product | contexts |
| Naive adapter (`examples/adapters/naive`) | roots, powers of psi | the same, as a loadable module; handshake | loader, contexts, core API |
| Core API (`ntt_core.c`, `ntt_core.h`) | a constant table with a version | find an entry, compare versions | adapters, in validation and setup |
| Descriptors, platform wrappers (`ntt_core.c`, `ntt_adapter.c` of the adapters) | constants | lookups | modules |
| Examples (`examples/*.c`) | none | a product in one call, or step by step | public interface |

What makes each of them correct, and what is hard to test about it:

- **Loader.** The linker's reference counts equal the handles in the table; an
  adapter that was handed out stays mapped until `unload_all`. Hard: failures
  after `dlopen` while the same module is also kept, repeated loads, the full table.
- **Selection.** The default answers the request in force; it is never stale and
  never outlives its module. Hard: refused calls that wrote something, the
  order of override, environment, file and fallback, changes under the cache.
- **Configuration file.** The buffers hold the last fitting value of each key,
  wherever reading stopped. Hard: errors in the middle, whose result nobody reads;
  lines longer than the buffer.
- **Contexts.** No leak, no double free, no call on a partial state, no write to
  the caller's configuration. Hard: each allocation may fail, threads share the
  configuration.
- **Contexts of loaded adapters.** Their callbacks stay mapped and find every entry
  of the core API they look up. Hard: loads and `unload_all` between the steps of
  other threads, modules built against another core.
- **Logging.** Two atomics without a lock behave as one threshold. Hard: writers
  between the two stores, overlapping setters.
- **Number theory.** Exact answers for all inputs a caller can reach, and loops
  that end for composite moduli too. Hard: rare inputs (pseudoprimes, prime
  powers, many small factors), sizes 1 and 2, sums that wrap.
- **Arithmetic and transforms.** The ring of residues, for every backend, build
  and order of calls; the transform in natural order and scale. Hard: carries and
  off-by-one in the reductions, conversions done once too often, stage order.

`PROJECT.json` lists the hazards one by one with their lines and the properties
that would catch them.

## 2. The modules

```
LogPolicy <--refines-- LogThreshold <-- LogThresholdProofs
ModuleResidency <--refines-- ModuleLoader <-- ModuleLoaderProofs
                                  ^                  ^
                                  +-- DefaultAdapter | <-- DefaultAdapterProofs
                                  +-- Application    | <-- ApplicationProofs
LoaderParameters <-- ModuleLoader, DefaultAdapter
DefaultAdapter --> ConfigFile
Application --> CoreApi
Application --> ContextLifecycle
NumberTheory <-- Primality <-- Factoring <--+-- RootResolution
NumberTheory <-- SquareRoot <---------------+
NumberTheory <-- NumberTheoryProofs <--+
RootResolution <-----------------------+-- ResolutionProofs
ResidueRing <--refines-- Arithmetic --> ScalarArith --> Reduction --> WideInt
                             +--------> DoubleAdd ------------------^
Arithmetic, NumberTheoryProofs <-- ArithmeticProofs
NumberTheory <-- Transform <-----------+-- TransformProofs
```

`ResolutionProofs`, `TransformProofs` and `ArithmeticProofs` all extend
`NumberTheoryProofs`.

- **ModuleLoader** models `ntt__module_load_from_dir` and
  `ntt__module_unload_all`. A step is one call, with the outcomes its early
  returns have: not opened, refused (handle closed), kept (first free slot),
  spilled (table full: closed and returned all the same). `refs` is the
  linker's count; `handed` is history. Calls are not interleaved: the source
  takes no lock and nothing promises that they may overlap. What modules are, and
  the constants of the library, is in **LoaderParameters**, which DefaultAdapter
  extends too.
  **ModuleResidency** is the contract: a set of mapped modules and a number of
  free places.
- **ConfigFile** is pure. A file is a sequence of lines and a line a sequence of
  the pieces `fgets` delivers it in: one, or several when it has
  `NTT_CFG_LINE_MAX` bytes or more. Pieces are abstracted to key and value and
  folded by `ParseLine` as the reading loop does; a piece also says whether it belongs
  to a comment, which the code sees of the first one only. `DefaultPath` is the rule by
  which a file is chosen on systems with `HOME`; on Windows the code puts the same path
  together from other variables. As a piece is shorter than the buffer for a directory,
  only an adapter name can be too long here (`ConfigPieces`, in
  `EnvironmentAssumption`).
- **DefaultAdapter** instantiates both. Its variables are the loader's and the four
  statics of `ntt_adapter.c`; its calls are the only ones that reach the loader, so
  that the loader's properties are checked here, under loads that a caller asks for
  and those that `get_default` makes on its way to an adapter; `override`, `wanted` and
  `torn` are history. The environment may change between any two calls; a read error may end the file anywhere.
- **ContextLifecycle** interleaves threads step by step through `ntt_create`,
  the calls and `ntt_destroy`. `heap` is what is allocated, `ptr` the pointers
  still stored; freeing a block loses the pointers stored in it, as in the code.
- **CoreApi** is the table of `ntt_core.c` by its ids, the walk of
  `ntt_core_find` up to the terminator, the handshake, and the ids each adapter
  looks up.
- **Application** composes the three: the threads of ContextLifecycle create
  contexts of built-in adapters and of those the loader handed out, whose entries
  answer by the handshake of CoreApi, and loads happen between any two steps of
  a thread. Two rules bind the application: it uses only adapters it was given,
  and it calls `unload_all` only when no thread creates, has or destroys a context
  of a module, as `ntt_adapter.h` demands.
- **LogThreshold** splits `set_level` and `log_write` at each atomic access.
  **LogPolicy** is one threshold with atomic requests and decisions.
- **Primality**, **Factoring**, **SquareRoot** model one loop iteration per step
  on a frame record (`mr`, `fac`, `sq`), so a caller can run them inside.
  **RootResolution** is that caller: `ntt_create` up to the resolved roots. The
  parts that have no loop of their own (`modpow`, order tests, the generator
  test of one candidate) are operators of **NumberTheory**.
- **WideInt** is word arithmetic of `2^WordBits`: high products and wide
  products, with and without 128-bit integers. **Reduction** is Barrett and
  Montgomery in half-word and full-word form; **ScalarArith** the scalar
  adapter's layer over it; **DoubleAdd** the doubling-and-adding arithmetic of
  library, toy and naive adapter. **Arithmetic** is a session on a register:
  encode, add, subtract, multiply, decode, canonicalize, invert in any order,
  for each backend. **ResidueRing** is what the session promises.
- **Transform** models the three adapters' transforms, one stage per step, and a
  client that calls them one after the other, or assembles the product as
  `examples/ntt_example_stepwise.c` does. Of that client's two operands one takes
  the steps; the other's transform is what `ValuesAreTransform` says a forward call
  returns. Residues are encoded with a radix; that the arithmetic under it is right
  is what Arithmetic checks. A context is what adapter creation leaves: a prime
  modulus, a size that is a power of two, and roots of the orders that
  `ntt__resolve_roots` has made sure of (`TransformAssumption`).

Operators introduced by a comment "Faulty variant" are not part of any
specification. Each is a plausible mistake in the definition it precedes, and
putting it in that definition's place breaks the property named with it in
`PROJECT.json`: this is how each property is known to depend on the code.

## 3. The runs

Run `tlc -config <cfg> <module>` in this directory. "States" are distinct states.

| Run (cfg) | Module | States | Question |
|---|---|---|---|
| `DefaultAdapter` | MCDefaultAdapter | 43,362 | Does the default answer the request in force, freshly, stably, and with mapped code; are the loader's counts, table and residency consistent, and does it implement ModuleResidency? |
| `Application` | MCApplication | 1,128,743 | Do two threads that share a configuration leak, free twice, run on a partial state or write it, and does a loaded adapter ever run unmapped or miss an entry of the core API? |
| `LogThreshold` | MCLogThreshold | 45,810 | Do two stores and two loads behave as one threshold? |
| `Arithmetic` | MCArithmetic | 20,315 | Does every backend compute in the ring of residues, in any order of operations? |
| `RootResolution` | MCRootResolution | 399,285 | Are the number-theoretic answers exact, the roots fit, refusals justified, and do all loops end? |
| `Transform` | MCTransform | 408,349 | Are transforms, their stages and products right, in any sequence of calls, and can a client assemble the product itself? |

Six more runs each end in a counterexample, a disagreement between code and
documentation (section 6): `ModuleLoaderFull`, `DefaultAdapterOverride`,
`PrimalityFooled`, `FactoringStack`, `TransformNaive`, `TransformCyclic`.

What the properties say is in the comment over each of them. The central ones:

- *Loader*: `HandlesBalanced` (count = handles in the table, for every module),
  `HandedOutResident` (while a slot is free), `OnlyUnloadAllUnmaps`,
  `Refinement`, checked in DefaultAdapter.
- *Selection*: `DefaultHonoursRequest`, `NoStaleDefault`, `DefaultResident`,
  `DefaultStable`; `BuffersAreLastValues` states the file reader without its loop,
  for files whose comments stay silent (section 6).
- *Contexts*: `HeapMatchesPointers` is leak and double-free freedom at every
  step, not only at the end; `OwnsWhatItShould` adds that a transform only runs on
  a complete state; `CallerConfigUntouched`.
- *Application*: `ContextsResident` needs the loader, the place of every thread and
  the rule for `unload_all` together; `LookupsSucceed` follows an id from the
  handshake of a load to the lookup in a later `ntt_create`.
- *Logging*: `PendingLevelRequested`, and `Linearizable`, the refinement of
  LogPolicy: the linearization point of `set_level` is its first store if the
  override is already on, otherwise the first store of the override that
  follows; that store may bring several overlapping requests into effect.
- *Number theory*: `SquaringInvariant`, `NoPrimeRejected`, `CompositeIsRejected`;
  `NothingLost` (the invariant of the factoring loop), `FactorsAreRight`,
  `DepthBounded` (the stack needs at most one entry per odd prime factor);
  `LoopInvariant` of Tonelli-Shanks, `RootIfAny`; `RootsFit`,
  `RefusedOnlyIfImpossible`, and `ResolutionEnds`.
- *Arithmetic*: `TypeOK` is the closure every operation relies on (operands
  stay canonical), `ConstantsRight`, `ComputesInRing`.
- *Transforms*: `ValuesAreTransform`, `CoefficientsKept`, `BlocksAreTransforms`
  (what each stage leaves, the induction behind the fast transform). The first two
  compare with the polynomial the client's array should stand for (`Expected`), so
  that they also say that the step-wise product is the product. On a cyclic context
  `ntt_negacyclic_mul` does not return the product modulo `x^n + 1`: the client goes on
  with what it got (`ReturnToClient`), about which `CoefficientsKept` says nothing, and
  `ProductsKept`, which asks for that product of every context, is the property of
  `TransformCyclic`.

### Bounds and why they are enough

- *DefaultAdapter*: two sound modules, one of which sometimes refuses, one without
  the entry symbol, one too new, one too small, and missing ones, in a table of three
  slots: repeated loads, mixtures, refusals beside a kept handle of the same module and
  the full table occur (`ModuleLoaderFull` has four slots). The code's 16 slots differ
  in number only; the theorems hold for every number. A name and a directory that do
  not fit; six environments (no file; a file from HOME; one from `NTT_CONFIG_FILE` with
  a directory variable that fits, that does not, or with a comment whose tail names an
  adapter; a path too long) over files with repeated keys, an empty value, an ignored
  line, an adapter name that does not fit, a directory cut at the end of its first
  piece, and a comment of two pieces.
- *Application*: two threads, both built-in adapters and `naive` with all their
  blocks, every subset of failed allocations; a module built against an older core
  and one against a newer; two slots, so that a module can fill the table and
  another be spilled. Threads interact only through the shared configuration and
  the loader, so a pair shows what more would.
- *LogThreshold*: two setters and a writer, all levels and a value out of range,
  five values of the variable. The theorems hold for any number of threads.
- *Arithmetic*: six-bit words, so that half a word is three bits; primes on both
  sides of half a word and up to the largest the adapters take, two above for the
  library's own arithmetic, which takes the whole word. All carries and both
  backends of both builds occur. The number of Newton steps is the code's, which
  more than suffices for six bits.
- *RootResolution*: moduli to 2100 and chosen pseudoprimes for the primality
  test; every `q - 1` to 700 and chosen larger ones (prime powers, many small
  primes, two large ones) for factoring; all sizes, types and candidate roots for
  q in {2, 3, 5, 7, 13, 17}, samples for 41 and 3329; every residue for odd moduli
  to 49 and 65, 85, 97, 105, 193 for square roots. `SizeBase` is 512 and
  `LargestModulus` 50000 in place of 2^32 and 2^63 - 1, so that both limits are
  crossed or just not reached as in the code.
- *Transform*: fields of 3, 5, 17 and 97 elements, sizes 1 to 16 of both types,
  radices 1, 2 and 14, three calls. All vectors for sizes 1 and 2; otherwise multiples of the unit
  vectors, which determine the linear transforms, and a dense vector. `MaxCalls`
  is 3: the forward transform, the product of the values and the inverse of a
  step-wise product; forward and inverse and a product; three products.

### Fairness

Only `RootResolution` has a liveness property. Its specification assumes
`WF_vars(Next)`: a function that was called runs on; there is no lock and no wait
in it. `ResolutionEnds` then says that each of its loops ends. The other
specifications assume no fairness, since an application need not call anything.
Deadlock is not checked for `RootResolution` and `Transform`: the first ends
when the roots are resolved or refused, the second when the client has made its
calls. In the other runs a further call is always possible and deadlock is checked.

## 4. What is proved

`tlapm` checks the eight proof modules to the last leaf. Their only assumptions are
those on the constants (`LoaderAssumption`, `LogAssumption`, `LifecycleAssumption`,
`ApplicationAssumption`, `DefaultAssumption`, `EnvironmentAssumption`,
`RequestAssumption`,
`PrimalityAssumption`, `FactoringAssumption`, `RootAssumption`,
`TransformAssumption`, `WordAssumption`, `ArithmeticAssumption`), which TLC
evaluates for the instances it runs, and the premises a theorem states itself.

**ModuleLoaderProofs**, for any set of modules, any answers of the linker and of
the modules' entries, and any number of slots:

| Theorem | Statement |
|---|---|
| `LoaderTypeOK`, `LoaderBalanced`, `LoaderResidency` | the state is typed, counts and handles agree, what was handed out is mapped while a slot is free |
| `LoaderOnlyUnloadAllUnmaps` | no load, failed or kept, unmaps anything |
| `LoaderRefinesResidency` | table and counts implement ModuleResidency |

The inductive invariant `LoaderInv` is the conjunction of the three invariants.
None of the last two is inductive alone: that an adapter stays mapped when
another handle of its module is closed needs the counts to be those of the
table, and that `unload_all` leaves every count at zero is the same equation read
at the other end. The argument has two lemmas at its centre. `OpenThenClose`: a
load that is refused leaves the counts as they were, which needs the type
invariant because a count must not go below zero. `KeptFillsOneSlot`: a kept load
fills one slot that was free, so that the cardinality of its module's slots grows
by the one the count grew by, and that of the others does not change.

**LogThresholdProofs**, for any number of setters and writers, any values of the
variable and any arguments:

| Theorem | Statement |
|---|---|
| `LogTypeOK`, `LogPendingRequested` | the state is typed; a level stored before its override is one a call in progress asked for |
| `LogLinearizable` | the two atomics implement LogPolicy |

`LogInv` is `TypeOK`, `PendingLevelRequested` and `LevelReadOverridden` (a writer
that is about to read the level has seen the override on, and it is never taken
back). Without the second, the first store of the override could bring a level
into effect that nobody requested; without the third, a writer that read the
override could decide by a level that is not in force. The refinement maps the
threshold to the level in force (`Effective`), the requests to the setters
between their two stores, and the decision to the value the writer reads; the
case that needs the work is the store of the override while other setters are
between their stores, which puts several requests into effect in one step.

**ApplicationProofs**, first part, for any threads, adapters, sets of tables and
buffers, and values of the configuration: `LifecycleInvariant`. `HeapMatchesPointers` is not
inductive by itself, since freeing a block drops the pointers stored in it: it
survives only if none of them leads to a block that is still allocated. The
invariant therefore says what a thread owns at each place of its call
(`PlaceOwns`): the context alone before setup and in the cleanup, the context and
the state while the tables are asked for and after they are freed, everything when
the context is live. `CallocKeeps` and `SafeFreeKeeps` carry heap and pointers
through an allocation and a free, `NothingStored` shows the premise of the second,
and `LocalStep` that the other threads are not disturbed.

**ApplicationProofs**, second part, for any modules and number of slots besides:

| Theorem | Statement |
|---|---|
| `AppTypeOK`, `AppHeapMatches`, `AppOwns`, `AppConfigUntouched` | the four properties of contexts, with loads between the steps |
| `AppContextsResident` | what a context calls is mapped while a slot is free |
| `AppLookupsSucceed` | no adapter in use looks up what the core does not have |

`AppInv` joins `LifecycleInv` and `LoaderInv` (the instance `Proved` of
ModuleLoaderProofs brings its theorems along; that both instances of the loader
take the same steps is `SameLoads` and `SameUnload`) by two more conjuncts: an
adapter in use was handed out (`GivenOut`), and what was handed out has passed the
handshake (`HandshakePassed`). The rule for `unload_all` is used in one place
only, where `handed` becomes empty. `AppLookupsSucceed` has the premise that the
built-in adapters, compiled against the core, look up what it has; for the modules
the same follows from the handshake.

**DefaultAdapterProofs**, for any names, directories, environments, modules and
number of slots:

| Theorem | Statement |
|---|---|
| `SelectionTyped` | the statics and histories are typed |
| `SelectionHonoursRequest`, `SelectionNoStale`, `SelectionStable` | the default answers the request in force, none older, until it is replaced |
| `SelectionResident` | a default from a module is mapped while a slot is free |
| `SelectionReadsLastValues` | the default is resolved from the last value each key was given, wherever reading the file ended, if no tail of a comment reads as a setting |
| `SelectionKeepsBalance`, `SelectionKeepsModules` | counts and handles agree, what was handed out is mapped while a slot is free |
| `SelectionUnmapsNothing` | only `ntt_adapter_unload_all` unmaps a module |
| `SelectionRefinesResidency` | table and counts implement ModuleResidency under all calls of selection |

The invariant adds to the properties that the static buffers hold the override
unless a refused request wrote over them (`BuffersHoldOverride`), without which a
request would not determine what `get_default` resolves, and that a default from a
module was handed out since the last `unload_all` (`CacheHandedOut`), which ties
the cache to the loader. What `FileLoad` leaves in the buffers is an induction over
the pieces of a file: the fold of the community modules is shown to take them one
by one (`FileLoadSteps`), a step to store a piece or to end the reading at one that
does not fit (`ParseLineFollows`), so that `FileLoad` returns what
`BuffersAreLastValues` states without a loop (`FileLoadIs`). The invariant carries
it from the read to the cached default (`RequestReadsLastValues`). About a file it is
assumed only that it is made of lines, these of pieces, that the directory in a
piece fits its buffer, and that a comment begins with a piece that sets no key.

Every call of selection is a step of the loader or leaves it alone (`SelectionNext`),
with which the loader's invariant carries over; `ResidencyNext`, `LoadNeverUnmaps` and
the other lemmas of ModuleLoaderProofs do the rest.

**ArithmeticProofs**, for words of any even number of bits, all moduli that the
functions are called with, and builds with and without 128-bit integers:

| Theorem | Statement |
|---|---|
| `AddModU64Correct`, `SumsCorrect`, `DifferencesCorrect` | sums and differences of residues; in the library also those that wrap, for every modulus of a word |
| `MulHiCorrect`, `MulHi128Correct` | the portable products lose no carry |
| `BarrettMuCorrect`, `BarrettReduceCorrect` | the half-word reciprocal and reduction, of any word |
| `BarrettMuWideCorrect`, `BarrettReduceWideCorrect` | the same for double words, with `LongDivisionCorrect` for the portable reciprocal |
| `MontReduceHalfCorrect`, `MontReduceWideCorrect` | the result is a residue, and times the radix it is congruent to the operand |
| `MontQInvCorrect`, `MontR2Correct` | the constants of Montgomery's arithmetic, for words of up to 192 bits |
| `DoublingMulCorrect` | multiplication by doubling in library, toy and naive adapter, of any two words |
| `ScalarMulCorrect`, `ScalarReduceCorrect`, `PowerOfCorrect` | products, reduction and encoding, powers |
| `ArithmeticTypes`, `ConstantsAreRight` | `TypeOK` and `ConstantsRight` of every session |
| `ArithmeticIsRing` | `ComputesInRing`: every step is the ring's, if the moduli are prime |

Two premises are stated where they are needed. `WordBits <= 192` is what the numbers of
Newton steps in `ntt_scalar_mont_qinv` allow: it starts with the modulus itself, right
in three bits, and each step doubles them (`NewtonStep`), so that 5 steps give 96 bits
and 6 give 192. The code has 32 and 64. That moduli are prime is needed for `Invert`
alone, by `FermatsLittleTheorem`.

The inductive invariant `Sound` is `TypeOK` and `Provided`: the constants that each
operation reads are those that setup computed, with the bound on the modulus that
the adapter insists on. Neither half can be left out, since no reduction is right for an
operand or a reciprocal that is not. Each reduction rests on a bound on the exact
quotient (`BarrettBound`, `MontgomeryExact`): the difference, or the sum, lies below twice the
modulus, so that one subtraction ends it. That `BarrettReduceWide` may look at the
low word alone follows from that bound and `2 q <= Base` (`LowWordDifference`). One idea
keeps the rest uniform: values of Montgomery's arithmetic carry the radix as a
factor, those of the others the factor one (`ScaleOf`); it has an inverse modulo `q`
(`ScaleIs`, from the same equation as `qinv`) and can be cancelled. So
`Residue` is the only number the factor takes to `x` (`ResidueIs`), and each lemma
`...InRing` multiplies an equation of residues by it. The loops over bits are functions
whose measure is the number that is left; `BinaryLoopExists` shows that they are
defined and `MeasureInduction` what they compute.

**NumberTheoryProofs** is the mathematics behind the algorithms: powers, orders,
Euclid's lemma, `FermatsLittleTheorem`, the existence of a quadratic non-residue.
The library's induction theorems cannot be instantiated by the installed provers, so
induction is done with sets: `Induction` and `StrongInduction` say that a set of
numbers closed under successors is all of them, from the fact that a non-empty
set of numbers has a least element (`LeastElement`). In the same way
`RecursionExists` and `IterationExists` show that the recursive functions of the
models have the values their equations give, which makes `ModPow`, `Gcd` and
`OddPart` usable in proofs (`ModPowIs`, `GcdIs`, `OddPartIs`). `PowersOfTwo` needs
one more idea, since `2^n` is a primitive of the language: that the subsets of a
set with `n` elements are `2^n` many is a theorem of the library. Fermat's theorem
counts the orbits of a power (`OrderDividesClosed`). For the non-residue the group
of units is replaced by its squares as long as its size is even: -1 is in the group
then (`GroupIsOdd`) and the squares are half of it (`SquaresGroup`, `HalvePowers`), so
that in the end -1 is a power `x^(2^(s-1))`, and `x^((q-1)/2)` its odd power, -1
(`NonResidueExists`).

That there is a generator modulo a prime `p` (`GeneratorExists`) is shown in the form
the search needs it, some `x` with `x^((p-1)/f)` other than 1 for every prime `f` of
`p - 1`, and without polynomials: if all the powers `x^m` with `m < p - 1` were 1, their
`m`-th differences, which are `m!`, would be zero modulo `p` (`DifferencesStep`,
`PowersNotConstant`). So for each `f` some `x` has `x^((p-1)/f)` other than 1
(`SeparatingPower`); its power that is left when the full power of `f` is taken out of
`p - 1` (`PrimePowerSplit`) is 1 for every other prime, and the product of these
powers, over the primes of `p - 1`, is the element (`SeparatingProduct`).

The last three parts are for the transforms. Sums are the recursive `Total`, whose
laws (`TotalPlus`, `TotalRotate`, `TotalExchange`, `TotalHalves` into even and odd
terms) are inductions over the number of terms. Roots of unity: `HalfTurn` (half the
order of a root gives -1) and `GeometricZero` (the powers of a root other than one
add up to zero). Values of polynomials: `ValueHalves`, the step of the fast
transform, `ConvolutionValue`, that at a root of `x^n + 1` the value of the product
modulo `x^n + 1` is the product of the values, and `InverseTransform`, that the
transform with the inverse root of the transform is `n` times the coefficients.

**ResolutionProofs**, for any requests, witnesses, sizes of the stack and of the
type of `n`:

| Theorem | Statement |
|---|---|
| `ResolutionCorrect` | the inductive invariant `ResolutionInvariant` |
| `ResolutionTypes` | `TypeOK`, with the ranges of all three frames |
| `SquaringCounts`, `PrimesPass` | the squaring loop is at the power its counter says, and no prime is rejected, whatever the witnesses |
| `TestDecides` | the test answers yes for 2, 3 and the odd values that are strong probable primes to each witness below them, and for no others |
| `CompositesRejected` | no composite is called prime (1) |
| `TonelliShanks`, `SqrtIsRight` | the loop keeps `R^2 = a t` and the orders of `t` and `c`; the root is one, and is found if there is any |
| `ResolvedRootsFit` | the resolved roots have the orders the transform needs and replace none that was given |
| `StackStaysBelow` | the stack never holds more parts than `x` has odd primes (`DepthBounded`) |
| `StackSuffices` | below `3^(StackSize + 1)` nothing is written behind the stack |
| `PartsAreAccounted`, `FactorsFound` | if no composite is called prime, the factoring loses no prime and makes none up |
| `FactoringCorrect` | it returns the primes of `x`, and fails only for want of room (1, 2) |
| `RefusalsJustified` | a request for a prime modulus is refused only if no roots would do (1, 2, 3) |
| `ResolutionDescends` | every step lowers a rank of a well-founded order |

The numbers are hypotheses, formulas about the constants that the theorem names:

1. `WitnessesSuffice`: no composite among the modulus and the odd divisors of `q - 1`
   is a strong probable prime to each witness below it.
2. `SeedsSuffice`: each composite among the odd divisors of `q - 1` is split by one of
   the seeds of Pollard's rho.
3. `EnoughRoom`: the room for results holds the primes of `q - 1`.

They are facts about numbers, not about the code, and each says exactly what the code
takes for granted; what is proved is that nothing else is. The third holds by
counting: a product of sixteen different primes exceeds 64 bits. That twelve
witnesses suffice for 64 bits is known of the full table, by computation, and refuted by
`PrimalityFooled` for the part of it that is below a small `q`. That some seed splits is
known of no range but by trial. For the instances of `RootResolution` all three hold,
and TLC checks there what follows from them.

`ResolutionInvariant` joins the invariants of the three frames, of which each
contains what the property to be shown leaves out, to `Progress`, what is known at
each point of `ntt__resolve_roots`:

- `TestInvariant`: `q - 1 = d * 2^s`, and while a witness is squared `x` is neither 1
  nor -1 modulo a prime; so the next square is not 1 (a third root of one), and by
  Fermat the last one would have to be.
- `FactorInvariant`: the parts are odd divisors of `x`, and the factor two is not
  forgotten, on which the search for a generator relies (an element whose power
  `(q - 1) / 2` is not 1 has that half as -1, and its powers the orders asked for).
  It also says that the sequences of Pollard's rho are residues, so that `gcd` is
  called with a part and yields a divisor of it.
- `SqrtInvariant`: `IsPower(q - 1, c, 2^(M - 1), q)` and `IsPower(1, t, 2^(M - 1), q)`,
  with which the inner loop ends before `M`, so that the exponent `M - i - 1` does not
  wrap. The root is right for composite moduli too, since `R^2 = a t` needs no prime.
- `Deep`: the odd primes of the parts, of the one in hand too, are together no more
  than those of `x`, and every part has one. That the count of a product is the sum of
  the counts, whichever prime is taken out first, is `CountProduct`.
- That a given `omega` and its square root fit needs no search: a square root of
  an element of even order has twice its order (`RootHasDoubleOrder`).

The remaining theorems rest on more of the same kind:

- `TestIsExact`: the witnesses before `i` have passed, and the one being squared has
  not met -1 up to the power of its counter. `Claimed` says of a number what the
  code's early exits, skipped witnesses and counters add up to, without a loop.
- `RhoRun`: the two sequences are at `k` and `2k` and no comparison has shown a
  divisor (`Runs`), and every seed before this one would not have split the part.
  So a failure for want of seeds contradicts the second hypothesis (`SeedsRemain`).
- `Sought`: no candidate before `g` is a generator. There is one (`GeneratorExists`),
  so that the search finds it. For roots that are given, `GivenRefused` is the converse
  of `ResolvedRootsFit`: those the code rejects have not the order they need.
- `Rank`, six numbers compared from the left: the phase of `ntt__resolve_roots`, then
  how far the function that runs has come. For the test these are `d`, the witnesses and
  the squarings left; for Tonelli and Shanks `M`, which each correction replaces by the
  smaller order of `t`; for the factoring the splits that the parts still allow
  (`PartsLeft`, by the multiplicities of their primes), the seeds left, and the
  comparisons up to the next one that shows a divisor. That there is one is Floyd's
  argument: the sequence stays below `n`, hence repeats a value (`RhoRepeats`), so
  that the two meet at a multiple of the period (`SequencesMeet`). `Lower` shows one
  rank below another, `RanksAreWellFounded` that none descends for ever.

**TransformProofs**, for any prime fields, sizes, radices, operands and number of
calls:

| Theorem | Statement |
|---|---|
| `TransformTypes` | the arrays hold canonical residues, the blocks have sizes that exist |
| `StagesAreRight` | between two stages each block is the transform of its part of the coefficients (`BlocksAreTransforms`) |
| `ForwardIsRight` | `ntt_forward` returns the values at the powers of `omega`, in order |
| `CoefficientsAreRight` | the inverse gives back the coefficients; on negacyclic contexts these are, after products in one call or step by step, those modulo `x^n + 1` |
| `ProductsAreRight` | if every context is negacyclic, each `ntt_negacyclic_mul` returns the product modulo `x^n + 1` (`ProductsKept`) |
| `CounterIs` | the counter that toy and naive run backwards through its bits visits the indices in the order of `ntt_reverse_bits` |

All but `CounterIs` have the hypothesis `NaiveFits`: contexts of the naive adapter are
negacyclic. It is needed, since that adapter takes the square of `psi` for its root;
the run `TransformNaive` shows what happens without it (section 6).
`ProductsAreRight` asks it of all adapters, and `TransformCyclic` shows why. The theorems
are about the composition of calls: a forward transform that follows a product that
follows an inverse, with each of the three adapters.

The inductive invariant `Inv` has one part for what each function is doing:

- `Shape`: types, and which function can be in which kind of stages.
- `Resting`: between calls the array is what is expected of it or its transform.
- `Transforming`, `Multiplying`: the blocks of the arrays of a call, for operands that
  the invariant says exist and whose product is what the caller will expect. The
  properties do not speak of the arrays of a multiplication, and of no call
  what its second array holds before its stages begin.
- `Inverting`: the same with the inverse root for the adapters that decimate in time
  again, and for the scalar adapter's stages in frequency (`FrequencyReached`), which
  run through the same block sizes downwards: before a stage each block is a multiple
  of what the forward stages had there.

The steps need five facts. The permutation is the reversal of bits and its own
inverse, whichever of the two algorithms finds it (`ReverseTwice`, `CounterIs`). A
stage in time joins the transforms of even and odd terms (`TimeStage`, from
`ValueHalves` and `HalfTurn`), and one in frequency takes it back, but for a factor of
two (`FrequencyStage`), which the scaling by `n^-1` removes at the end. Encoded values
compute as residues do, since a product of two is divided by the radix once. The
transforms of twisted operands multiply to that of the twisted product
(`ProductTransform`, from `ConvolutionValue`). On a cyclic context, where `psi` is
zero, the twisted operands are constants, and the same lemma gives the product of the
constant terms: the invariant says so, to know the types of all arrays there as well
(`Product`).

## 5. What is only model-checked

`ResolutionEnds`, the one liveness property. TLAPS has no backend for liveness under
fairness or for `ENABLED`. What needs neither is `ResolutionDescends`: there is no
infinite sequence of steps. TLC adds that a step is possible until the roots are
resolved or refused.

Every other property of the passing runs is stated by a theorem. Three theorems have
hypotheses about numbers (section 4): the first is a computation of the literature,
the second an open question, and neither a consequence of the code. TLC shows on the
instances what follows from them, `CompositeIsRejected`, `FactorsAreRight` and
`RefusedOnlyIfImpossible`, without assuming them.

## 6. Where the code and its documentation disagree

| Run | Line | What the code does |
|---|---|---|
| `ModuleLoaderFull` | `src/common/ntt_module.c:202` | With all slots taken, the handle is closed and the adapter returned: the caller holds a pointer into unmapped memory. Repeated loads of one module fill the table. |
| `DefaultAdapterOverride` | `src/common/ntt_adapter.c:235` | A refused `set_default` has replaced part of the override in force. |
| `PrimalityFooled` | `src/common/ntt_utils.c:202` | Witnesses not below q are skipped and not reduced; 4033 and 4681 are called prime. |
| `FactoringStack` | `src/common/ntt_utils.c:340` | `stack[32]` has no bound check; the depth needed is the number of odd prime factors, up to 40 in a 64-bit word. `q = 2^4 * 3^36 + 1` is a prime below 2^63 whose `q - 1` has 36. Moduli up to 3^33 are safe (`StackSuffices`). |
| `TransformNaive` | `examples/adapters/naive/ntt_naive.c:214` | `omega` is `psi^2` whatever the configuration says; a cyclic context has `psi = 0` and inverse does not undo forward. |
| `TransformCyclic` | `src/common/ntt_api.c:55` | `ntt_negacyclic_mul` does not look at the type of its context. On a cyclic one `psi` is zero, and what comes back with `NTT_OK` is the product of the constant terms, not the one modulo `x^n + 1` that `ntt.h:70` gives: for `q = 5`, `n = 2`, `x * x` is 0 and not -1. |

`CompositeIsRejected` is also a property of `RootResolution`. It holds there
because the moduli of that run leave out the numbers of `PrimalityFooled`; there
it shows that every other composite up to the bound is rejected.

Three behaviours at the edge are excluded by a guard or a premise that names them:

- Size one with a given `omega` (`ntt_utils.c:824`): `omega` can only be 1, whose
  square root comes out as 1, though a primitive second root would be `q - 1`.
  `RootsFit` names the case `Degenerate`.
- `2 * n` wraps at `n = 2^31` (`ntt_utils.c:801`), so a negacyclic request of that
  size is refused whatever the modulus; `RefusedOnlyIfImpossible` names the case by
  comparing `Double` with `2 * n`.
- For `q < 2^32` the half-word Montgomery product cuts its operands to 32 bits
  (`montgomery.c:234`). Residues are not affected, but `scalar_reduce` is meant for
  any integer (`ntt_arith.c:60`), and a root given as a representative of 2^32 or
  more passes `ntt__resolve_roots` unreduced and reaches it in setup (`ntt.c:304`):
  it is then canonicalized to the wrong residue. The guard `Fits` of Arithmetic
  leaves such operands out; `ComputesInRing` is about all others.

A fourth is an input outside the documented format that no run treats as an error:

- `docs/CONFIGURATION.md:48` says that `#` comments are ignored; of a comment of 512
  bytes or more only the first piece is, and its tail may set a key, which
  `get_default` then obeys. Line 47 limits lines to 512 characters, so that such a file
  is not one the documentation describes. `BuffersAreLastValues` therefore has the
  premise `CommentsSilent`, and holds a comment to set nothing; without the premise TLC
  finds a default resolved from a tail after one call, in the one environment of
  MCDefaultAdapter that has such a file. The other properties of that run hold with the
  tail obeyed. A value that long is cut without an error, and `BuffersAreLastValues` says with what result.

## 7. What is not modelled

- Overlapping calls of loader and selection: the source takes no lock there and
  nothing says they may overlap.
- Log formatting and output, path building, the parsing of numbers: text.
- The wrappers over the platform (`dlopen`, `aligned_alloc`, wide arithmetic
  intrinsics): modelled by what their callers rely on, as external definitions.
- The adapters' descriptors: constant tables. Core versions other than the one
  there is: a module built against the next one is modelled, a library is not.
- Of the examples, the search for a root, command lines and output; the tests and
  the build.
- Where `fgets` cuts a long line: the pieces are given, as any other input is.
- The third of the known moduli: it does not fit TLC's integers. The last two
  witnesses, which are always skipped below the bound.
- The toy adapter's `m <<= 1`, which wraps at `n = 2^31`.
- One context used by several threads, which no document says it may be: every
  thread of ContextLifecycle has its own.
- The Windows branch of `DefaultPath` (`ntt_cfg_file.c:68`), and the first 64 rounds of
  the long division without 128-bit integers (`barrett.c:232`), which leave the
  remainder as it is, since it is below `q`.
- `unload_all` with a live context of a module, which `ntt_adapter.h` forbids.

## 8. Plan

The order so far was that of importance: what may dangle (loader, selection),
what may leak or race (contexts, logging), what must be exact (number theory,
arithmetic, transforms); and the proofs followed it. Every safety property of the
passing runs is now a theorem. What could follow, in this order:

1. That `ResolutionEnds` follows from `ResolutionDescends` and the totality of the
   guards, in a prover with `ENABLED` and the rule for well-founded orders.
2. A number of steps in place of the rank: a bound on the work of
   `ntt__resolve_roots` in terms of `q`.
3. The hypotheses of `CompositesRejected` for the table of the code, from a proof of the
   bound on strong probable primes, if one that can be checked here is found.
