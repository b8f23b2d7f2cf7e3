---------------------------- MODULE DefaultAdapter ----------------------------
(***************************************************************************)
(* Adapter selection in libntt (src/common/ntt_adapter.c): the process-wide*)
(* default, requested by set_default or by the environment, resolved on    *)
(* first use and cached; and explicit loads.  Composes the module loader   *)
(* and the configuration file.                                             *)
(***************************************************************************)
EXTENDS LoaderParameters, Sequences, FiniteSets

CONSTANTS
  Names, Dirs,          \* strings callers and files may use, Empty excluded
  LongNames, LongDirs,  \* those of them that do not fit the static buffers
  CutName, CutDir,      \* what snprintf leaves of a string that does not fit
  Empty,
  Scalar, ScalarToy,    \* the built-in adapters, by their names
  Environments          \* states of the environment variables and the files

Builtins == {Scalar, ScalarToy}

\* Where the configuration file is looked for, and what can be read of it.
Paths == {"NTT_CONFIG_FILE", "HOME"}
AdapterValues == Names \union {Empty}
DirValues == (Dirs \ LongDirs) \union {Empty}
ConfigPieces ==
  [key : {"adapter"}, value : AdapterValues, comment : BOOLEAN] \union
  [key : {"module_dir"}, value : DirValues, comment : BOOLEAN] \union
  [key : {"other"}, value : AdapterValues \union DirValues, comment : BOOLEAN]

ASSUME DefaultAssumption ==
  /\ Builtins \subseteq Names \ LongNames
  /\ LongNames \subseteq Names /\ LongDirs \subseteq Dirs
  /\ CutName \in Names \ LongNames /\ CutDir \in Dirs \ LongDirs
  /\ Empty \notin Names \union Dirs
  /\ NULL \notin Names \union Dirs \union {Empty}
  \* a module is named by a directory and an adapter name
  /\ Modules = Dirs \X (Names \union {Empty})
  /\ Builtins \intersect Modules = {}

ASSUME EnvironmentAssumption ==
  \A e \in Environments :
    /\ e.moduleDir \in Dirs \union {Empty}
    \* a file is lines, a line the pieces it comes in; a piece, of at most
    \* NTT_CFG_LINE_MAX bytes, fits the buffer for a directory
    /\ \A path \in Paths : e.file[path] \in Seq(Seq(ConfigPieces))
    \* a comment is known by its beginning
    /\ \A path \in Paths : \A l \in DOMAIN e.file[path] :
         LET line == e.file[path][l] IN
         \A i \in DOMAIN line : /\ line[i].comment = line[1].comment
                                /\ line[1].comment => line[1].key = "other"

VARIABLES
  loaded, refs, handed,  \* the module loader
  env,                   \* what the process sees of its environment
  defaultName,           \* ntt__default_name
  defaultDir,            \* ntt__default_module_dir
  explicit,              \* ntt__default_explicit
  cache,                 \* ntt__default_cache
  override,              \* the last request set_default accepted (history)
  wanted,                \* the request the cache was resolved for (history)
  torn                   \* a refused request wrote over the override (history)

Loader == INSTANCE ModuleLoader
File == INSTANCE ConfigFile

loaderVars == <<loaded, refs, handed>>
settings == <<defaultName, defaultDir, explicit, override, torn>>
vars == <<loaderVars, env, settings, cache, wanted>>

\* What set_default asks for.
SetRequest(name, dir) == [from |-> "set_default", name |-> name, dir |-> dir]

Init ==
  /\ Loader!Init
  /\ env \in Environments
  /\ defaultName = Empty /\ defaultDir = Empty /\ explicit = FALSE
  /\ cache = NULL /\ override = NULL /\ wanted = NULL /\ torn = FALSE

-----------------------------------------------------------------------------

\* Faulty variant: every built-in name is answered by the first built-in.
ResolveDefaultFirstBuiltin(name, dir, adapter) ==
  \/ /\ name \in Builtins \union {Empty} \/ dir = Empty
     /\ adapter = Scalar
     /\ UNCHANGED loaderVars
  \/ /\ name \notin Builtins \union {Empty} /\ dir # Empty
     /\ \E found \in {<<dir, name>>, NULL} :
          /\ Loader!LoadFromDir(<<dir, name>>, found)
          /\ adapter = IF found = NULL THEN Scalar ELSE found

\* ntt__resolve_default: built-in, else module, else scalar.
ResolveDefault(name, dir, adapter) ==
  \/ /\ name \in Builtins
     /\ adapter = name
     /\ UNCHANGED loaderVars
  \/ /\ name = Empty \/ (name \notin Builtins /\ dir = Empty)
     /\ adapter = Scalar
     /\ UNCHANGED loaderVars
  \/ /\ name \notin Builtins \union {Empty} /\ dir # Empty
     /\ \E found \in {<<dir, name>>, NULL} :
          /\ Loader!LoadFromDir(<<dir, name>>, found)
          /\ adapter = IF found = NULL THEN Scalar ELSE found

\* ntt_adapter_set_default, with NULL or an empty name
SetDefaultInvalid == UNCHANGED vars

\* The name is copied before its length is looked at.
SetDefaultNameTooLong(name) ==
  /\ name \in LongNames
  /\ defaultName' = CutName
  /\ torn' = (torn \/ explicit)
  /\ UNCHANGED <<loaderVars, env, defaultDir, explicit, override, cache, wanted>>

\* The name is in place already when the directory turns out too long.
SetDefaultDirTooLong(name, dir) ==
  /\ name \notin LongNames
  /\ dir \in LongDirs
  /\ defaultName' = name
  /\ defaultDir' = CutDir
  /\ torn' = (torn \/ explicit)
  /\ UNCHANGED <<loaderVars, env, explicit, override, cache, wanted>>

\* Faulty variant: the default resolved before stays cached.
SetDefaultKeepingCache(name, dir) ==
  /\ name \notin LongNames
  /\ dir \notin LongDirs
  /\ defaultName' = name
  /\ defaultDir' = dir
  /\ explicit' = TRUE
  /\ override' = SetRequest(name, dir)
  /\ torn' = FALSE
  /\ UNCHANGED <<loaderVars, env, cache, wanted>>

\* dir = Empty stands for NULL too
SetDefaultAccepted(name, dir) ==
  /\ name \notin LongNames
  /\ dir \notin LongDirs
  /\ defaultName' = name
  /\ defaultDir' = dir
  /\ explicit' = TRUE
  /\ cache' = NULL
  /\ override' = SetRequest(name, dir)
  /\ wanted' = NULL
  /\ torn' = FALSE
  /\ UNCHANGED <<loaderVars, env>>

SetDefault(name, dir) ==
  \/ SetDefaultNameTooLong(name)
  \/ SetDefaultDirTooLong(name, dir)
  \/ SetDefaultAccepted(name, dir)

-----------------------------------------------------------------------------

\* What reading the configuration file may leave in the two buffers: an error
\* can end it after any piece.  Whether reading succeeded is not looked at.
ConfigFileReads(e) ==
  LET path == File!DefaultPath(e.configFile, e.home) IN
  IF path = "none" \/ ~e.readable[path]
  THEN {[pieces |-> << >>, buffers |-> File!Unopened]}
  ELSE {[pieces |-> pieces, buffers |-> File!FileLoad(pieces)] :
          pieces \in File!Prefixes(File!Pieces(e.file[path]))}

\* The request of the environment, and where it comes from:
\* NTT_ADAPTER_MODULE_DIR beats module_dir, cut to the buffer.
EnvironmentRequest(e, read) ==
  [from |-> "environment",
   name |-> read.buffers.adapter,
   dir |-> CASE e.moduleDir = Empty -> read.buffers.module_dir
             [] e.moduleDir \in LongDirs -> CutDir
             [] OTHER -> e.moduleDir,
   read |-> read]

\* The request that may be in force without an override.
EnvironmentAsks == {EnvironmentRequest(env, read) : read \in ConfigFileReads(env)}

\* Faulty variant: without an override the environment is asked every time.
GetDefaultUncached(adapter) ==
  /\ cache # NULL
  /\ ~explicit
  /\ \E request \in EnvironmentAsks :
       /\ ResolveDefault(request.name, request.dir, adapter)
       /\ wanted' = request
  /\ cache' = adapter
  /\ UNCHANGED <<env, settings>>

GetDefaultCached(adapter) ==
  /\ cache # NULL
  /\ adapter = cache
  /\ UNCHANGED vars

GetDefaultExplicit(adapter) ==
  /\ cache = NULL
  /\ explicit
  /\ ResolveDefault(defaultName, defaultDir, adapter)
  /\ cache' = adapter
  /\ wanted' = override
  /\ UNCHANGED <<env, settings>>

GetDefaultFromEnvironment(adapter) ==
  /\ cache = NULL
  /\ ~explicit
  /\ \E request \in EnvironmentAsks :
       /\ ResolveDefault(request.name, request.dir, adapter)
       /\ wanted' = request
  /\ cache' = adapter
  /\ UNCHANGED <<env, settings>>

\* ntt_adapter_get_default, and ntt_adapter_get of any selector but the two
\* built-in ones, which change nothing
GetDefault(adapter) ==
  \/ GetDefaultCached(adapter)
  \/ GetDefaultExplicit(adapter)
  \/ GetDefaultFromEnvironment(adapter)

\* ntt_adapter_load with a directory; without one it only reads the registry
Load(name, dir, adapter) ==
  /\ Loader!LoadFromDir(<<dir, name>>, adapter)
  /\ UNCHANGED <<env, settings, cache, wanted>>

\* Faulty variant: the name is reset to NULL, not to the empty string.
ResetDefaultToNull ==
  /\ cache' = NULL /\ wanted' = NULL
  /\ defaultName' = NULL /\ defaultDir' = Empty /\ explicit' = FALSE
  /\ override' = NULL /\ torn' = FALSE

\* ntt__adapter_reset_default
ResetDefault ==
  /\ cache' = NULL /\ wanted' = NULL
  /\ defaultName' = Empty /\ defaultDir' = Empty /\ explicit' = FALSE
  /\ override' = NULL /\ torn' = FALSE

\* Faulty variant: the default outlives its module.
UnloadAllKeepingDefault ==
  /\ Loader!UnloadAll
  /\ UNCHANGED <<env, settings, cache, wanted>>

\* ntt_adapter_unload_all
UnloadAll ==
  /\ Loader!UnloadAll
  /\ ResetDefault
  /\ UNCHANGED env

\* The environment of the process, or a file, changes under the library.
ChangeEnvironment ==
  /\ env' \in Environments
  /\ UNCHANGED <<loaderVars, settings, cache, wanted>>

Adapters == Builtins \union Modules

Next ==
  \/ SetDefaultInvalid
  \/ \E name \in Names, dir \in Dirs \union {Empty} : SetDefault(name, dir)
  \/ \E adapter \in Adapters : GetDefault(adapter)
  \/ \E name \in Names \union {Empty}, dir \in Dirs :
       \E adapter \in {<<dir, name>>, NULL} : Load(name, dir, adapter)
  \/ UnloadAll
  \/ ChangeEnvironment

Spec == Init /\ [][Next]_vars

-----------------------------------------------------------------------------

\* What can be asked for, by set_default and by the environment.
SetRequests == [from : {"set_default"}, name : Names, dir : Dirs \union {Empty}]

Buffers == [ok : BOOLEAN, adapter : AdapterValues \ LongNames, module_dir : DirValues]

Reads ==
  [pieces : UNION {File!Prefixes(File!Pieces(e.file[path])) :
                     e \in Environments, path \in Paths},
   buffers : Buffers]

EnvironmentRequests ==
  [from : {"environment"}, name : Names \union {Empty}, dir : Dirs \union {Empty},
   read : Reads]

Requests == SetRequests \union EnvironmentRequests

\* No request is mistaken for none.
ASSUME RequestAssumption == NULL \notin Requests

TypeOK ==
  /\ Loader!TypeOK
  /\ env \in Environments
  /\ defaultName \in Names \union {Empty}
  /\ defaultDir \in Dirs \union {Empty}
  /\ explicit \in BOOLEAN /\ torn \in BOOLEAN
  /\ cache \in Adapters \union {NULL}
  /\ override \in SetRequests \union {NULL}
  /\ wanted \in Requests \union {NULL}

\* The last piece among the first k that gives the key a value: a comment does not.
LastValue(pieces, key, k) ==
  LET setters == {i \in 1 .. k : pieces[i].key = key /\ ~pieces[i].comment} IN
  IF setters = {} THEN Empty ELSE pieces[File!Max(setters)].value

\* No comment is so long that a piece of it reads as a setting.
CommentsSilent(pieces) ==
  \A i \in 1 .. Len(pieces) : pieces[i].comment => pieces[i].key \notin File!Keys

(***************************************************************************)
(* Wherever reading the configuration file ended, at its end, at an error  *)
(* or at a value that does not fit, each buffer the default is resolved    *)
(* from holds the last value its key was given before, also when the line  *)
(* that gave it came in several pieces: nothing of the refused piece,      *)
(* nothing behind it, and none skipped.  docs/CONFIGURATION.md limits      *)
(* lines to 512 characters and has comments ignored: a longer comment is   *)
(* outside that format, and if its tail reads as a setting the code obeys  *)
(* it, so such a file is left out here.                                    *)
(***************************************************************************)
BuffersAreLastValues ==
  wanted # NULL /\ wanted.from = "environment" /\ CommentsSilent(wanted.read.pieces) =>
    LET pieces == wanted.read.pieces
        Refused(i) == /\ pieces[i].key \in File!Keys
                      /\ pieces[i].value \in File!TooLong(pieces[i].key)
        handled == {i \in 0 .. Len(pieces) : \A j \in 1 .. i : ~Refused(j)}
    IN \A key \in File!Keys :
         wanted.read.buffers[key] = LastValue(pieces, key, File!Max(handled))

\* The adapters that may answer a request: the built-in or the module it
\* names, and scalar if no built-in is named.
Candidates(r) ==
  IF r.name \in Builtins THEN {r.name}
  ELSE {Scalar} \union
       (IF r.name # Empty /\ r.dir # Empty THEN {<<r.dir, r.name>>} ELSE {})

(***************************************************************************)
(* The cached default is an adapter its request allows: a set_default call *)
(* in force is what get_default answers, and only without one does the     *)
(* environment decide.  A request refused for its length must not have     *)
(* overwritten the one in force.                                           *)
(***************************************************************************)
DefaultHonoursRequest == cache # NULL /\ ~torn => cache \in Candidates(wanted)

(***************************************************************************)
(* The same without the exception: include/ntt/ntt_adapter.h puts first,   *)
(* in the order of resolution, "the adapter set via                        *)
(* ntt_adapter_set_default()".                                             *)
(***************************************************************************)
DefaultHonoursOverride ==
  cache # NULL /\ override # NULL => cache \in Candidates(override)

(***************************************************************************)
(* The cache is never older than the request in force: an accepted         *)
(* set_default is not masked by a default resolved before it, and no       *)
(* override survives unload_all.                                           *)
(***************************************************************************)
NoStaleDefault ==
  cache # NULL =>
    IF override # NULL THEN wanted = override ELSE wanted.from = "environment"

(***************************************************************************)
(* A cached default from a module has its code mapped while the table of   *)
(* handles has room: unload_all never leaves a default behind.             *)
(***************************************************************************)
DefaultResident ==
  cache \in Modules /\ Loader!FreeSlots # {} => Loader!Resident(cache)

(***************************************************************************)
(* The default is stable: whatever the environment and the files do, it    *)
(* changes only by an accepted set_default or by unload_all.               *)
(***************************************************************************)
DefaultStable ==
  [][cache # NULL /\ cache' # cache =>
       \/ \E name \in Names, dir \in Dirs \union {Empty} : SetDefaultAccepted(name, dir)
       \/ UnloadAll]_vars

(***************************************************************************)
(* What ModuleLoader promises, in the library that resolves its default    *)
(* through it: the linker counts the handles of the table, whatever fails  *)
(* in a load that selection makes on its way to an adapter.                *)
(***************************************************************************)
HandlesBalanced == Loader!HandlesBalanced

\* While a slot is free, the adapters handed out have their code mapped, those
\* that get_default resolved included.
HandedOutResident == Loader!HandedOutResident

\* Only ntt_adapter_unload_all unmaps a module: no load that is refused, by
\* ntt_adapter_load or on the way to a default, closes a handle of another.
OnlyUnloadAllUnmaps ==
  [][(\E m \in Modules : Loader!Resident(m) /\ ~Loader!Resident(m)') => UnloadAll]_vars

\* Under all calls of selection the loader keeps to ModuleResidency.
Refinement == Loader!Refinement

=============================================================================
