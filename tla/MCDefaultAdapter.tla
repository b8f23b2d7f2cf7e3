--------------------------- MODULE MCDefaultAdapter ---------------------------
(***************************************************************************)
(* Modules of each kind in a table of three slots: two that are sound, one *)
(* of which sometimes refuses; one without the entry symbol, one too new,  *)
(* one too small; the others are missing.  A name and a directory do not   *)
(* fit.  Environments: no configuration at all; a file under HOME naming   *)
(* the toy adapter, with a directory cut at the end of its first piece; a  *)
(* NTT_CONFIG_FILE that names a module behind a comment too long for one   *)
(* piece, and then an adapter that does not fit, with the directory given  *)
(* by the environment; the same file with a directory variable that is too *)
(* long, or with a comment whose tail sets a key.                          *)
(***************************************************************************)
EXTENDS DefaultAdapter, TLC

CONSTANTS naive, cut, longName, lib, cutDir, longDir

MCNames == {Scalar, ScalarToy, naive, cut, longName}
MCDirs == {lib, cutDir, longDir}
MCModules == MCDirs \X (MCNames \union {Empty})

sound == <<lib, naive>>
flaky == <<lib, cut>>
plain == <<cutDir, naive>>
tooNew == <<cutDir, cut>>
small == <<cutDir, longName>>

MCOpenable == {sound, flaky, plain, tooNew, small}
MCHasEntry == MCModules \ {plain}

Fitting == [abi |-> 1, size |-> 88]

MCAnswers == [m \in MCModules |->
  CASE m = flaky  -> {Fitting, NULL}
    [] m = tooNew -> {[abi |-> 2, size |-> 96]}
    [] m = small  -> {[abi |-> 1, size |-> 80]}
    [] OTHER      -> {Fitting}]

Piece(key, value) == [key |-> key, value |-> value, comment |-> FALSE]
Line(key, value) == <<Piece(key, value)>>
LongComment(key, value) ==
  <<[key |-> "other", value |-> Empty, comment |-> TRUE],
    [key |-> key, value |-> value, comment |-> TRUE]>>

ToyFile == <<Line("other", longName), Line("adapter", naive),
             <<Piece("module_dir", cutDir), Piece("other", Empty)>>,
             Line("adapter", Empty), Line("adapter", ScalarToy)>>
TornFile(key) == <<LongComment(key, cut), Line("module_dir", lib), Line("adapter", naive),
                   Line("adapter", longName), Line("adapter", ScalarToy)>>

MCEnvironments ==
  { [configFile |-> c.file, home |-> c.home, moduleDir |-> c.dir,
     file |-> [NTT_CONFIG_FILE |-> TornFile(c.tail), HOME |-> ToyFile],
     readable |-> [NTT_CONFIG_FILE |-> TRUE, HOME |-> c.home = "fits"]] :
    c \in { [file |-> "unset", home |-> "unset", dir |-> Empty,   tail |-> "other"],
            [file |-> "unset", home |-> "fits",  dir |-> lib,     tail |-> "other"],
            [file |-> "fits",  home |-> "fits",  dir |-> lib,     tail |-> "other"],
            [file |-> "fits",  home |-> "unset", dir |-> longDir, tail |-> "other"],
            [file |-> "fits",  home |-> "fits",  dir |-> lib,     tail |-> "adapter"],
            [file |-> "long",  home |-> "fits",  dir |-> lib,     tail |-> "other"] } }

=============================================================================
