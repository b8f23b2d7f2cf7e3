------------------------------ MODULE ConfigFile ------------------------------
(***************************************************************************)
(* The configuration file of libntt (src/common/ntt_cfg_file.c): where it  *)
(* is looked for, and what reading it leaves in the two output buffers.    *)
(*                                                                         *)
(* A file is a sequence of lines, a line the sequence of pieces fgets      *)
(* delivers it in: one, unless the line has NTT_CFG_LINE_MAX bytes or more.*)
(* A piece is what the parser can tell of it: its key once trimmed (any    *)
(* other text, and what begins with #, has key "other") and its value,     *)
(* Empty if there is none; and whether the line it comes from is a         *)
(* comment, which the parser does not know: it takes each piece for a      *)
(* line.  So the value of a long line is cut, and the tail of a long       *)
(* comment may set a key.                                                  *)
(***************************************************************************)
EXTENDS Naturals, Sequences, SequencesExt

CONSTANTS
  Empty,      \* the empty string
  LongNames,  \* strings that do not fit the buffer for an adapter name
  LongDirs    \* strings that do not fit the buffer for a directory

\* The outputs of ntt__config_file_load before the first line.
Cleared == [ok |-> TRUE, adapter |-> Empty, module_dir |-> Empty]

\* The file cannot be opened.
Unopened == [Cleared EXCEPT !.ok = FALSE]

\* The buffer of a key and the values that do not fit it.
Keys == {"adapter", "module_dir"}
TooLong(key) == IF key = "adapter" THEN LongNames ELSE LongDirs

\* Faulty variant: the first value of a key wins.
ParseLineFirstWins(out, piece) ==
  IF ~out.ok \/ piece.key \notin Keys THEN out
  ELSE IF piece.value \in TooLong(piece.key) THEN [out EXCEPT !.ok = FALSE]
  ELSE IF out[piece.key] # Empty THEN out
  ELSE [out EXCEPT ![piece.key] = piece.value]

\* ntt__config_parse_line and the loop's reaction: a value that does not fit
\* ends the reading, and what was stored by then stays in the buffers.
ParseLine(out, piece) ==
  IF ~out.ok \/ piece.key \notin Keys THEN out
  ELSE IF piece.value \in TooLong(piece.key) THEN [out EXCEPT !.ok = FALSE]
  ELSE [out EXCEPT ![piece.key] = piece.value]

\* What fgets delivers of a file when nothing goes wrong.
Pieces(file) == FlattenSeq(file)

\* ntt__config_file_load, when fgets delivers these pieces and then meets the
\* end of the file or an error.
FileLoad(pieces) == FoldLeft(ParseLine, Cleared, pieces)

\* ntt__config_default_path: which candidate file is read, if any.  "unset"
\* stands for an empty variable too; a NTT_CONFIG_FILE too long for the buffer
\* does not fall back to HOME.  HOME stands for all of the branch without
\* NTT_CONFIG_FILE: on Windows it goes by USERPROFILE, or HOMEDRIVE and HOMEPATH.
DefaultPath(configFile, home) ==
  CASE configFile = "fits" -> "NTT_CONFIG_FILE"
    [] configFile = "unset" /\ home = "fits" -> "HOME"
    [] OTHER -> "none"

=============================================================================
