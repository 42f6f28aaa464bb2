----------------------------- MODULE FilePaths -----------------------------
(***************************************************************************)
(* The path arithmetic of the POSIX file layer                             *)
(* (platform/runtime/libc/filesystem.cpp).                                 *)
(*                                                                         *)
(* A path is a sequence of components and a component a pair <<name,       *)
(* spelling>>: FileX and the adapter compare names with ASCII case folded  *)
(* but keep the spelling.  The virtual root is the empty sequence, a mount *)
(* is a path of one component.  All names are taken to be equally long, so *)
(* that the length of a path is its number of components.                  *)
(***************************************************************************)
EXTENDS Naturals, Sequences, SequencesExt

OK == "OK"

\* A finite sequence, whatever its elements are.
IsSequence(s) == Len(s) \in Nat /\ s = [i \in 1 .. Len(s) |-> s[i]]

\* The error a chain of checks reports: that of the first one that fails.
FirstError(error, next) == IF error = OK THEN next ELSE error

Dot == <<".", 0>>
DotDot == <<"..", 0>>

fold_ascii_case(component) == component[1]

\* One round of the loop of normalize_path_unlocked.
NormalizeStep(maximum, output, component) ==
  IF output.error # OK \/ component = Dot THEN output
  ELSE IF component = DotDot
    THEN IF output.path = <<>> THEN [output EXCEPT !.error = "EACCES"]
                               ELSE [output EXCEPT !.path = Front(@)]
  ELSE IF Len(output.path) = maximum THEN [output EXCEPT !.error = "ENAMETOOLONG"]
  ELSE [output EXCEPT !.path = Append(@, component)]

\* request is what the caller passes: [absolute : BOOLEAN, parts : Seq(component)].
normalize_path(cwd, maximum, request) ==
  LET source == IF request.absolute THEN request.parts ELSE cwd \o request.parts
      output[i \in 0 .. Len(source)] ==
        IF i = 0 THEN [error |-> OK, path |-> <<>>]
                 ELSE NormalizeStep(maximum, output[i - 1], source[i])
  IN  IF ~request.absolute /\ request.parts = <<>>
        THEN [error |-> "ENOENT", path |-> <<>>]
      ELSE IF Len(source) > maximum
        THEN [error |-> "ENAMETOOLONG", path |-> <<>>]
      ELSE output[Len(source)]

\* Nothing but the root itself has the prefix "/": the character after it is
\* neither the end nor a slash.
path_has_prefix(path, prefix, include_descendants) ==
  /\ Len(prefix) <= Len(path)
  /\ \A i \in DOMAIN prefix : fold_ascii_case(path[i]) = fold_ascii_case(prefix[i])
  /\ Len(path) = Len(prefix) \/ (include_descendants /\ prefix # <<>>)

paths_equal(first, second) == path_has_prefix(first, second, FALSE)

migrate_path(path, old_prefix, new_prefix, include_descendants) ==
  IF path_has_prefix(path, old_prefix, include_descendants)
    THEN new_prefix \o SubSeq(path, Len(old_prefix) + 1, Len(path))
    ELSE path

migrated_path_length(path, old_prefix, new_prefix, include_descendants) ==
  Len(migrate_path(path, old_prefix, new_prefix, include_descendants))
=============================================================================
