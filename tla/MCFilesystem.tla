---------------------------- MODULE MCFilesystem ----------------------------
(* Small trees, few callers' paths and flags.                               *)
EXTENDS Filesystem

Absolute(parts) == [absolute |-> TRUE, parts |-> parts]
Relative(parts) == [absolute |-> FALSE, parts |-> parts]

Flash == <<"flash", 0>>
Sd == <<"sd", 0>>
a == <<"a", 0>>
A == <<"a", 1>>
b == <<"b", 0>>

Flags(access, append, create, excl, trunc) ==
  [access |-> access, append |-> append, create |-> create, excl |-> excl,
   trunc |-> trunc]

\* Two names, one of them in two spellings, two levels.
TreeRequests ==
  {Absolute(<<Flash, a>>), Absolute(<<Flash, b>>), Absolute(<<Flash, a, b>>),
   Relative(<<A>>)}
TreeFlags == {Flags("O_RDWR", FALSE, TRUE, FALSE, TRUE)}

\* One name on each volume, every way to open it.
IoRequests == {Absolute(<<Flash, a>>), Relative(<<DotDot, Sd, a>>)}
IoFlags == {Flags("O_RDWR", FALSE, TRUE, FALSE, TRUE),
            Flags("O_RDWR", FALSE, FALSE, FALSE, FALSE),
            Flags("O_WRONLY", TRUE, FALSE, FALSE, FALSE),
            Flags("O_RDONLY", FALSE, FALSE, FALSE, FALSE)}
IoOffsets == {-1, 0, 1}
=============================================================================
