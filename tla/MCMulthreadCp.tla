---------------------------- MODULE MCMulthreadCp ----------------------------
EXTENDS MulthreadCp

CONSTANTS a, b, h, x, y

\* The tree with these entries, each a path with what is there.
TreeOf(entries) ==
  [p \in Path |-> IF p = <<>> THEN Dir
                  ELSE IF \E e \in entries : e[1] = p
                    THEN (CHOOSE e \in entries : e[1] = p)[2] ELSE NoEntry]

\* A directory with a file, a hidden one and a subdirectory with a file of the same
\* name; beside it nothing, a shorter or longer file, or a directory that has part of
\* what the first has.
Source == {<<<<a>>, Dir>>, <<<<a, a>>, <<x>>>>, <<<<a, h>>, <<y>>>>, <<<<a, b>>, Dir>>, <<<<a, b, a>>, <<y>>>>}
SmallTrees == {TreeOf(Source \cup beside) : beside \in
  {{}, {<<<<b>>, <<y>>>>},
   {<<<<b>>, Dir>>, <<<<b, a>>, <<y, y>>>>},
   {<<<<b>>, Dir>>, <<<<b, b>>, <<x>>>>}}}
  \cup {TreeOf({<<<<a>>, <<x, y>>>>, <<<<b>>, <<y>>>>}), TreeOf({<<<<a>>, Dir>>, <<<<a, b>>, Dir>>})}
DstB == <<b>>
NamedPaths == {<<a>>, <<b>>, <<a, a>>, <<a, b>>, <<b, a>>, <<h>>}
=============================================================================
