------------------------------ MODULE MCShell ------------------------------
(* Instances of Shell for TLC. *)
EXTENDS Shell

C(prog) == [prog |-> prog, infile |-> FALSE, outfile |-> FALSE]
In(prog) == [prog |-> prog, infile |-> TRUE, outfile |-> FALSE]
Out(prog) == [prog |-> prog, infile |-> FALSE, outfile |-> TRUE]
InOut(prog) == [prog |-> prog, infile |-> TRUE, outfile |-> TRUE]

ShortLines ==
  {<<C("gen")>>, <<C("")>>, <<InOut("cat")>>,
   <<C("gen"), C("cat")>>, <<C("gen"), C("quit")>>, <<C("gen"), C("")>>,
   <<In("cat"), Out("cat")>>, <<Out("gen"), C("cat")>>, <<C("gen"), In("cat")>>}

LongLines ==
  {<<C("quit")>>,
   <<C("gen"), C("cat"), C("cat")>>, <<C("gen"), C("quit"), C("cat")>>,
   <<C("gen"), Out("cat"), C("cat")>>,
   <<C("gen"), C("cat"), C("quit"), C("cat")>>}

(* Nothing, less than NITEMS items, and more. *)
Held == {<<>>, <<-1>>, <<-1, -1, -1>>}

AllLines == ShortLines \cup LongLines
=============================================================================
