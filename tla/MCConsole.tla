------------------------------ MODULE MCConsole ------------------------------
(* kvsprintf on directives of all kinds and kprintf on a small screen.     *)
EXTENDS Console

Flags == {<<>>, <<"0">>, <<"#">>, <<"#", "0">>, <<" ", "0">>}

Of(spec, length, precision) ==
  [flags : Flags, width : {0, 12}, precision : precision, length : length, spec : spec]

(* 70 is more than the six bits a pad size has.                            *)
MCDirectives ==
  {[directive |-> d, arguments |-> 0..2^WordBits - 1] :
      d \in Of(Integral \cup {"p"}, {"none", "h", "hh", "l", "ll"}, {0, 3, 63, 70})}
  \cup
  {[directive |-> d, arguments |-> {-12345, -50, -1, 0, 7, 99, 100, 999, 1000, 1005, 40960}] :
      d \in Of({"f", "F"}, {"none"}, {0, 1, 2, 5})}

(* The directive of handle_exception, %02x.                                *)
MCException ==
  {[directive |-> [flags |-> <<"0">>, width |-> 2, precision |-> 0, length |-> "none", spec |-> "x"],
    arguments |-> 0..31]}

MCMessages ==
  {[format |-> <<"a">>, args |-> <<>>],
   [format |-> <<"%", "c", "\n">>, args |-> <<"b">>],
   [format |-> <<"%", "%", "%", "s">>, args |-> <<[pointer |-> "null"]>>],
   [format |-> <<"%", "s", "\n">>, args |-> <<[pointer |-> "good", text |-> <<"c", "\n", "c">>]>>],
   [format |-> <<"%", "s">>, args |-> <<[pointer |-> "bad"]>>],
   [format |-> <<"%", "p", "%">>, args |-> <<0>>]}
=============================================================================
