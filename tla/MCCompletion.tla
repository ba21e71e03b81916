----------------------------- MODULE MCCompletion -----------------------------
(***************************************************************************)
(* Small instances of Completion for TLC: turns with text, with one call   *)
(* and with two, also such whose calls share an id or have none.           *)
(***************************************************************************)
EXTENDS Completion

Call(id, name, args) == [id |-> id, name |-> <<name>>, args |-> args]
MCTurns ==
    {[content |-> <<"t", "u">>, calls |-> <<>>],
     [content |-> <<"o", "p">>, calls |-> <<>>],
     [content |-> <<"t">>, calls |-> <<Call(<<"a">>, "f", <<"x", "y">>), Call(<<"b">>, "f", <<"z", "w">>)>>],
     [content |-> <<>>, calls |-> <<Call(<<"a">>, "f", <<"x">>), Call(<<"a">>, "g", <<"y">>)>>],
     [content |-> <<>>, calls |-> <<Call(<<>>, "f", <<"x">>)>>]}
MCObjects ==
    [c \in {<<"o", "p">>} |-> [reply |-> <<>>, calls |-> <<<<"f">>, <<"f">>>>]]
=============================================================================
