----------------------------- MODULE MCFraming -----------------------------
(* Small instances of Framing for TLC. *)
EXTENDS Framing

a == Chr("a")

Put(id, v) == [op |-> "set", id |-> id, value |-> v]
AddTo(id, v) == [op |-> "add", id |-> id, value |-> v]
Msg(type, calls) == [type |-> type, calls |-> calls]
MCMessages ==
    {Msg(2, <<Put(11, <<Num(1)>>), Put(44, <<a>>),
              Put(61, <<Quote, a, Quote>>)>>),
     Msg(1, <<Put(115, <<a>>), AddTo(115, <<a>>), Put(0, <<a>>), Put(47, <<>>)>>),
     Msg(1, <<Put(44, <<a>>), Put(62, <<Quote>>), Put(127, <<a>>)>>),
     Msg(2, <<Put(3, <<a, a, a>>), Put(61, <<a>>)>>),
     Msg(1, <<Put(47, <<a, a, a, a>>)>>)}
MCLetters == {a, Quote, Num(1)}
MCPayloads == {<<>>, <<a>>, <<STX, ETX, a>>, <<Quote, ACK>>}
Spec == FramingSpec /\ FramingFairness
=============================================================================
