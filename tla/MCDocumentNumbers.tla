-------------------------- MODULE MCDocumentNumbers -------------------------
(* One year with a history (a number out of order, a duplicate, a reference  *)
(* that is no SI number and one at the limit) and one without any.           *)
EXTENDS DocumentNumbers

MCYears == {1, 2}
MCHistory == << <<Padded(3), <<1, "plain">>, Padded(3), <<1, "plain">>, <<7, "padded">>, <<0, "other">>>>,
               <<>> >>

Asking(year, paper) == [year |-> year, paper |-> paper]

MCAsks ==
    { Asking(1, Blank), Asking(1, Padded(2)), Asking(1, <<1, "plain">>),
      Asking(2, Blank), Asking(2, Padded(1)) }
=============================================================================
