--------------------------- MODULE MCRecordParser ---------------------------
(* Directories that the parser looks for, or that look like them. *)
EXTENDS RecordParser

Directories ==
    {NoText, <<"a">>, <<"0">>, <<"frames">>, <<"vars">>, <<"frames", "txt">>,
     <<"a", "f32", "ind">>, <<"", "u8", "uni">>, <<"f32", "ind">>, <<"a", "f32", "">>,
     <<"a", "b", "i64", "uni">>, <<"a", "f16", "ind">>}
=============================================================================
