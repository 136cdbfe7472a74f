------------------------------ MODULE MCProcess ------------------------------
(* Bounds for TLC: requests of every way through the dispatch, with ids whose *)
(* answers are signed over 51, 252, 253 and 256 bytes; all configurations    *)
(* that differ for Parse, with up to two seeds.                              *)
EXTENDS Process

Post(method, id) ==
  [path |-> "/", method |-> "POST",
   body |-> [json |-> TRUE, long |-> FALSE, method |-> method, id |-> id]]

MCRequests ==
  { Post("PING", Str(233)), Post("PING", NoString), Post("CONSIGN", Str(32)),
    Post("OFFER", Str(234)), Post("other", Str(237)), Post("other", Str(0)),
    [Post("AUDIT", Str(32)) EXCEPT !.body.json = FALSE],
    [Post("CONSIGN", Str(32)) EXCEPT !.body.long = TRUE],
    [Post("other", NoString) EXCEPT !.method = "GET"],
    [Post("other", NoString) EXCEPT !.method = "PUT"],
    [Post("other", NoString) EXCEPT !.path = "/shards"],
    [Post("other", NoString) EXCEPT !.path = "/favicon.ico"] }

MCFiles ==
  [local_addr : {"good", "bad"},
   private_key : {"good", "offCurve", "bad"},
   data_dir : {"given", "empty"},
   protocol : {"given", "empty"},
   seed_list : {None, <<"good">>, <<"empty">>, <<"good", "bad">>}]
=============================================================================
