----------------------------- MODULE MCDrataHttp -----------------------------
(* Instances of DrataHttp for TLC: every class of status code the client    *)
(* tells apart, batches of up to two results in every form, and delays of   *)
(* which the first and the last are none that time.sleep takes.             *)
EXTENDS DrataHttp

NoBody == [form |-> "empty", items |-> <<>>]

Result == [code : {0, 200, 400, 409}, error : BOOLEAN]

Body ==
  {[form |-> f, items |-> l] :
     f \in {"list", "data", "results", "other"},
     l \in {<<>>} \cup {<<i>> : i \in Result} \cup {<<i, j>> : i, j \in Result}}

Plain(statuses, afters) ==
  {[status |-> s, after |-> a, body |-> NoBody] : s \in statuses, a \in afters}

AnyAnswer ==
  Plain({204, 302, 400, 401, 403, 404, 409}, {<<>>})
  \cup Plain({429, 500, 599}, {<<>>, <<-1>>, <<0>>, <<7>>, <<3600>>, <<3601>>})
  \cup {[status |-> s, after |-> <<>>, body |-> b] : s \in {200, 201}, b \in Body}

=============================================================================
