---------------------------- MODULE MCBagReader -----------------------------
(***************************************************************************)
(* BagReader for TLC: bags of one and two files, with messages of one time    *)
(* and, in a file, out of the order of time.                                  *)
(***************************************************************************)
EXTENDS BagReaderProps

M(stamp, topic) == [stamp |-> stamp, topic |-> topic]
Created(type, format, offers) == [type |-> type, format |-> format, offers |-> offers]
Bag(kind, files) ==
    [kind |-> kind, files |-> files, indexed |-> TRUE, metadata |-> TRUE,
     topics |-> [t \in Topics |-> Created("String", "cdr", {kind})]]
Retyped(bag) == [bag EXCEPT !.topics["b"].type = "Image", !.topics["a"].format = "other"]
Output(selected, output_format, rmw_format) ==
    [selected |-> selected, output_format |-> output_format, rmw_format |-> rmw_format]

(* The second file begins at the time at which the first ends, as one does that   *)
(* repeats the latched messages.                                              *)
Split   == <<<<M(2, "a"), M(1, "b"), M(2, "b"), M(2, "a")>>, <<M(2, "a"), M(4, "b"), M(3, "a")>>>>
Single  == <<<<M(1, "a"), M(2, "a"), M(2, "b"), M(4, "b")>>>>
Written == [Bag("mcap", Single) EXCEPT !.indexed = FALSE, !.metadata = FALSE]

Scenario(client, bags) ==
    [client |-> client, bags |-> bags, outputs |-> << >>, start |-> 0, end |-> 0]
Kinds == {"sqlite3", "mcap"}
MCScenarios ==
    {Scenario("reader", <<Bag(k, Split)>>) : k \in Kinds}
      \cup {Scenario("manager", <<Bag(k, Split), Written>>) : k \in Kinds}
      \cup {Scenario("manager", <<Bag("sqlite3", Single), Bag("mcap", <<<< >>>>)>>)}
      \cup {[client |-> "rewrite", bags |-> <<Bag("mcap", Split), second>>,
             outputs |-> <<Output({"a"}, "", ""), Output({"a", "b"}, "", "cdr")>>, start |-> s, end |-> e] :
             s \in {0, 2}, e \in {0, 2, 3}, second \in {Bag("sqlite3", Single), Retyped(Bag("sqlite3", Single))}}
MCOrders == {[by |-> "received", reverse |-> b] : b \in BOOLEAN}

=============================================================================
