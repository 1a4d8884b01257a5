---------------------------- MODULE MCNodeQueries ---------------------------
(* Two runtimes: the second changes a hasher, makes a map of a double map and *)
(* adds an entry.                                                             *)
EXTENDS NodeQueries

Entry(name, hashers) == [name |-> name, hashers |-> hashers]
Pallet(name, index, entries, constants) ==
  [name |-> name, index |-> index, calls |-> None, event |-> None, error |-> None,
   storage |-> entries, constants |-> constants]
RuntimeOf(account, stakers, system) ==
  MetadataFrom(
    [prefix |-> TRUE, version |-> 14, types |-> [Unit |-> [def |-> "Tuple"]],
     pallets |-> <<Pallet("System", 0, <<Entry("Account", account)>> \o system, <<>>),
                   Pallet("Balances", 5, <<Entry("Total", <<>>), Entry("Locks", <<"Identity">>)>>,
                          <<[name |-> "ExistentialDeposit", value |-> 500]>>),
                   Pallet("Staking", 6, <<Entry("Stakers", stakers)>>, <<>>)>>])

MCRuntimes ==
  <<RuntimeOf(<<"Blake2_128Concat">>, <<"Twox64Concat", "Blake2_256">>, <<>>),
    RuntimeOf(<<"Twox64Concat">>, <<"Twox64Concat">>, <<Entry("Number", <<>>)>>)>>

Item(name, entry, keys, in) == [pallet |-> name, name |-> entry, keys |-> keys, in |-> in]
MCStored ==
  {Item("System", "Account", <<"alice">>, {1, 2}), Item("System", "Account", <<"bob">>, {1, 2}),
   Item("Balances", "Total", <<>>, {1, 2}), Item("Balances", "Locks", <<"alice">>, {1, 2}),
   Item("Staking", "Stakers", <<"alice", "bob">>, {1}), Item("Staking", "Stakers", <<"alice">>, {2}),
   Item("System", "Number", <<>>, {2})}

Query(op, name, entry, keys, at) ==
  [op |-> op, pallet |-> name, name |-> entry, keys |-> keys, at |-> at]
Old == <<[label |-> "a", spec |-> 1]>>
MCQueries ==
  UNION {{Query("map", "System", "Account", <<"alice">>, at),
          Query("map", "System", "Account", <<"carol">>, at),
          Query("double_map", "Staking", "Stakers", <<"alice", "bob">>, at),
          Query("map_keys", "System", "Account", <<>>, at)} : at \in {<<>>, <<Old>>}}
    \cup {Query("value", "Balances", "Total", <<>>, <<>>),
          Query("value", "System", "Number", <<>>, <<>>),
          Query("value_proof", "Balances", "Locks", <<>>, <<>>),
          Query("map", "Staking", "Stakers", <<"alice">>, <<>>),
          Query("map", "Balances", "Locks", <<"alice">>, <<>>),
          Query("map_proof", "Balances", "Locks", <<"alice">>, <<Old>>),
          Query("double_map_proof", "Staking", "Stakers", <<"alice", "bob">>, <<>>),
          Query("account_info", "System", "Account", <<"bob">>, <<>>),
          Query("constant", "Balances", "ExistentialDeposit", <<>>, <<>>),
          Query("constant", "Balances", "Fee", <<>>, <<>>),
          Query("block", "", "", <<>>, <<Old>>), Query("header", "", "", <<>>, <<>>),
          [op |-> "finalized_head"], [op |-> "fee_details"]}
    \cup [op : {"block_by_num"}, number : {<<>>, <<0>>, <<1>>, <<2>>}]

Fee(base, length, weight) ==
  [inclusion_fee |-> <<[base_fee |-> base, len_fee |-> length, adjusted_weight_fee |-> weight]>>]
MCFeeAnswers ==
  {[inclusion_fee |-> <<>>], Fee(1, 1, 1), Fee(3, 3, 3), Fee(7, 0, 1), Fee(0, 8, 0), Fee(0, 0, 9)}
=============================================================================
