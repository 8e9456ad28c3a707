--------------------------- MODULE MCProjections ---------------------------
(***************************************************************************)
(* Four accounts with addresses of two digits, so that some share a digit; *)
(* for the contract alone, payloads at its limits and just beyond them.    *)
(* A text is UTF-8, or garbled: it does not give its bytes when it was     *)
(* read.                                                                   *)
(***************************************************************************)
EXTENDS Projections

MCAccount == {<<0, 1>>, <<0, 2>>, <<1, 0>>, <<1, 1>>}
MCZero == <<0, 0>>
MCSelected == <<1, 1>>
MCTrackedAccounts == {<<0, 1>>, <<1, 0>>}
MCTrackedPosts == {2}

Utf8(n) == [bytes |-> n, read |-> n, exact |-> TRUE]
Garbled(n, m) == [bytes |-> n, read |-> m, exact |-> FALSE]
Something == [body |-> Utf8(1), media |-> 0]
Unreadable == [body |-> Garbled(1, 3), media |-> 0]
Named == [name |-> Utf8(1), bio |-> Utf8(0), media |-> 0]
Misnamed == [name |-> Garbled(1, 3), bio |-> Utf8(0), media |-> 0]

Everybody == [accounts |-> MCAccount,
              payloads |-> {Something},
              profiles |-> {Named},
              groups |-> {[name |-> Utf8(1), media |-> 0]},
              maxEvents |-> 4, maxBlock |-> 4]

\* Texts that fit, and do not; that are longer, shorter or nothing when read; and
\* one whose invalid bytes are as many as what they are read as.
AtTheLimits ==
    [accounts |-> {<<0, 1>>},
     payloads |-> [body : {Utf8(0), Utf8(4096), Utf8(4097), Garbled(4096, 4098),
                           Garbled(4097, 4095), Garbled(3, 0), Garbled(3, 3)},
                   media : {0, 128, 129}],
     profiles |-> [name : {Utf8(0), Utf8(64), Utf8(65), Garbled(64, 66), Garbled(3, 3)},
                   bio : {Utf8(0), Utf8(1024), Utf8(1025), Garbled(1024, 1026)},
                   media : {0, 128, 129}],
     groups |-> [name : {Utf8(0), Utf8(96), Utf8(97), Garbled(96, 98), Garbled(3, 0),
                         Garbled(97, 95)},
                 media : {0, 128, 129}],
     maxEvents |-> 2, maxBlock |-> 1]

ContractAlone == {"contract"}
EveryView == {"contract", "followers", "following", "members", "profiles",
              "comments", "reactions"}
MCInput ==
    [v \in EveryView |->
        CASE v = "contract" -> AtTheLimits
          [] v = "followers" -> [Everybody EXCEPT !.maxEvents = 3]
          [] v = "following" -> [Everybody EXCEPT !.maxBlock = 3]
          [] v = "members" -> [Everybody EXCEPT !.accounts = @ \ {<<1, 1>>},
                                                !.maxBlock = 3]
          [] v = "profiles" -> [Everybody EXCEPT !.accounts = @ \ {<<1, 1>>},
                                                 !.profiles = {Named, Misnamed}]
          [] v = "comments" -> [Everybody EXCEPT !.accounts = {<<0, 1>>},
                                                 !.payloads = {Something, Unreadable},
                                                 !.maxEvents = 5]
          [] v = "reactions" -> [Everybody EXCEPT !.accounts = {<<0, 1>>, <<0, 2>>},
                                                  !.maxBlock = 3]]

\* Names that are not UTF-8.
RawNames ==
    [v \in ContractAlone |->
        [Everybody EXCEPT !.payloads = {},
                          !.profiles = {Named, Misnamed},
                          !.groups = {[name |-> Garbled(1, 3), media |-> 0]},
                          !.maxEvents = 3, !.maxBlock = 2]]
=============================================================================
