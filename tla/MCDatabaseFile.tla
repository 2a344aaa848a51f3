--------------------------- MODULE MCDatabaseFile ---------------------------
(***************************************************************************)
(* DatabaseFile with the files that an older or a newer version may have   *)
(* left: up to one ticket, and one extended public key.                    *)
(***************************************************************************)
EXTENDS DatabaseFile

MCTicket(form, ids) ==
    [form : {form}, FeeTxStatus : {"none", "confirmed"}, FeeTxHex : {"hex"},
     VoteChoices : {"null"}, FeeAddressXPubID : ids]

MCRecords ==
    {[form |-> "bucket", FeeTxStatus |-> "none", FeeTxHex |-> "hex", VoteChoices |-> "null",
      FeeAddressXPubID |-> None],
     [form |-> "bucket", FeeTxStatus |-> "confirmed", FeeTxHex |-> "", VoteChoices |-> "choices",
      FeeAddressXPubID |-> None]}

MCKey == CHOOSE x \in XPubs : TRUE

MCContents ==
    [version : 1 .. latestVersion + 1, privatekey : {CHOOSE key \in SignKeys : TRUE},
     ticketbkt : [Tickets -> {None} \union MCTicket("json", {None})
                                    \union MCTicket("bucket", {0})],
     altsigbkt : {None, {}}, feeXPub : {None, MCKey}, lastaddressindex : {None, 1},
     xpubbkt : {[id \in XPubIDs |-> None],
                [id \in XPubIDs |-> IF id = 0 THEN NewXPub(MCKey, 1) ELSE None]}]

MCOldFiles == {c \in MCContents : WellFormed(c)}
=============================================================================
