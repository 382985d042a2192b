---------------------------- MODULE MCSendLimits ----------------------------
EXTENDS AccountSigning
CONSTANTS ckb
\* A send of two units of one asset: two sends in a day reach an amount of four.
MCFlows == {[a \in Assets |-> IF a = b THEN 2 ELSE 0] : b \in Assets}
\* The server's clock is Lit's, or ahead of it by the margin.
MCSkews == {0, 1}
\* Cells the rules tell apart: at every lock, of every type; two amounts of CKB and of a token.
MCSources ==
    {Cell("secp", "none", 0, 3), Cell("secp", "none", 0, 1), Cell("omni", "none", 0, 2), Cell("list", "none", 0, 1),
     Cell("list", "mine", 1, 1), Cell("foreign", "none", 0, 2), Cell("flags", "none", 0, 1), Cell("acp", "none", 0, 1),
     Cell("other", "none", 0, 2), Cell("secp", "token", 2, 1), Cell("omni", "token", 1, 1), Cell("other", "token", 2, 1),
     Cell("secp", "coin", 1, 1), Cell("omni", "nft", 1, 1), Cell("other", "nft", 1, 1), Cell("secp", "dao", 0, 1),
     Cell("secp", "odd", 1, 1), Cell("secp", "limits", 1, 1), Cell("secp", "code", 1, 1), Cell("other", "theirs", 1, 1)}
MCTargets ==
    {Cell("secp", "none", 0, 2), Cell("omni", "none", 0, 1), Cell("omni", "none", 0, 2), Cell("list", "none", 0, 1),
     Cell("list", "mine", 1, 1), Cell("foreign", "none", 0, 1), Cell("twin", "none", 0, 1), Cell("flags", "none", 0, 1),
     Cell("channel", "none", 0, 1),
     Cell("other", "none", 0, 1), Cell("other", "none", 0, 3), Cell("secp", "token", 1, 1), Cell("channel", "token", 1, 1),
     Cell("other", "token", 1, 1), Cell("other", "coin", 1, 1), Cell("omni", "nft", 1, 1), Cell("other", "nft", 1, 1),
     Cell("secp", "odd", 1, 1), Cell("other", "odd", 1, 1), Cell("secp", "limits", 1, 1), Cell("other", "limits", 1, 1)}
=============================================================================
