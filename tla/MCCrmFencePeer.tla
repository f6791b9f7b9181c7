---------------------------- MODULE MCCrmFencePeer ----------------------------
EXTENDS CrmFencePeer

FenceAndUnfence == {<<"a", "fence">>, <<"b", "fence">>, <<"c", "unfence">>}
TwoUnfence == {<<"a", "unfence">>, <<"b", "unfence">>}
AllMasks == SUBSET Nodes
Leftover == {{{"a", "b"}}}
OnEntry == {{}, {{"a", "b"}}}
=============================================================================
