----------------------------- MODULE MCCatalog -----------------------------
EXTENDS Catalog

CONSTANTS t, c

ProductKey == [kind |-> "product", id |-> 1]
BrowseKey(n) == [kind |-> "browse", tag |-> t, page |-> n]
SearchKey(n) == [kind |-> "search", tag |-> t, page |-> n]

MCProduct == {ProductKey}
MCLists == {BrowseKey(1), SearchKey(2)}
=============================================================================
