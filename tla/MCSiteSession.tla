--------------------------- MODULE MCSiteSession ---------------------------
EXTENDS SiteSession

Bookmarks == {[view |-> "preflight", step |-> 0], [view |-> "wizard", step |-> 2]}
=============================================================================
