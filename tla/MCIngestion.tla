----------------------------- MODULE MCIngestion -----------------------------
\* A small instance of Ingestion: two collections that may list the same
\* message, a page that lists one twice, one that lists a message as read that
\* another listed as unread under the same version, and a later backfill.
EXTENDS Ingestion, TLC

CONSTANTS mail, later, sent

Page(items, backfill, closes) ==
    [items |-> [i \in DOMAIN items |-> [key |-> items[i][1], kind |-> items[i][2]]],
     backfill |-> backfill, closes_round |-> closes]

First == Page(<<<<mail, "read">>>>, FALSE, FALSE)
Twice == Page(<<<<mail, "read">>, <<mail, "read">>>>, FALSE, TRUE)
Mixed == Page(<<<<sent, "sentAgain">>, <<later, "unread">>>>, FALSE, TRUE)
Again == Page(<<<<mail, "read">>, <<later, "read">>>>, TRUE, FALSE)

MCPages == {First, Twice, Mixed, Again}

\* A window that closes at once or after a page, a message that was moved from
\* one collection to the other, mail that comes after the baseline.
MCStreams ==
    {s \in [Collections -> {<<First, Mixed>>, <<Mixed, First>>, <<Mixed, Again>>, <<Twice>>}] :
        \E c \in Collections : Len(s[c]) > 1}
=============================================================================
