--------------------------- MODULE MCTopicFilter ---------------------------
\* Instances of TopicFilter for TLC.
EXTENDS TopicFilter

OneLetter == {"a"}
=============================================================================
