----------------------------- MODULE MCProfiles -----------------------------
EXTENDS Profiles

\* Two profiles whose texts differ in length, so that a writer may leave the
\* end of a longer text.
TwoProfiles ==
    {[scope |-> 0, security |-> NoSecurity], [scope |-> 1, security |-> "security"]}

=============================================================================
