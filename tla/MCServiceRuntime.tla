-------------------------- MODULE MCServiceRuntime --------------------------
EXTENDS ServiceRuntime

=============================================================================
