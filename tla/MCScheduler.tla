----------------------------- MODULE MCScheduler -----------------------------
EXTENDS Scheduler

CONSTANTS a, b
==============================================================================
