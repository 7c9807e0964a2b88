SPECIFICATION Spec
CONSTANT MaxCalls = 4
INVARIANTS HandleIsComplete FreesWhatItHas LostIsTold SuccessLeaks
