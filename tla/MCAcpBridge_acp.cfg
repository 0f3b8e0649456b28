SPECIFICATION FairSpec
CONSTANTS
    Requests <- MCRequests
    Prompts <- MCPrompts
    KeyOf <- MCKeyOf
    ThreadOf <- MCThreadOf
    Script <- MCScript
    Cancellable <- MCCancellable
    Clients <- MCClients
    Mortal <- MCMortal
    None = None
    NoRun = NoRun
    MaxProcesses = 1
    Overlap = 2
INVARIANTS StreamIsOwn ItemsStream StoredAsStreamed QuietIsClear
 
CHECK_DEADLOCK FALSE
