SPECIFICATION FairSpec
CONSTANTS
    Kinds = {"vm", "pod", "exec"}
    MaxHooks = 2
    Faults = {"syscall", "proxy", "lost", "file", "hook", "net", "args", "setup", "exec", "monitor", "vm", "crash"}
INVARIANTS PidFileLast ShimArguments ChildErrorSeen FailureLeavesNoShim
PROPERTIES LaunchReturns NoStrandedChild
\* A command that has returned is done; one may also wait for ever for the
\* socket of a hypervisor that has ended, or for an answer of a proxy that has.
CHECK_DEADLOCK FALSE
