SPECIFICATION Spec
CONSTANTS
    Off = Off
    Unlimited = Unlimited
PROPERTY NobodyLeftWaiting
CHECK_DEADLOCK FALSE
